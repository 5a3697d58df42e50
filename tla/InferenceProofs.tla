-------------------------- MODULE InferenceProofs --------------------------
(***************************************************************************)
(* Proofs about Inference, for every size of the model, every vocabulary,  *)
(* every prompt set and every option.                                      *)
(***************************************************************************)
EXTENDS Inference, FiniteSets, TLAPS

(* A position of a block has a row inside the cache (gpt2.c:476 never      *)
(* leaves the allocation of gpt2.c:333).                                   *)
LEMMA RowInRange ==
    ASSUME NEW l \in 0 .. BlockCount - 1, NEW p \in 0 .. ContextLength - 1
    PROVE  Row(l, p) \in CacheRows
<1>1. ContextLength \in Nat /\ BlockCount \in Nat
  BY SizeAssumption
<1>2. l * ContextLength <= (BlockCount - 1) * ContextLength
  BY <1>1
<1>3. (BlockCount - 1) * ContextLength = BlockCount * ContextLength - ContextLength
  BY <1>1
<1>4. l * ContextLength \in Nat /\ BlockCount * ContextLength \in Nat
  BY <1>1
<1> QED
  BY <1>1, <1>2, <1>3, <1>4 DEF Row, CacheRows

(* Two positions never share a row.                                        *)
LEMMA RowInjective ==
    ASSUME NEW l \in 0 .. BlockCount - 1, NEW p \in 0 .. ContextLength - 1,
           NEW m \in 0 .. BlockCount - 1, NEW q \in 0 .. ContextLength - 1,
           Row(l, p) = Row(m, q)
    PROVE  l = m /\ p = q
<1>1. ContextLength \in Nat /\ BlockCount \in Nat
  BY SizeAssumption
<1>2. l * ContextLength + p = m * ContextLength + q
  BY DEF Row
<1>3. ASSUME NEW a \in Nat, NEW b \in Nat, a < b
      PROVE  a * ContextLength + ContextLength <= b * ContextLength
  <2>1. (a + 1) * ContextLength <= b * ContextLength
    BY <1>1, <1>3
  <2> QED
    BY <1>1, <2>1
<1>4. ~(l < m) /\ ~(m < l)
  <2>1. l < m => l * ContextLength + ContextLength <= m * ContextLength
    BY <1>1, <1>3
  <2>2. m < l => m * ContextLength + ContextLength <= l * ContextLength
    BY <1>1, <1>3
  <2>3. l * ContextLength \in Nat /\ m * ContextLength \in Nat
    BY <1>1
  <2> QED
    BY <1>1, <1>2, <2>1, <2>2, <2>3
<1>5. l = m
  BY <1>1, <1>4
<1>6. l * ContextLength \in Nat
  BY <1>1
<1> QED
  BY <1>2, <1>5, <1>6

(* A prefix of a bounded history is a context.                             *)
LEMMA PrefixIsContext ==
    ASSUME NEW s \in Seq(TokenIds), NEW n \in 1 .. Len(s), Len(s) <= ContextLength
    PROVE  /\ Prefix(s, n) \in Contexts
           /\ Len(Prefix(s, n)) = n
           /\ DOMAIN Prefix(s, n) = 1 .. n
<1>1. Prefix(s, n) \in [1 .. n -> TokenIds]
  BY DEF Prefix
<1>2. n \in 1 .. ContextLength
  BY SizeAssumption
<1> QED
  BY <1>1, <1>2 DEF Contexts, Prefix

LEMMA PrefixOfAppend ==
    ASSUME NEW S, NEW s \in Seq(S), NEW e \in S, NEW n \in 1 .. Len(s)
    PROVE  Prefix(Append(s, e), n) = Prefix(s, n)
  BY DEF Prefix

LEMMA PrefixOfPrefix ==
    ASSUME NEW s, NEW n \in Nat, NEW m \in 1 .. n
    PROVE  Prefix(Prefix(s, n), m) = Prefix(s, m)
  BY DEF Prefix

LEMMA WholePrefix ==
    ASSUME NEW S, NEW s \in Seq(S)
    PROVE  Prefix(s, Len(s)) = s
  BY DEF Prefix

(* The kept part of a prompt is never empty, leaves a free position when   *)
(* the context has more than one, and consists of the prompt's ids.        *)
LEMMA WindowType ==
    ASSUME NEW ids \in Seq(Nat), ids # <<>>
    PROVE  /\ Window(ids) \in Seq(Nat)
           /\ Len(Window(ids)) \in 1 .. ContextLength
<1>1. MaxPrompt \in 1 .. ContextLength
  BY SizeAssumption DEF MaxPrompt
<1>2. Len(ids) \in Nat \ {0}
  OBVIOUS
<1> DEFINE drop == IF Len(ids) > MaxPrompt THEN Len(ids) - MaxPrompt ELSE 0
           kept == Len(ids) - drop
<1>3. drop \in 0 .. Len(ids) /\ kept \in 1 .. MaxPrompt
  BY <1>1, <1>2, SizeAssumption
<1>4. Window(ids) = [i \in 1 .. kept |-> ids[i + drop]]
  BY DEF Window
<1>5. \A i \in 1 .. kept : ids[i + drop] \in Nat
  BY <1>1, <1>2, <1>3, SizeAssumption
<1> HIDE DEF drop, kept
<1>6. [i \in 1 .. kept |-> ids[i + drop]] \in Seq(Nat)
  BY <1>1, <1>3, <1>5, SizeAssumption
<1>7. Len([i \in 1 .. kept |-> ids[i + drop]]) = kept
  BY <1>1, <1>3, SizeAssumption
<1> QED
  BY <1>1, <1>3, <1>4, <1>6, <1>7, SizeAssumption

(* Whatever the options, a sampled id belongs to both vocabularies.        *)
LEMMA SamplingIdsAreTokens == SamplingIds \subseteq TokenIds
  BY SizeAssumption DEF SamplingIds, SamplingVocab, TokenIds

LEMMA ChoicesInDomain ==
    ASSUME NEW options, NEW values, NEW past
    PROVE  SamplerChoices(options, values, SamplingVocab, past) \subseteq SamplingIds
<1>1. SamplingVocab \in Nat \ {0}
  BY SizeAssumption DEF SamplingVocab
<1> QED
  BY <1>1 DEF SamplerChoices, SamplingIds

(* The initial states satisfy the invariant.                               *)
LEMMA InitIInv == Init => IInv
  BY SizeAssumption
  DEF Init, IInv, TypeOK, Control, CacheCoherent, UnwrittenZero, StateExact, LogitsExact,
      RangeNeverFails, LogitsReady, Active, InForward, ZeroCache

(* Ending the session keeps the invariant, for every reason but a failed   *)
(* range check.                                                            *)
LEMMA ExitIInv ==
    ASSUME IInv, NEW why, Exit(why), why # "range",
           UNCHANGED <<promptVars, position, layer>>,
           DOMAIN k_cache' = CacheRows, DOMAIN v_cache' = CacheRows
    PROVE  IInv'
<1>1. TypeOK'
  BY DEF IInv, TypeOK, Exit, promptVars
<1>2. ~Active' /\ ~InForward' /\ ~LogitsReady' /\ pc' = "exited"
  BY DEF Exit, Active, InForward, LogitsReady
<1>3. (Control /\ CacheCoherent /\ UnwrittenZero /\ StateExact /\ LogitsExact)'
  BY <1>2 DEF Control, CacheCoherent, UnwrittenZero, StateExact, LogitsExact
<1>4. RangeNeverFails'
  BY DEF Exit, RangeNeverFails
<1> QED
  BY <1>1, <1>3, <1>4 DEF IInv

LEMMA SeqMonotonic ==
    ASSUME NEW S, NEW T, S \subseteq T, NEW s \in Seq(S)
    PROVE  s \in Seq(T)
<1>1. \A i \in 1 .. Len(s) : s[i] \in S
  OBVIOUS
<1>2. \A i \in 1 .. Len(s) : s[i] \in T
  BY <1>1
<1> QED
  BY <1>2

(* A prompt's ids, an empty prompt replaced by the end-of-text token.      *)
LEMMA FedType ==
    ASSUME NEW ids \in Prompts, ids = <<>> => HasEos
    PROVE  LET fed == IF ids = <<>> THEN <<EosId>> ELSE ids
           IN fed \in Seq(Nat) /\ fed # <<>>
<1>1. 0 .. NTokens - 1 \subseteq Nat
  BY SizeAssumption
<1>2. ids \in Seq(0 .. NTokens - 1)
  BY PromptAssumption
<1>3. ids \in Seq(Nat)
  BY <1>1, <1>2, SeqMonotonic
<1>4. HasEos => EosId \in Nat
  BY SizeAssumption
<1> QED
  BY <1>3, <1>4

LEMMA PromptIdsType ==
    ASSUME NEW ids \in Prompts, ids = <<>> => HasEos
    PROVE  /\ PromptIds(ids) \in Seq(Nat)
           /\ Len(PromptIds(ids)) \in 1 .. ContextLength
  BY FedType, WindowType DEF PromptIds

(* Accepting a prompt establishes the invariant from scratch.              *)
LEMMA StartPromptIInv ==
    ASSUME IInv, NEW ids \in Prompts, StartPrompt(ids)
    PROVE  IInv'
<1>1. /\ history' \in Seq(Nat)
      /\ Len(history') \in 1 .. ContextLength
      /\ prompt_count' = Len(history')
      /\ generated' = 0 /\ output' = <<>> /\ position' = 0
      /\ pc' = "prefill" /\ UNCHANGED <<layer, cause>>
  BY PromptIdsType DEF StartPrompt
<1>2. history' \in Seq(TokenIds)
  <2>1. \A i \in 1 .. Len(history') : history'[i] \in TokenIds
    BY <1>1, SizeAssumption DEF StartPrompt, OutsideVocab, TokenIds
  <2> QED
    BY <1>1, <2>1
<1>3. TypeOK'
  BY <1>1, <1>2, SizeAssumption DEF IInv, TypeOK, StartPrompt, ZeroCache
<1>4. Control'
  BY <1>1, SizeAssumption DEF Control, InForward
<1>5. CacheCoherent' /\ UnwrittenZero'
  BY <1>1, RowInRange, SizeAssumption
  DEF StartPrompt, ZeroCache, CacheCoherent, UnwrittenZero, Written, InForward
<1>6. StateExact' /\ LogitsExact'
  BY <1>1, SizeAssumption DEF StateExact, LogitsExact, LogitsReady
<1>7. RangeNeverFails'
  BY <1>1 DEF IInv, RangeNeverFails
<1> QED
  BY <1>3, <1>4, <1>5, <1>6, <1>7 DEF IInv

(* One prefill step embeds the token at the current position, which the    *)
(* range check accepts.                                                    *)
LEMMA PrefillIInv ==
    ASSUME IInv, Prefill
    PROVE  IInv'
<1> USE DEF IInv
<1>1. /\ pc = "prefill" /\ position < prompt_count /\ generated = 0
      /\ Len(history) = prompt_count /\ Len(history) <= ContextLength
      /\ history \in Seq(TokenIds) /\ position \in Nat
      /\ prompt_count \in Nat
  BY SizeAssumption DEF Prefill, TypeOK, Control, Active
<1>2. history[position + 1] \in TokenIds
  BY <1>1
<1>3. /\ x' = Embed(history[position + 1], position)
      /\ layer' = 0 /\ pc' = "attention"
      /\ UNCHANGED <<history, prompt_count, generated, output, position,
                     k_cache, v_cache, logits, cause>>
  BY <1>1, <1>2, SizeAssumption
  DEF Prefill, Forward, TokenIds, promptVars, cacheVars
<1>4. TypeOK'
  BY <1>3, SizeAssumption DEF TypeOK
<1>5. Control'
  BY <1>1, <1>3, SizeAssumption DEF Control, Active, InForward
<1>6. CacheCoherent' /\ UnwrittenZero'
  <2>1. \A l \in 0 .. BlockCount - 1, t \in 0 .. ContextLength - 1 :
            Written(l, t)' <=> Written(l, t)
    BY <1>1, <1>3, SizeAssumption DEF Written, InForward
  <2> QED
    BY <1>1, <1>3, <2>1 DEF CacheCoherent, UnwrittenZero, Active
<1>7. StateExact'
  <2>1. /\ Current \in Contexts
        /\ Len(Current) = position + 1
        /\ Current[position + 1] = history[position + 1]
    BY <1>1, PrefixIsContext DEF Current, Prefix
  <2>2. Hidden(0, Current) = Embed(history[position + 1], position)
    BY <1>1, <2>1, HiddenAssumption
  <2> QED
    BY <1>3, <2>2 DEF StateExact, Current
<1>8. LogitsExact' /\ RangeNeverFails'
  BY <1>3 DEF LogitsExact, LogitsReady, RangeNeverFails
<1> QED
  BY <1>4, <1>5, <1>6, <1>7, <1>8

(* What the invariant says of the rows of the block in progress: those     *)
(* before the current position are written.                                *)
LEMMA RowsBefore ==
    ASSUME IInv, InForward, layer < BlockCount, NEW t \in 0 .. position - 1
    PROVE  /\ k_cache[Row(layer, t)] = KeyRow(layer, Hidden(layer, Prefix(history, t + 1)))
           /\ v_cache[Row(layer, t)] = ValueRow(layer, Hidden(layer, Prefix(history, t + 1)))
<1>1. layer \in 0 .. BlockCount - 1 /\ position \in 0 .. ContextLength
  BY SizeAssumption DEF IInv, TypeOK
<1>2. t \in 0 .. ContextLength - 1 /\ t < position
  BY <1>1, SizeAssumption
<1> QED
  BY <1>1, <1>2 DEF IInv, CacheCoherent, Active, Written

(* attention_incremental stores the row of the current token and of no     *)
(* other position, then reads the rows of the whole context.               *)
LEMMA AttentionIInv ==
    ASSUME IInv, Attention
    PROVE  IInv'
<1> USE DEF IInv
<1>1. /\ pc = "attention" /\ InForward /\ layer \in 0 .. BlockCount - 1
      /\ position \in 0 .. ContextLength - 1 /\ position < Len(history)
      /\ history \in Seq(TokenIds) /\ Len(history) <= ContextLength
      /\ x = Hidden(layer, Current)
  BY SizeAssumption
  DEF Attention, TypeOK, Control, Active, InForward, StateExact
<1>2. /\ pc' = "mlp"
      /\ UNCHANGED <<history, prompt_count, generated, output, position,
                     layer, logits, cause>>
  BY DEF Attention, promptVars
<1>3. \A l \in 0 .. BlockCount - 1, t \in 0 .. ContextLength - 1 :
        Row(l, t) \in CacheRows
        /\ (Row(l, t) = Row(layer, position) => l = layer /\ t = position)
  BY <1>1, RowInRange, RowInjective
<1>4. /\ DOMAIN k_cache' = CacheRows /\ DOMAIN v_cache' = CacheRows
      /\ k_cache'[Row(layer, position)] = KeyRow(layer, x)
      /\ v_cache'[Row(layer, position)] = ValueRow(layer, x)
      /\ \A row \in CacheRows : row # Row(layer, position) =>
            k_cache'[row] = k_cache[row] /\ v_cache'[row] = v_cache[row]
  BY <1>1, <1>3 DEF Attention, WriteRow, TypeOK
<1>5. TypeOK'
  BY <1>2, <1>4 DEF TypeOK
<1>6. Control'
  BY <1>1, <1>2, SizeAssumption DEF Control, Active, InForward
<1>7. CacheCoherent'
  <2> SUFFICES ASSUME NEW l \in 0 .. BlockCount - 1,
                      NEW t \in 0 .. ContextLength - 1, Written(l, t)'
               PROVE  /\ t < Len(history)
                      /\ k_cache'[Row(l, t)] = KeyRow(l, Hidden(l, Prefix(history, t + 1)))
                      /\ v_cache'[Row(l, t)] = ValueRow(l, Hidden(l, Prefix(history, t + 1)))
    BY <1>2 DEF CacheCoherent
  <2>1. CASE l = layer /\ t = position
    BY <1>1, <1>4, <2>1 DEF Current
  <2>2. CASE ~(l = layer /\ t = position)
    <3>1. Written(l, t)
      BY <1>1, <1>2, <2>2, SizeAssumption DEF Written, InForward
    <3>2. Row(l, t) \in CacheRows /\ Row(l, t) # Row(layer, position)
      BY <1>3, <2>2
    <3> QED
      BY <1>1, <1>4, <3>1, <3>2 DEF CacheCoherent, Active
  <2> QED
    BY <2>1, <2>2
<1>8. StateExact'
  <2>1. \A t \in 1 .. position + 1 :
          /\ k_cache'[Row(layer, t - 1)] = KeyRow(layer, Hidden(layer, Prefix(history, t)))
          /\ v_cache'[Row(layer, t - 1)] = ValueRow(layer, Hidden(layer, Prefix(history, t)))
    <3> SUFFICES ASSUME NEW t \in 1 .. position + 1
                 PROVE  /\ k_cache'[Row(layer, t - 1)]
                             = KeyRow(layer, Hidden(layer, Prefix(history, t)))
                        /\ v_cache'[Row(layer, t - 1)]
                             = ValueRow(layer, Hidden(layer, Prefix(history, t)))
      OBVIOUS
    <3>1. t - 1 \in 0 .. ContextLength - 1 /\ (t - 1) + 1 = t
      BY <1>1, SizeAssumption
    <3>2. CASE t = position + 1
      BY <1>1, <1>4, <3>1, <3>2 DEF Current
    <3>3. CASE t # position + 1
      <4> DEFINE r == t - 1
      <4>1. r \in 0 .. position - 1 /\ r + 1 = t
        BY <1>1, <3>3, SizeAssumption
      <4>2. Row(layer, r) \in CacheRows /\ Row(layer, r) # Row(layer, position)
        BY <1>1, <1>3, <3>1, <4>1, SizeAssumption
      <4> HIDE DEF r
      <4>3. /\ k_cache[Row(layer, r)] = KeyRow(layer, Hidden(layer, Prefix(history, t)))
            /\ v_cache[Row(layer, r)] = ValueRow(layer, Hidden(layer, Prefix(history, t)))
        <5>1. layer < BlockCount
          BY <1>1, SizeAssumption
        <5> QED
          BY <1>1, <4>1, <5>1, RowsBefore
      <4>4. /\ k_cache'[Row(layer, r)] = KeyRow(layer, Hidden(layer, Prefix(history, t)))
            /\ v_cache'[Row(layer, r)] = ValueRow(layer, Hidden(layer, Prefix(history, t)))
        BY <1>4, <4>2, <4>3
      <4> QED
        BY <4>4 DEF r
    <3> QED
      BY <3>2, <3>3
  <2>2. x' = AttnBlock(layer, x,
                [t \in 1 .. position + 1 |-> k_cache'[Row(layer, t - 1)]],
                [t \in 1 .. position + 1 |-> v_cache'[Row(layer, t - 1)]])
    BY DEF Attention, Keys, Values
  <2>3. x' = AttnBlock(layer, Hidden(layer, Current),
                [t \in 1 .. position + 1 |-> KeyRow(layer, Hidden(layer, Prefix(history, t)))],
                [t \in 1 .. position + 1 |-> ValueRow(layer, Hidden(layer, Prefix(history, t)))])
    BY <1>1, <2>1, <2>2
  <2> QED
    BY <1>2, <2>3 DEF StateExact, Current
<1>9. UnwrittenZero'
  <2> SUFFICES ASSUME NEW l \in 0 .. BlockCount - 1,
                      NEW t \in 0 .. ContextLength - 1, ~Written(l, t)'
               PROVE  /\ k_cache'[Row(l, t)] = ZeroRow
                      /\ v_cache'[Row(l, t)] = ZeroRow
    BY DEF UnwrittenZero
  <2>1. ~Written(l, t) /\ ~(l = layer /\ t = position)
    BY <1>1, <1>2, SizeAssumption DEF Written, InForward
  <2> QED
    BY <1>1, <1>3, <1>4, <2>1 DEF UnwrittenZero, Active
<1>10. LogitsExact' /\ RangeNeverFails'
  BY <1>2 DEF LogitsExact, LogitsReady, RangeNeverFails
<1> QED
  BY <1>5, <1>6, <1>7, <1>8, <1>9, <1>10

(* The MLP block completes one unrolling of the recurrence.                *)
LEMMA MlpIInv ==
    ASSUME IInv, Mlp
    PROVE  IInv'
<1> USE DEF IInv
<1>1. /\ pc = "mlp" /\ InForward /\ layer \in 0 .. BlockCount - 1
      /\ position \in 0 .. ContextLength - 1 /\ position < Len(history)
      /\ history \in Seq(TokenIds) /\ Len(history) <= ContextLength
  BY SizeAssumption DEF Mlp, TypeOK, Control, Active, InForward
<1>2. /\ x' = FeedForward(layer, x) /\ layer' = layer + 1
      /\ pc' = IF layer + 1 < BlockCount THEN "attention" ELSE "head"
      /\ UNCHANGED <<history, prompt_count, generated, output, position,
                     k_cache, v_cache, logits, cause>>
  BY DEF Mlp, promptVars, cacheVars
<1>3. TypeOK'
  BY <1>1, <1>2, SizeAssumption DEF TypeOK
<1>4. Control'
  BY <1>1, <1>2, SizeAssumption DEF Control, Active, InForward
<1>5. CacheCoherent' /\ UnwrittenZero'
  <2>1. \A l \in 0 .. BlockCount - 1, t \in 0 .. ContextLength - 1 :
            Written(l, t)' <=> Written(l, t)
    BY <1>1, <1>2, SizeAssumption DEF Written, InForward
  <2> QED
    BY <1>1, <1>2, <2>1 DEF CacheCoherent, UnwrittenZero, Active
<1>6. StateExact'
  <2>1. Current \in Contexts /\ Len(Current) = position + 1
    BY <1>1, PrefixIsContext, SizeAssumption DEF Current
  <2>2. \A t \in 1 .. position + 1 : Prefix(Current, t) = Prefix(history, t)
    BY <1>1, PrefixOfPrefix, SizeAssumption DEF Current
  <2>3. Hidden(layer + 1, Current) =
          FeedForward(layer, AttnBlock(layer, Hidden(layer, Current),
              [t \in 1 .. position + 1 |-> KeyRow(layer, Hidden(layer, Prefix(Current, t)))],
              [t \in 1 .. position + 1 |-> ValueRow(layer, Hidden(layer, Prefix(Current, t)))]))
    BY <1>1, <2>1, HiddenAssumption
  <2>4. Hidden(layer + 1, Current) = FeedForward(layer, x)
    BY <1>1, <2>2, <2>3 DEF StateExact
  <2>5. layer + 1 < BlockCount \/ layer + 1 = BlockCount
    BY <1>1, SizeAssumption
  <2> QED
    BY <1>2, <2>4, <2>5 DEF StateExact, Current
<1>7. LogitsExact' /\ RangeNeverFails'
  BY <1>2 DEF LogitsExact, LogitsReady, RangeNeverFails
<1> QED
  BY <1>3, <1>4, <1>5, <1>6, <1>7

(* Returning to the caller: the position advances over the token whose     *)
(* rows are now written in every block, and when it reaches the end of the *)
(* history the logits buffer holds this token's logits.                    *)
LEMMA OutputHeadIInv ==
    ASSUME IInv, OutputHead
    PROVE  IInv'
<1> USE DEF IInv
<1>1. /\ pc = "head" /\ InForward /\ layer = BlockCount
      /\ position \in 0 .. ContextLength - 1 /\ position < Len(history)
      /\ history \in Seq(TokenIds) /\ Len(history) <= ContextLength
      /\ prompt_count \in Nat /\ generated \in Nat
      /\ Len(history) = prompt_count + generated
      /\ generated > 0 => position + 1 = Len(history)
      /\ x = Hidden(BlockCount, Current)
  BY SizeAssumption
  DEF OutputHead, TypeOK, Control, Active, InForward, StateExact
<1>2. /\ position' = position + 1
      /\ pc' = IF generated > 0 THEN "generate" ELSE "prefill"
      /\ logits' = IF WantsLogits THEN RawLogits(x) ELSE logits
      /\ UNCHANGED <<history, prompt_count, generated, output, layer, x,
                     k_cache, v_cache, cause>>
  BY DEF OutputHead, ForwardReturns, promptVars, cacheVars
<1>3. TypeOK'
  BY <1>1, <1>2, SizeAssumption DEF TypeOK
<1>4. Control'
  BY <1>1, <1>2, SizeAssumption DEF Control, Active, InForward
<1>5. CacheCoherent' /\ UnwrittenZero'
  <2>1. \A l \in 0 .. BlockCount - 1, t \in 0 .. ContextLength - 1 :
            Written(l, t)' <=> Written(l, t)
    BY <1>1, <1>2, SizeAssumption DEF Written, InForward
  <2> QED
    BY <1>1, <1>2, <2>1 DEF CacheCoherent, UnwrittenZero, Active
<1>6. StateExact'
  BY <1>2 DEF StateExact
<1>7. LogitsExact'
  <2> SUFFICES ASSUME LogitsReady'
               PROVE  logits' = RawLogits(Hidden(BlockCount, history))
    BY <1>2 DEF LogitsExact
  <2>1. position + 1 = Len(history) /\ WantsLogits
    BY <1>1, <1>2 DEF LogitsReady, WantsLogits
  <2>2. Current = history
    BY <1>1, <2>1, WholePrefix DEF Current
  <2> QED
    BY <1>1, <1>2, <2>1, <2>2
<1>8. RangeNeverFails'
  BY <1>2 DEF RangeNeverFails
<1> QED
  BY <1>3, <1>4, <1>5, <1>6, <1>7, <1>8

(* One generation step: the sampled id is in the model's vocabulary and    *)
(* the position inside the context, so the range check accepts it, and the *)
(* history grows by exactly the token whose forward pass begins.           *)
LEMMA GenerateIInv ==
    ASSUME IInv, Generate
    PROVE  IInv'
<1> USE DEF IInv
<1>1. /\ pc = "generate" /\ generated < MaxTokens /\ position < ContextLength
      /\ position = Len(history) /\ history \in Seq(TokenIds)
      /\ prompt_count \in Nat /\ 1 <= prompt_count /\ generated \in Nat
      /\ Len(history) = prompt_count + generated
      /\ output \in Seq(SamplingIds) /\ Len(output) = generated
      /\ ~NextTokenId
  BY SizeAssumption DEF Generate, LoopCondition, TypeOK, Control, Active
<1>2. PICK next \in Sampled(Mask(logits), history) :
          /\ history' = Append(history, next)
          /\ output' = Append(output, next)
          /\ Forward(next, position)
  BY DEF Generate
<1>3. next \in SamplingIds /\ next \in TokenIds
  BY <1>2, ChoicesInDomain, SamplingIdsAreTokens DEF Sampled
<1>4. /\ x' = Embed(next, position) /\ layer' = 0 /\ pc' = "attention"
      /\ UNCHANGED <<cause, prompt_count, position, k_cache, v_cache>>
      /\ generated' = generated + 1
  BY <1>1, <1>2, <1>3, SizeAssumption DEF Generate, Forward, TokenIds, cacheVars
<1>5. /\ history' \in Seq(TokenIds) /\ output' \in Seq(SamplingIds)
      /\ Len(history') = position + 1 /\ Len(history') <= ContextLength
      /\ Len(output') = generated + 1
      /\ history'[position + 1] = next
  <2>1. history' \in Seq(TokenIds) /\ output' \in Seq(SamplingIds)
    BY <1>1, <1>2, <1>3
  <2>2. /\ Len(history') = position + 1 /\ history'[position + 1] = next
        /\ Len(output') = generated + 1
    BY <1>1, <1>2, <1>3
  <2> QED
    BY <1>1, <2>1, <2>2, SizeAssumption
<1>6. TypeOK'
  BY <1>1, <1>4, <1>5, SizeAssumption DEF TypeOK
<1>7. Control'
  BY <1>1, <1>4, <1>5, SizeAssumption, SMTT(30) DEF Control, Active, InForward
<1>8. CacheCoherent'
  <2> SUFFICES ASSUME NEW l \in 0 .. BlockCount - 1,
                      NEW t \in 0 .. ContextLength - 1, Written(l, t)'
               PROVE  /\ t < Len(history')
                      /\ k_cache[Row(l, t)] = KeyRow(l, Hidden(l, Prefix(history', t + 1)))
                      /\ v_cache[Row(l, t)] = ValueRow(l, Hidden(l, Prefix(history', t + 1)))
    BY <1>4 DEF CacheCoherent
  <2>1. t < position /\ Written(l, t)
    BY <1>1, <1>4, SizeAssumption DEF Written, InForward
  <2>2. Prefix(history', t + 1) = Prefix(history, t + 1)
    BY <1>1, <1>2, <1>3, <2>1, PrefixOfAppend, SizeAssumption
  <2> QED
    BY <1>1, <1>5, <2>1, <2>2, SizeAssumption DEF CacheCoherent, Active
<1>9. UnwrittenZero'
  <2>1. \A l \in 0 .. BlockCount - 1, t \in 0 .. ContextLength - 1 :
            Written(l, t)' <=> Written(l, t)
    BY <1>1, <1>4, SizeAssumption DEF Written, InForward
  <2> QED
    BY <1>1, <1>4, <2>1 DEF UnwrittenZero, Active
<1>10. StateExact'
  <2>1. /\ Current' \in Contexts
        /\ Len(Current') = position + 1
        /\ Current'[position + 1] = next
    <3>1. Current' = Prefix(history', position + 1)
      BY <1>4 DEF Current
    <3>2. position \in Nat /\ Len(history') = position + 1
      BY <1>1, <1>5
    <3>3. position + 1 \in 1 .. Len(history')
      BY <3>2
    <3>4. /\ Current' \in Contexts
          /\ Len(Current') = position + 1
      BY <1>5, <3>1, <3>3, PrefixIsContext
    <3> QED
      BY <1>5, <3>1, <3>2, <3>4 DEF Prefix
  <2>2. Hidden(0, Current') = Embed(next, position)
    BY <1>1, <2>1, HiddenAssumption
  <2> QED
    BY <1>4, <2>2 DEF StateExact
<1>11. LogitsExact' /\ RangeNeverFails'
  BY <1>4 DEF LogitsExact, LogitsReady, RangeNeverFails
<1> QED
  BY <1>6, <1>7, <1>8, <1>9, <1>10, <1>11

(* The steps that end a prompt without touching the model's state.         *)
LEMMA FinishIInv ==
    ASSUME IInv, FinishPrompt, output' \in Seq(SamplingIds)
    PROVE  IInv'
<1> USE DEF IInv
<1>1. /\ pc' \in {"prompt", "exited"}
      /\ cause' # "range"
      /\ UNCHANGED <<history, prompt_count, generated, position, layer,
                     k_cache, v_cache>>
  BY DEF FinishPrompt, Exit, RangeNeverFails, cacheVars
<1>2. TypeOK'
  BY <1>1 DEF TypeOK
<1> QED
  BY <1>1, <1>2
  DEF Control, CacheCoherent, UnwrittenZero, StateExact, LogitsExact,
      LogitsReady, RangeNeverFails, Active, InForward

(* Every step preserves the invariant.                                     *)
LEMMA StepIInv == IInv /\ [Next]_vars => IInv'
<1> SUFFICES ASSUME IInv, [Next]_vars PROVE IInv'
  OBVIOUS
<1>1. CASE UNCHANGED vars
  BY <1>1
  DEF vars, IInv, TypeOK, Control, CacheCoherent, UnwrittenZero, StateExact,
      LogitsExact, RangeNeverFails, LogitsReady, Active, InForward, Written, Current
<1>2. CASE Exited
  BY <1>1, <1>2 DEF Exited
<1>3. CASE Attention
  BY <1>3, AttentionIInv
<1>4. CASE Mlp
  BY <1>4, MlpIInv
<1>5. CASE OutputHead
  BY <1>5, OutputHeadIInv
<1>6. CASE AttentionFails
  <2>1. DOMAIN k_cache' = CacheRows /\ DOMAIN v_cache' = CacheRows
    BY <1>6 DEF AttentionFails, WriteRow, cacheVars, IInv, TypeOK
  <2> QED
    BY <1>6, <2>1, ExitIInv DEF AttentionFails, BackendFails
<1>7. CASE ProjectionFails \/ Quit \/ EncodeFails \/ EmptyWithoutEos
           \/ \E ids \in Prompts : RefusePrompt(ids)
  <2>1. /\ UNCHANGED <<promptVars, position, layer>>
        /\ \E why \in {"backend", "quit", "encode", "no_eos", "vocab"} : Exit(why)
        /\ DOMAIN k_cache' = CacheRows /\ DOMAIN v_cache' = CacheRows
    BY <1>7
    DEF ProjectionFails, BackendFails, Quit, EncodeFails, EmptyWithoutEos,
        RefusePrompt, cacheVars, IInv, TypeOK
  <2> QED
    BY <2>1, ExitIInv
<1>8. CASE \E ids \in Prompts : StartPrompt(ids)
  BY <1>8, StartPromptIInv
<1>9. CASE Prefill
  BY <1>9, PrefillIInv
<1>10. CASE Generate
  BY <1>10, GenerateIInv
<1>11. CASE BeginGeneration
  <2>1. /\ pc = "prefill" /\ pc' = "generate" /\ position = prompt_count
        /\ ~NextTokenId
        /\ UNCHANGED <<history, prompt_count, generated, output, position,
                       layer, x, k_cache, v_cache, logits, cause>>
    BY <1>11 DEF BeginGeneration, promptVars, cacheVars
  <2>2. TypeOK' /\ Control'
    BY <2>1, SizeAssumption DEF IInv, TypeOK, Control, Active, InForward
  <2>3. CacheCoherent' /\ UnwrittenZero'
    BY <2>1 DEF IInv, CacheCoherent, UnwrittenZero, Written, Active, InForward
  <2> QED
    BY <2>1, <2>2, <2>3
    DEF IInv, StateExact, LogitsExact, LogitsReady, RangeNeverFails
<1>12. CASE StopAtEos \/ StopAtLimit
  <2>1. FinishPrompt /\ UNCHANGED output
    BY <1>12 DEF StopAtEos, StopAtLimit
  <2> QED
    BY <2>1, FinishIInv DEF IInv, TypeOK
<1>13. CASE PrintNextToken
  <2>1. PICK id \in SampledGreedily(Mask(logits), history) : output' = <<id>>
    BY <1>13 DEF PrintNextToken
  <2>2. id \in SamplingIds
    BY <2>1, ChoicesInDomain DEF SampledGreedily
  <2>3. output' \in Seq(SamplingIds)
    BY <2>1, <2>2
  <2> QED
    BY <1>13, <2>3, FinishIInv DEF PrintNextToken
<1> QED
  BY <1>1, <1>2, <1>3, <1>4, <1>5, <1>6, <1>7, <1>8, <1>9, <1>10, <1>11,
     <1>12, <1>13
  DEF Next, ForwardStep, LoopStep, PromptStep

THEOREM Invariance == Spec => []IInv
  BY InitIInv, StepIInv, PTL DEF Spec

(* The caches keep their size, every id stays in its vocabulary and the    *)
(* counters in their ranges (run_prompt, main.c:240-402).                  *)
THEOREM TypeCorrect == Spec => []TypeOK
<1>1. IInv => TypeOK
  BY DEF IInv
<1> QED
  BY <1>1, Invariance, PTL

(* Feeding the tokens one by one through the KV cache gives the logits of  *)
(* the whole context, for every prompt of every session.                   *)
THEOREM LogitsAreExact == Spec => []LogitsExact
<1>1. IInv => LogitsExact
  BY DEF IInv
<1> QED
  BY <1>1, Invariance, PTL

(* The cache holds the keys and values of the tokens fed so far.           *)
THEOREM CacheIsCoherent == Spec => []CacheCoherent
<1>1. IInv => CacheCoherent
  BY DEF IInv
<1> QED
  BY <1>1, Invariance, PTL

(* gpt2_forward_token is only called with arguments its range check        *)
(* accepts.                                                                *)
THEOREM RangeChecksPass == Spec => []RangeNeverFails
<1>1. IInv => RangeNeverFails
  BY DEF IInv
<1> QED
  BY <1>1, Invariance, PTL

(* Between two resets no row of the cache is written twice.                *)
LEMMA RowStep ==
    ASSUME IInv, [Next]_vars, NEW row \in CacheRows, k_cache'[row] # k_cache[row]
    PROVE  k_cache[row] = ZeroRow \/ (pc = "prompt" /\ k_cache'[row] = ZeroRow)
<1>1. CASE Attention \/ AttentionFails
  <2>1. /\ pc = "attention" /\ WriteRow
        /\ layer \in 0 .. BlockCount - 1 /\ position \in 0 .. ContextLength - 1
    BY <1>1, SizeAssumption
    DEF Attention, AttentionFails, cacheVars, IInv, TypeOK, Control, Active, InForward
  <2>2. Row(layer, position) \in CacheRows
    BY <2>1, RowInRange
  <2>3. row = Row(layer, position)
    BY <2>1, <2>2 DEF WriteRow, IInv, TypeOK
  <2>4. ~Written(layer, position)
    BY <2>1, SizeAssumption DEF Written
  <2> QED
    BY <2>1, <2>3, <2>4 DEF IInv, UnwrittenZero, Active, InForward
<1>2. CASE \E ids \in Prompts : StartPrompt(ids)
  BY <1>2 DEF StartPrompt, ZeroCache
<1>3. CASE ~(Attention \/ AttentionFails \/ \E ids \in Prompts : StartPrompt(ids))
  <2>1. UNCHANGED k_cache
    BY <1>3
    DEF Next, ForwardStep, LoopStep, PromptStep, vars, cacheVars, Mlp, OutputHead,
        ForwardReturns, ProjectionFails, Prefill, BeginGeneration, PrintNextToken,
        Generate, StopAtEos, StopAtLimit, FinishPrompt, Quit, EncodeFails,
        EmptyWithoutEos, RefusePrompt, Exited
  <2> QED
    BY <2>1
<1> QED
  BY <1>1, <1>2, <1>3

THEOREM RowsWrittenOnce == Spec => RowWrittenOnce
<1>1. IInv /\ [Next]_vars =>
        [\A row \in CacheRows :
            k_cache'[row] # k_cache[row] =>
                \/ k_cache[row] = ZeroRow
                \/ pc = "prompt" /\ k_cache'[row] = ZeroRow]_vars
  BY RowStep
<1> QED
  BY <1>1, Invariance, PTL DEF Spec, RowWrittenOnce

----------------------------------------------------------------------------
(* Refinement of Completion.                                               *)

(* The instance's copies of the operators of Sampler and Transformer.      *)
LEMMA SameChoices ==
    ASSUME NEW options, NEW values, NEW count, NEW past
    PROVE  Abstract!SamplerChoices(options, values, count, past)
             = SamplerChoices(options, values, count, past)
<1>1. Abstract!Recent(options, past) = Recent(options, past)
  BY DEF Recent, Abstract!Recent
<1>2. Abstract!Adjusted(options, values, past) = Adjusted(options, values, past)
  BY <1>1 DEF Adjusted, Penalised, NegInf, Abstract!Adjusted, Abstract!Penalised,
              Abstract!NegInf
<1> DEFINE adjusted == Adjusted(options, values, past)
           scores == Scaled(options, adjusted)
<1>3. Abstract!GreedyScan(adjusted) = GreedyScan(adjusted)
  BY DEF GreedyScan, Abstract!GreedyScan
<1>4. Abstract!Rankings(scores, count) = Rankings(scores, count)
  BY DEF Rankings, Abstract!Rankings
<1>5. Abstract!TopK(options, count) = TopK(options, count)
  BY DEF TopK, Abstract!TopK
<1>6. ASSUME NEW ranking, NEW keep
      PROVE  Abstract!Drawable(ranking, scores, keep) = Drawable(ranking, scores, keep)
  BY DEF Drawable, Weight, Undefined, NegInf, PosInf, Abstract!Drawable, Abstract!Weight,
         Abstract!Undefined, Abstract!NegInf, Abstract!PosInf
<1>7. ASSUME NEW ranking, NEW keep
      PROVE  Abstract!TopP(options, ranking, scores, keep) = TopP(options, ranking, scores, keep)
  <2>1. Abstract!Mass(ranking, scores) = Mass(ranking, scores)
    BY DEF Mass, Weight, Abstract!Mass, Abstract!Weight
  <2> QED
    BY <2>1 DEF TopP, Undefined, NegInf, PosInf, Abstract!TopP, Abstract!Undefined,
                Abstract!NegInf, Abstract!PosInf
<1>8. ASSUME NEW id
      PROVE  (\E ranking \in Abstract!Rankings(scores, count) :
                 id \in Abstract!Drawable(ranking, scores,
                     Abstract!TopP(options, ranking, scores, Abstract!TopK(options, count))))
             <=> (\E ranking \in Rankings(scores, count) :
                     id \in Drawable(ranking, scores,
                         TopP(options, ranking, scores, TopK(options, count))))
  <2> HIDE DEF scores
  <2> QED
    BY <1>4, <1>5, <1>6, <1>7
<1>9. Abstract!Scaled(options, adjusted) = scores
  BY DEF Scaled, Cold, NegInf, PosInf, Abstract!Scaled, Abstract!Cold, Abstract!NegInf,
         Abstract!PosInf
<1> QED
  BY <1>2, <1>3, <1>8, <1>9 DEF SamplerChoices, Abstract!SamplerChoices

LEMMA SameSampled ==
    ASSUME NEW L, NEW past
    PROVE  /\ Abstract!Sampled(L, past) = Sampled(L, past)
           /\ Abstract!SampledGreedily(L, past) = SampledGreedily(L, past)
<1>1. Abstract!Scores(L) = Scores(L)
  BY DEF Scores, SamplingIds, SamplingVocab, NegInf,
         Abstract!Scores, Abstract!SamplingIds, Abstract!SamplingVocab, Abstract!NegInf
<1>2. Abstract!SamplingVocab = SamplingVocab
  BY DEF SamplingVocab, Abstract!SamplingVocab
<1> QED
  BY <1>1, <1>2, SameChoices
  DEF Sampled, SampledGreedily, Abstract!Sampled, Abstract!SampledGreedily

LEMMA SameLogits == Abstract!FullLogits = Mask(RawLogits(Hidden(BlockCount, history)))
  BY DEF Abstract!FullLogits, Abstract!Mask, Abstract!RawLogits, Abstract!Masked,
         Abstract!SamplingIds, Abstract!SamplingVocab,
         Mask, RawLogits, Masked, SamplingIds, SamplingVocab

(* run_prompt's memmove keeps the end of the prompt.                       *)
LEMMA WindowIsKeptEnd ==
    ASSUME NEW ids \in Seq(Nat), ids # <<>>
    PROVE  Abstract!KeptEnd(ids, Window(ids))
<1>1. MaxPrompt \in 1 .. ContextLength
  BY SizeAssumption DEF MaxPrompt
<1>2. MaxPrompt = IF ContextLength = 1 THEN 1 ELSE ContextLength - 1
  BY SizeAssumption DEF MaxPrompt
<1>3. Len(ids) \in Nat \ {0}
  OBVIOUS
<1> DEFINE drop == IF Len(ids) > MaxPrompt THEN Len(ids) - MaxPrompt ELSE 0
           kept == Len(ids) - drop
<1>4. /\ drop \in Nat /\ kept \in Nat
      /\ kept = IF Len(ids) < MaxPrompt THEN Len(ids) ELSE MaxPrompt
      /\ drop = Len(ids) - kept
  <2>1. MaxPrompt \in Nat
    BY <1>1, SizeAssumption
  <2>2. CASE Len(ids) > MaxPrompt
    <3>1. drop = Len(ids) - MaxPrompt
      BY <2>2
    <3> QED
      BY <1>3, <2>1, <2>2, <3>1
  <2>3. CASE ~(Len(ids) > MaxPrompt)
    <3>1. drop = 0
      BY <2>3
    <3> QED
      BY <1>3, <2>1, <2>3, <3>1
  <2> QED
    BY <2>2, <2>3
<1>5. Window(ids) = [i \in 1 .. kept |-> ids[i + drop]]
  BY DEF Window
<1> HIDE DEF drop, kept
<1>6. Len(Window(ids)) = kept
  BY <1>4, <1>5
<1>7. \A i \in 1 .. kept : Window(ids)[i] = ids[Len(ids) - kept + i]
  BY <1>3, <1>4, <1>5
<1> QED
  BY <1>2, <1>4, <1>6, <1>7 DEF Abstract!KeptEnd

(* When the sampler runs, its logits are those the abstract completion     *)
(* samples from, and the two agree on whether more may be generated.       *)
LEMMA AbstractGeneration ==
    ASSUME IInv, pc = "generate"
    PROVE  /\ Abstract!FullLogits = Mask(logits)
           /\ Abstract!MoreAllowed <=> LoopCondition
           /\ ~NextTokenId
<1>1. logits = RawLogits(Hidden(BlockCount, history))
  BY DEF IInv, LogitsExact, LogitsReady
<1>2. position = Len(history) /\ Len(output) = generated /\ ~NextTokenId
  BY DEF IInv, Control, Active
<1> QED
  BY <1>1, <1>2, SameLogits DEF Abstract!MoreAllowed, LoopCondition

(* A step that ends the session with an error.                             *)
LEMMA ExitFails ==
    ASSUME NEW why, why \notin {"done", "quit"}, pc # "exited", Exit(why),
           UNCHANGED <<history, output>>
    PROVE  Abstract!Fail
  BY DEF Exit, Abstract!Fail

(* A step inside the forward pass is invisible.                            *)
LEMMA HiddenStep ==
    ASSUME UNCHANGED <<history, output>>,
           pc \notin {"prompt", "exited"}, pc' \notin {"prompt", "exited"}
    PROVE  UNCHANGED Abstract!vars
  BY DEF Abstract!vars

LEMMA FinishMapsToDone ==
    ASSUME FinishPrompt, pc \notin {"prompt", "exited"}
    PROVE  /\ (IF pc' = "prompt" THEN "ready"
               ELSE IF pc' # "exited" THEN "running"
               ELSE IF cause' \in {"done", "quit"} THEN "done" ELSE "failed")
                 = Abstract!Done
           /\ UNCHANGED history
  BY DEF FinishPrompt, Exit, Abstract!Done

LEMMA RefinementStep == IInv /\ [Next]_vars => [Abstract!Next]_(Abstract!vars)
<1> SUFFICES ASSUME IInv, [Next]_vars PROVE [Abstract!Next]_(Abstract!vars)
  OBVIOUS
<1>1. CASE UNCHANGED vars
  BY <1>1 DEF vars, Abstract!vars
<1>2. CASE Exited
  BY <1>1, <1>2 DEF Exited
<1>3. CASE Attention \/ Mlp \/ OutputHead \/ BeginGeneration
  BY <1>3, HiddenStep
  DEF Attention, Mlp, OutputHead, ForwardReturns, BeginGeneration, promptVars
<1>4. CASE Prefill
  <2>1. /\ pc = "prefill" /\ UNCHANGED <<history, output>>
        /\ pc' = "attention" \/ Exit("range")
    BY <1>4 DEF Prefill, Forward, promptVars
  <2> QED
    BY <2>1, HiddenStep, ExitFails DEF Abstract!Next
<1>5. CASE \/ AttentionFails \/ ProjectionFails \/ EncodeFails
           \/ EmptyWithoutEos \/ \E ids \in Prompts : RefusePrompt(ids)
  <2>1. /\ UNCHANGED <<history, output>> /\ pc # "exited"
        /\ \E why \in {"backend", "encode", "no_eos", "vocab"} : Exit(why)
    BY <1>5
    DEF AttentionFails, ProjectionFails, BackendFails, EncodeFails,
        EmptyWithoutEos, RefusePrompt, promptVars
  <2> QED
    BY <2>1, ExitFails DEF Abstract!Next
<1>10. CASE Quit
  <2>1. Abstract!Quit
    BY <1>10 DEF Quit, Exit, promptVars, Abstract!Quit
  <2> QED
    BY <2>1 DEF Abstract!Next
<1>6. ASSUME NEW ids \in Prompts, StartPrompt(ids)
      PROVE  Abstract!Accept(ids)
  <2>1. history' \in Seq(Nat)
    BY <1>6, PromptIdsType DEF StartPrompt
  <2>2. \A i \in 1 .. Len(history') : history'[i] \in Abstract!TokenIds
    BY <1>6, <2>1, SizeAssumption
    DEF StartPrompt, OutsideVocab, TokenIds, Abstract!TokenIds
  <2>3. Abstract!KeptEnd(IF ids = <<>> THEN <<EosId>> ELSE ids, history')
    BY <1>6, FedType, WindowIsKeptEnd DEF StartPrompt, PromptIds
  <2> QED
    BY <1>6, <2>2, <2>3 DEF StartPrompt, Abstract!Accept
<1>7. CASE Generate
  <2>1. pc = "generate" /\ LoopCondition
    BY <1>7 DEF Generate
  <2>2. PICK next \in Sampled(Mask(logits), history) :
            /\ ~IsEos(next) /\ Forward(next, position)
            /\ history' = Append(history, next) /\ output' = Append(output, next)
    BY <1>7 DEF Generate
  <2>3. ~(position >= ContextLength) /\ ~(next >= VocabSize)
    <3>1. next \in TokenIds
      BY <2>2, ChoicesInDomain, SamplingIdsAreTokens DEF Sampled
    <3> QED
      BY <2>1, <3>1, SizeAssumption DEF LoopCondition, TokenIds, IInv, TypeOK
  <2>4. pc' = "attention"
    BY <2>2, <2>3 DEF Forward
  <2>5. Abstract!Emit
    BY <2>1, <2>2, <2>4, AbstractGeneration, SameSampled
    DEF Abstract!Emit, Abstract!IsEos, IsEos
  <2> QED
    BY <2>5 DEF Abstract!Next
<1>8. CASE StopAtEos \/ StopAtLimit
  <2>1. /\ pc = "generate" /\ FinishPrompt /\ UNCHANGED output
        /\ LoopCondition => \E id \in Sampled(Mask(logits), history) : IsEos(id)
    BY <1>8 DEF StopAtEos, StopAtLimit
  <2>2. Abstract!Stop
    BY <2>1, AbstractGeneration, FinishMapsToDone, SameSampled
    DEF Abstract!Stop, Abstract!IsEos, IsEos
  <2> QED
    BY <2>2 DEF Abstract!Next
<1>9. CASE PrintNextToken
  <2>1. Abstract!FullLogits = Mask(logits)
    BY <1>9, SameLogits DEF PrintNextToken, IInv, LogitsExact, LogitsReady
  <2>2. Abstract!Answer
    BY <1>9, <2>1, FinishMapsToDone, SameSampled DEF PrintNextToken, Abstract!Answer
  <2> QED
    BY <2>2 DEF Abstract!Next
<1> QED
  BY <1>1, <1>2, <1>3, <1>4, <1>5, <1>6, <1>7, <1>8, <1>9, <1>10
  DEF Next, ForwardStep, LoopStep, PromptStep, Abstract!Next

(* Whatever is printed, and where printing stops, is what sampling from    *)
(* the logits of the whole context allows.                                 *)
THEOREM RefinesCompletion == Spec => CompletionSafety
<1>1. Init => Abstract!Init
  BY DEF Init, Abstract!Init
<1> QED
  BY <1>1, Invariance, RefinementStep, PTL DEF Spec, CompletionSafety, Abstract!Safety

----------------------------------------------------------------------------
(* No placeholder is printed, for the options that exclude it.             *)

UsedOptions == IF NextTokenId THEN [Options EXCEPT !.temperature = 0] ELSE Options

Draws == INSTANCE SamplerProofs WITH
    Vocab <- SamplingVocab, LogitValues <- Int, OptionSets <- {}, MaxDraws <- 0,
    options <- UsedOptions, logits <- Scores(Mask(logits))

(* The instance's copies of the operators of Sampler.                      *)
LEMMA SameDraws ==
    ASSUME NEW options, NEW values, NEW count, NEW past
    PROVE  Draws!SamplerChoices(options, values, count, past)
             = SamplerChoices(options, values, count, past)
<1>1. Draws!Recent(options, past) = Recent(options, past)
  BY DEF Recent, Draws!Recent
<1>2. Draws!Adjusted(options, values, past) = Adjusted(options, values, past)
  BY <1>1 DEF Adjusted, Penalised, NegInf, Draws!Adjusted, Draws!Penalised, Draws!NegInf
<1> DEFINE adjusted == Adjusted(options, values, past)
           scores == Scaled(options, adjusted)
<1>3. Draws!GreedyScan(adjusted) = GreedyScan(adjusted)
  BY DEF GreedyScan, Draws!GreedyScan
<1>4. Draws!Rankings(scores, count) = Rankings(scores, count)
  BY DEF Rankings, Draws!Rankings
<1>5. Draws!TopK(options, count) = TopK(options, count)
  BY DEF TopK, Draws!TopK
<1>6. ASSUME NEW ranking, NEW keep
      PROVE  Draws!Drawable(ranking, scores, keep) = Drawable(ranking, scores, keep)
  BY DEF Drawable, Weight, Undefined, NegInf, PosInf, Draws!Drawable, Draws!Weight,
         Draws!Undefined, Draws!NegInf, Draws!PosInf
<1>7. ASSUME NEW ranking, NEW keep
      PROVE  Draws!TopP(options, ranking, scores, keep) = TopP(options, ranking, scores, keep)
  <2>1. Draws!Mass(ranking, scores) = Mass(ranking, scores)
    BY DEF Mass, Weight, Draws!Mass, Draws!Weight
  <2> QED
    BY <2>1 DEF TopP, Undefined, NegInf, PosInf, Draws!TopP, Draws!Undefined,
                Draws!NegInf, Draws!PosInf
<1>8. ASSUME NEW id
      PROVE  (\E ranking \in Draws!Rankings(scores, count) :
                 id \in Draws!Drawable(ranking, scores,
                     Draws!TopP(options, ranking, scores, Draws!TopK(options, count))))
             <=> (\E ranking \in Rankings(scores, count) :
                     id \in Drawable(ranking, scores,
                         TopP(options, ranking, scores, TopK(options, count))))
  <2> HIDE DEF scores
  <2> QED
    BY <1>4, <1>5, <1>6, <1>7
<1>9. Draws!Scaled(options, adjusted) = scores
  BY DEF Scaled, Cold, NegInf, PosInf, Draws!Scaled, Draws!Cold, Draws!NegInf, Draws!PosInf
<1> QED
  BY <1>2, <1>3, <1>8, <1>9 DEF SamplerChoices, Draws!SamplerChoices

LEMMA DrawsLose == Draws!Arguments => Draws!MaskedNeverDrawn
<1>1. SamplingVocab \in Nat \ {0}
  BY SizeAssumption DEF SamplingVocab
<1> QED
  BY <1>1, Draws!MaskedLoses

(* The options of the session keep the placeholders out, and the logits of *)
(* a real model are finite and not so far apart that they pass for         *)
(* -infinity.  The run masked_fallback shows options that do not.          *)
OptionsExcludeMasked ==
    \/ NextTokenId \/ Options.temperature = 0
    \/ /\ Options.temperature # Cold
       /\ Options.top_p \in 1 .. 99 \/ Options.top_k \in 1 .. Cardinality(SamplingIds \ Masked)

FiniteLogits ==
    \A s \in Contexts :
        LET scores == LmHead(Hidden(BlockCount, s))
        IN \A id \in SamplingIds :
              {scores[id], Penalised(scores[id], Options.repeat_penalty)}
                  \subseteq NegInf + 4 .. PosInf - 1

PlaceholdersExcluded ==
    \/ Masked = {}
    \/ /\ Options \in [temperature : Nat, top_k : Nat, top_p : 0 .. 100,
                       repeat_penalty : Nat \ {0}, repeat_last_n : Nat]
       /\ Masked # SamplingIds
       /\ OptionsExcludeMasked
       /\ FiniteLogits

LEMMA MaskedScores ==
    ASSUME IInv, LogitsReady
    PROVE  \A id \in SamplingIds :
              Scores(Mask(logits))[id] =
                 IF id \in Masked THEN NegInf ELSE LmHead(Hidden(BlockCount, history))[id]
<1>1. logits = RawLogits(Hidden(BlockCount, history))
  BY DEF IInv, LogitsExact
<1>2. Mask(logits) = [of |-> Hidden(BlockCount, history), masked |-> Masked]
  BY <1>1 DEF Mask, RawLogits
<1> QED
  BY <1>2 DEF Scores

LEMMA SampledNotMasked ==
    ASSUME PlaceholdersExcluded, IInv, LogitsReady,
           NEW id \in SamplerChoices(UsedOptions, Scores(Mask(logits)), SamplingVocab, history)
    PROVE  id \notin Masked
<1> DEFINE scores == Scores(Mask(logits))
<1>1. CASE Masked = {}
  BY <1>1
<1>2. CASE /\ Options \in [temperature : Nat, top_k : Nat, top_p : 0 .. 100,
                           repeat_penalty : Nat \ {0}, repeat_last_n : Nat]
           /\ Masked # SamplingIds /\ OptionsExcludeMasked /\ FiniteLogits
  <2>1. SamplingVocab \in Nat \ {0} /\ Draws!Ids = SamplingIds /\ Masked \subseteq SamplingIds
    BY SizeAssumption DEF SamplingVocab, SamplingIds, Draws!Ids, Masked
  <2>2. /\ UsedOptions.temperature \in Nat /\ UsedOptions.top_k \in Nat
        /\ UsedOptions.top_p \in 0 .. 100 /\ UsedOptions.repeat_penalty \in Nat \ {0}
        /\ UsedOptions.repeat_last_n \in Nat
        /\ UsedOptions.repeat_penalty = Options.repeat_penalty
        /\ UsedOptions.top_p = Options.top_p /\ UsedOptions.top_k = Options.top_k
        /\ UsedOptions.temperature = IF NextTokenId THEN 0 ELSE Options.temperature
    BY <1>2 DEF UsedOptions
  <2>3. history \in Seq(Nat)
    <3>1. history \in Seq(TokenIds)
      BY DEF IInv, TypeOK
    <3>2. \A k \in TokenIds : k \in Nat
      BY SizeAssumption DEF TokenIds
    <3>3. Len(history) \in Nat /\ history \in [1 .. Len(history) -> Nat]
      BY <3>1, <3>2
    <3> QED
      BY <3>3
  <2>4. history \in Contexts
    <3>1. Active
      BY DEF LogitsReady, Active
    <3>2. Len(history) \in 1 .. ContextLength /\ history \in Seq(TokenIds)
      BY <3>1, SizeAssumption DEF IInv, TypeOK, Control
    <3> QED
      BY <3>2 DEF Contexts
  <2>5. \A k \in SamplingIds :
           /\ k \in Masked => scores[k] = -1000
           /\ k \notin Masked => {scores[k], Penalised(scores[k], Options.repeat_penalty)}
                                    \subseteq -996 .. 999
    BY <1>2, <2>4, MaskedScores DEF FiniteLogits, NegInf, PosInf
  <2>6. scores \in [SamplingIds -> Int]
    <3>1. scores = [k \in SamplingIds |-> scores[k]]
      BY DEF Scores
    <3>2. \A k \in SamplingIds : scores[k] \in Int
      BY <2>5, SMTT(30)
    <3> HIDE DEF scores
    <3> QED
      BY <3>1, <3>2
  <2>7. \A value : Draws!Penalised(value, Options.repeat_penalty)
                     = Penalised(value, Options.repeat_penalty)
    BY DEF Penalised, NegInf, Draws!Penalised, Draws!NegInf
  <2> HIDE DEF scores
  <2>8. Draws!NegInf = -1000 /\ Draws!PosInf = 1000 /\ Draws!Cold = Cold
    BY DEF Draws!NegInf, Draws!PosInf, Draws!Cold, Cold
  <2>9. \A k \in SamplingIds : scores[k] # Draws!NegInf <=> k \notin Masked
    <3> TAKE k \in SamplingIds
    <3>1. k \notin Masked => scores[k] \in -996 .. 999
      BY <2>5
    <3> QED
      BY <2>5, <2>8, <3>1
  <2>10. Draws!Arguments
    <3>1. \E k \in SamplingIds : scores[k] # Draws!NegInf
      BY <1>2, <2>1, <2>9
    <3>2. \A k \in SamplingIds : scores[k] # Draws!NegInf =>
             {scores[k], Draws!Penalised(scores[k], UsedOptions.repeat_penalty)}
                \subseteq Draws!NegInf + 4 .. Draws!PosInf - 1
      BY <2>2, <2>5, <2>7, <2>8, <2>9
    <3> QED
      BY <2>1, <2>2, <2>3, <2>6, <3>1, <3>2 DEF Draws!Arguments, scores
  <2>11. Draws!MaskedNeverDrawn
    BY <2>10, DrawsLose
  <2>12. id \in Draws!Returned
    BY SameDraws DEF Draws!Returned
  <2>13. {k \in SamplingIds : scores[k] # Draws!NegInf} = SamplingIds \ Masked
    BY <2>9
  <2>14. \/ UsedOptions.temperature = 0
         \/ UsedOptions.temperature # Draws!Cold /\ UsedOptions.top_p \in 1 .. 99
         \/ /\ UsedOptions.temperature # Draws!Cold
            /\ UsedOptions.top_k \in 1 .. Cardinality(SamplingIds \ Masked)
    BY <1>2, <2>2, <2>8 DEF OptionsExcludeMasked
  <2>15. Draws!Returned \subseteq SamplingIds \ Masked
    <3>1. \/ UsedOptions.temperature = 0
          \/ UsedOptions.temperature # Draws!Cold /\ UsedOptions.top_p \in 1 .. 99
          \/ /\ UsedOptions.temperature # Draws!Cold
             /\ UsedOptions.top_k \in
                   1 .. Cardinality({k \in SamplingIds : scores[k] # Draws!NegInf})
      BY <2>13, <2>14
    <3>2. \A S : Draws!Cardinality(S) = Cardinality(S)
      BY DEF Draws!Cardinality, Cardinality, Draws!IsFiniteSet, IsFiniteSet
    <3>3. Draws!Returned \subseteq {k \in SamplingIds : scores[k] # Draws!NegInf}
      BY <2>1, <2>11, <3>1, <3>2 DEF Draws!MaskedNeverDrawn, scores
    <3> QED
      BY <2>13, <3>3
  <2> QED
    BY <2>12, <2>15
<1> QED
  BY <1>1, <1>2 DEF PlaceholdersExcluded

(* Under such options every id printed is one of both vocabularies and no  *)
(* placeholder (main.c:224-226), and the end-of-text token only where      *)
(* --next-token-id asks for whatever comes first.                          *)
THEOREM PlaceholdersNeverPrinted == PlaceholdersExcluded => (Spec => []EmittedUsable)
<1> SUFFICES ASSUME PlaceholdersExcluded PROVE Spec => []EmittedUsable
  OBVIOUS
<1> DEFINE Good(id) == /\ id < VocabSize /\ id < NTokens
                       /\ IF HasEos /\ id = EosId THEN NextTokenId ELSE id \notin UnusedIds
<1>1. ASSUME NEW id \in SamplingIds, id \notin Masked, IsEos(id) => NextTokenId
      PROVE  Good(id)
  <2>1. id < VocabSize /\ id < NTokens
    BY SizeAssumption DEF SamplingIds, SamplingVocab
  <2> QED
    BY <1>1, <2>1 DEF Masked, IsEos
<1>2. Init => EmittedUsable
  BY DEF Init, EmittedUsable
<1>3. IInv /\ EmittedUsable /\ [Next]_vars => EmittedUsable'
  <2> SUFFICES ASSUME IInv, EmittedUsable, [Next]_vars PROVE EmittedUsable'
    OBVIOUS
  <2>1. output \in Seq(SamplingIds)
    BY DEF IInv, TypeOK
  <2>2. CASE UNCHANGED output
    BY <2>2 DEF EmittedUsable
  <2>3. CASE output' = <<>>
    BY <2>3 DEF EmittedUsable
  <2>4. CASE PrintNextToken
    <3>1. NextTokenId /\ LogitsReady
      BY <2>4 DEF PrintNextToken, LogitsReady
    <3>2. PICK id \in SampledGreedily(Mask(logits), history) : output' = <<id>>
      BY <2>4 DEF PrintNextToken
    <3>3. id \in SamplerChoices(UsedOptions, Scores(Mask(logits)), SamplingVocab, history)
      BY <3>1 DEF SampledGreedily, UsedOptions
    <3>4. id \in SamplingIds /\ id \notin Masked
      BY <3>1, <3>3, SampledNotMasked, ChoicesInDomain
    <3>5. Good(id)
      BY <1>1, <3>1, <3>4
    <3> QED
      BY <3>2, <3>5 DEF EmittedUsable
  <2>5. CASE Generate
    <3>1. LogitsReady /\ ~NextTokenId
      BY <2>5 DEF Generate, LogitsReady, IInv, Control, Active
    <3>2. PICK next \in Sampled(Mask(logits), history) :
             ~IsEos(next) /\ output' = Append(output, next)
      BY <2>5 DEF Generate
    <3>3. next \in SamplerChoices(UsedOptions, Scores(Mask(logits)), SamplingVocab, history)
      BY <3>1 DEF Sampled, UsedOptions
    <3>4. next \in SamplingIds /\ next \notin Masked
      BY <3>1, <3>3, SampledNotMasked, ChoicesInDomain
    <3>5. Good(next)
      BY <1>1, <3>2, <3>4
    <3>6. \A i \in DOMAIN output' : output'[i] = next \/ (i \in DOMAIN output /\ output'[i] = output[i])
      BY <2>1, <3>2, <3>4
    <3> QED
      BY <3>5, <3>6 DEF EmittedUsable
  <2>6. UNCHANGED output \/ output' = <<>> \/ PrintNextToken \/ Generate
    <3>1. CASE ForwardStep
      BY <3>1 DEF ForwardStep, Attention, AttentionFails, Mlp, OutputHead, ProjectionFails,
                  ForwardReturns, BackendFails, promptVars
    <3>2. CASE LoopStep
      BY <3>2 DEF LoopStep, Prefill, BeginGeneration, StopAtEos, StopAtLimit, promptVars
    <3>3. CASE PromptStep
      BY <3>3 DEF PromptStep, Quit, EncodeFails, EmptyWithoutEos, RefusePrompt, StartPrompt,
                  promptVars
    <3>4. CASE Exited \/ UNCHANGED vars
      BY <3>4 DEF Exited, vars
    <3> QED
      BY <3>1, <3>2, <3>3, <3>4 DEF Next
  <2> QED
    BY <2>2, <2>3, <2>4, <2>5, <2>6
<1> QED
  BY <1>2, <1>3, Invariance, PTL DEF Spec
=============================================================================
