----------------------------- MODULE MCSampler -----------------------------
(***************************************************************************)
(* A caller that draws one id after another, each from fresh logits, and   *)
(* appends it to the history it passes back, as run_prompt does.  Every    *)
(* invariant compares what sampler_sample may return in the current state  *)
(* with a definition that sorts nothing and scans nothing.                 *)
(***************************************************************************)
EXTENDS Sampler, FiniteSets, FiniteSetsExt

CONSTANTS Vocab,        \* sampling_vocab
          LogitValues,  \* the values a logit may have
          OptionSets,   \* the option records that are tried
          MaxDraws      \* bound on the length of the history

(* No finite logit, penalised or not, is beyond what a float can hold, or  *)
(* so far down that it could pass for -infinity.                           *)
ASSUME SamplerAssumption ==
    /\ Vocab \in Nat \ {0} /\ LogitValues \subseteq Int
    /\ \A o \in OptionSets :
          /\ o.temperature \in Nat /\ o.top_k \in Nat /\ o.top_p \in 0 .. 100
          /\ o.repeat_penalty \in Nat \ {0} /\ o.repeat_last_n \in Nat
          /\ \A value \in LogitValues \ {NegInf} :
                {value, Penalised(value, o.repeat_penalty)} \subseteq NegInf + 4 .. PosInf - 1

VARIABLES options, logits, history

vars == <<options, logits, history>>

Ids == 0 .. Vocab - 1

(* At least one id is not masked, as the vocabulary of a real model has.   *)
LogitVectors == {v \in [Ids -> LogitValues] : \E id \in Ids : v[id] # NegInf}

Init ==
    /\ options \in OptionSets
    /\ logits \in LogitVectors
    /\ history = <<>>

Returned == SamplerChoices(options, logits, Vocab, history)

Draw ==
    /\ Len(history) < MaxDraws
    /\ \E id \in Returned : history' = Append(history, id)
    /\ logits' \in LogitVectors
    /\ UNCHANGED options

Spec == Init /\ [][Draw]_vars

----------------------------------------------------------------------------
adjusted == Adjusted(options, logits, history)
scores == Scaled(options, adjusted)
Above(id) == {other \in Ids : scores[other] > scores[id]}
Best == Max({scores[id] : id \in Ids})
TotalWeight(S) == MapThenSumSet(LAMBDA id : Weight(Best - scores[id]), S)

(* With temperature 0 the one possible answer is the lowest id of the      *)
(* largest adjusted logit (sampler.c:97-118), so a run is reproducible.    *)
GreedyIsFirstMaximum ==
    options.temperature = 0 =>
        Returned = {Min({id \in Ids : scores[id] = Best})}

(* An id can only be drawn when fewer than top_k ids beat it               *)
(* (sampler.c:140-142), whatever the order qsort gives to ties.            *)
WithinTopK ==
    options.temperature > 0 /\ options.top_k > 0 =>
        \A id \in Returned : Cardinality(Above(id)) < options.top_k

(* An id can only be drawn when those that beat it do not already hold a   *)
(* share top_p of the probability left by top_k (sampler.c:158-183);       *)
(* unless a temperature close to zero has made the largest logit infinite, *)
(* when no share is defined and no candidate is left out.                  *)
WithinNucleus ==
    options.temperature > 0 /\ options.top_p \in 1 .. 99 /\ Best \notin {NegInf, PosInf} =>
        LET size == TopK(options, Vocab)
            top  == CHOOSE S \in kSubset(size, Ids) :
                        \A in \in S, out \in Ids \ S : scores[in] >= scores[out]
        IN \A id \in Returned :
              100 * TotalWeight(Above(id)) < options.top_p * TotalWeight(top)

(* An id outside the window is not penalised: one that occurred only more  *)
(* than repeat_last_n tokens ago keeps its logit (sampler.c:45-46), one    *)
(* inside the window never gains.                                          *)
PenaltyWindow ==
    \A id \in Ids :
        LET ages == {Len(history) - i : i \in {j \in DOMAIN history : history[j] = id}}
        IN /\ adjusted[id] <= logits[id]
           /\ (\A age \in ages : age >= options.repeat_last_n) => adjusted[id] = logits[id]

(* A masked id is out of reach of the greedy branch, of any nucleus        *)
(* smaller than 1 and of any top_k that the usable ids fill (main.c:224),  *)
(* when dividing by the temperature does not overflow.                     *)
MaskedNeverDrawn ==
    LET usable == {id \in Ids : logits[id] # NegInf}
    IN \/ options.temperature = 0
       \/ options.temperature # Cold /\ options.top_p \in 1 .. 99
       \/ options.temperature # Cold /\ options.top_k \in 1 .. Cardinality(usable)
       => Returned \subseteq usable

----------------------------------------------------------------------------
MCLogitValues == {NegInf, -2, 0, 4}

MCOptionSets ==
    [temperature : {0, 1, Cold}, top_k : {0, 2}, top_p : {60, 100},
     repeat_penalty : {1, 2}, repeat_last_n : {0, 1, 64}]
=============================================================================
