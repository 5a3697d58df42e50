------------------------------ MODULE Sampler ------------------------------
(***************************************************************************)
(* Token selection (src/sampler.c).  The operators of this module describe *)
(* the set of ids sampler_sample may return for one vector of logits; they *)
(* keep no state.  A logit is an integer; NegInf stands for -INFINITY, the *)
(* value mask_unused_tokens stores.  Options are a record with the fields  *)
(* of the C struct: temperature (0 selects the greedy branch, Cold is so   *)
(* small that dividing by it overflows, and every other value divides all  *)
(* logits alike and is 1 here), top_k, top_p in percent, repeat_penalty    *)
(* and repeat_last_n.                                                      *)
(***************************************************************************)
EXTENDS Integers, Sequences

NegInf == -1000
PosInf == 1000
Cold   == 2

(* The exponential of a logit that lies `gap' below the largest one, in    *)
(* units of the smallest non-zero value: it halves with every unit and     *)
(* underflows to zero, as expf does.                                       *)
Weight(gap) == IF gap <= 3 THEN 2 ^ (3 - gap) ELSE 0

(* seen_recently: the ids among the last repeat_last_n entries.            *)
RecentFromStart(options, history) ==                    \* seeded fault
    {history[i] : i \in {j \in DOMAIN history : j <= options.repeat_last_n}}

Recent(options, history) ==
    {history[i] : i \in {j \in DOMAIN history :
                            j > Len(history) - options.repeat_last_n}}

(* adjusted_logit, for every id.  -INFINITY is a fixed point of both       *)
(* branches.                                                               *)

Penalised(logit, penalty) ==
    IF logit = NegInf THEN NegInf
    ELSE IF logit < 0 THEN logit * penalty ELSE logit \div penalty

Adjusted(options, logits, history) ==
    [id \in DOMAIN logits |->
        IF options.repeat_penalty > 1 /\ id \in Recent(options, history)
        THEN Penalised(logits[id], options.repeat_penalty)
        ELSE logits[id]]

(* The adjusted logits times the inverse of the temperature.               *)
Scaled(options, scores) ==
    [id \in DOMAIN scores |->
        IF options.temperature # Cold \/ scores[id] = 0 THEN scores[id]
        ELSE IF scores[id] > 0 THEN PosInf ELSE NegInf]

(* The greedy branch scans the ids upwards and replaces the best one only  *)
(* for a strictly larger logit.                                            *)
GreedyScanLastTie(scores) ==                            \* seeded fault
    LET best[id \in DOMAIN scores] ==
            IF id = 0 THEN 0
            ELSE IF scores[id] >= scores[best[id - 1]] THEN id ELSE best[id - 1]
        last == CHOOSE id \in DOMAIN scores : \A other \in DOMAIN scores : other <= id
    IN best[last]

GreedyScan(scores) ==
    LET best[id \in DOMAIN scores] ==
            IF id = 0 THEN 0
            ELSE IF scores[id] > scores[best[id - 1]] THEN id ELSE best[id - 1]
        last == CHOOSE id \in DOMAIN scores : \A other \in DOMAIN scores : other <= id
    IN best[last]

(* The outcomes of qsort with compare_candidates: every permutation that   *)
(* is non-increasing in the logit.  The order of ties is unspecified.      *)

Rankings(scores, count) ==
    {ranking \in [1..count -> DOMAIN scores] :
        \A i, j \in 1..count :
            i < j => /\ ranking[i] # ranking[j]
                     /\ scores[ranking[i]] >= scores[ranking[j]]}

TopKOneMore(options, count) ==                          \* seeded fault
    IF options.top_k = 0 \/ options.top_k >= count THEN count ELSE options.top_k + 1

TopK(options, count) ==
    IF options.top_k = 0 \/ options.top_k > count THEN count ELSE options.top_k

(* When the largest logit is infinite, its distance from itself is NaN,    *)
(* and so are the sum and every probability.                               *)
Undefined(ranking, scores) == scores[ranking[1]] \in {NegInf, PosInf}

(* Cumulative weight of the first i candidates of a ranking.               *)
Mass(ranking, scores) ==
    LET sum[i \in 0..Len(ranking)] ==
            IF i = 0 THEN 0
            ELSE sum[i - 1] + Weight(scores[ranking[1]] - scores[ranking[i]])
    IN sum

(* The nucleus loop keeps the shortest prefix whose share of the top-k     *)
(* mass reaches top_p; 0 and 100 percent switch it off.  No prefix reaches *)
(* the threshold when the shares are NaN.                                  *)
TopPOneMore(options, ranking, scores, keep) ==          \* seeded fault
    LET mass    == Mass(ranking, scores)
        reached == {i \in 1..keep : 100 * mass[i] >= options.top_p * mass[keep]}
        first   == CHOOSE i \in reached : \A j \in reached : i <= j
    IN IF options.top_p \in 1..99 /\ ~Undefined(ranking, scores) /\ first < keep
       THEN first + 1 ELSE keep

TopP(options, ranking, scores, keep) ==
    LET mass    == Mass(ranking, scores)
        reached == {i \in 1..keep : 100 * mass[i] >= options.top_p * mass[keep]}
    IN IF options.top_p \in 1..99 /\ ~Undefined(ranking, scores)
       THEN CHOOSE i \in reached : \A j \in reached : i <= j
       ELSE keep

(* The draw walks the cumulative distribution.  A candidate of probability *)
(* zero is never the first to reach the sample, but the probabilities are  *)
(* rounded to float, their sum may stay below the sample, and then the     *)
(* last kept candidate is the answer whatever its probability; it always   *)
(* is when the probabilities are NaN.                                      *)
Drawable(ranking, scores, keep) ==
    {ranking[i] : i \in {j \in 1..keep :
        \/ ~Undefined(ranking, scores)
           /\ Weight(scores[ranking[1]] - scores[ranking[j]]) > 0
        \/ j = keep}}

(* sampler_sample: the ids it may return.                                  *)
SamplerChoices(options, logits, vocab_size, history) ==
    LET adjusted == Adjusted(options, logits, history)
        scores   == Scaled(options, adjusted)
        topk     == TopK(options, vocab_size)
    IN IF vocab_size = 0 THEN {0}
       ELSE {id \in 0 .. vocab_size - 1 :
                IF options.temperature = 0
                THEN id = GreedyScan(adjusted)
                ELSE \E ranking \in Rankings(scores, vocab_size) :
                        id \in Drawable(ranking, scores,
                                        TopP(options, ranking, scores, topk))}
=============================================================================
