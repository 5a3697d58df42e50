----------------------------- MODULE Completion -----------------------------
(***************************************************************************)
(* What a completion session promises, without tokens being fed one by     *)
(* one, without a cache and without a program counter: while a prompt is   *)
(* running, the context grows by one sampled token at a time, and each     *)
(* token is sampled from the logits of the WHOLE context.                  *)
(***************************************************************************)
EXTENDS Transformer

CONSTANTS Prompts, Interactive

VARIABLES
    status,     \* "ready", "running", "done" or "failed"
    context,    \* the prompt tokens and the tokens generated so far
    output      \* the tokens printed for the current prompt

vars == <<status, context, output>>

FullLogits == Mask(RawLogits(Hidden(BlockCount, context)))

Init == status = "ready" /\ context = <<>> /\ output = <<>>

(* What is kept of a prompt: its end, as long as it leaves one position of *)
(* the context free, and never less than one token.                        *)
KeptEnd(ids, kept) ==
    LET room == IF ContextLength = 1 THEN 1 ELSE ContextLength - 1
    IN /\ Len(kept) = (IF Len(ids) < room THEN Len(ids) ELSE room)
       /\ \A i \in 1 .. Len(kept) : kept[i] = ids[Len(ids) - Len(kept) + i]

(* A prompt is accepted when every token it keeps is in the model's        *)
(* vocabulary; an empty one is replaced by the end-of-text token.          *)
Accept(ids) ==
    /\ status = "ready"
    /\ ids = <<>> => HasEos
    /\ KeptEnd(IF ids = <<>> THEN <<EosId>> ELSE ids, context')
    /\ \A i \in 1 .. Len(context') : context'[i] \in TokenIds
    /\ status' = "running"
    /\ output' = <<>>

Done == IF Interactive THEN "ready" ELSE "done"

MoreAllowed == Len(output) < MaxTokens /\ Len(context) < ContextLength

IsEos(id) == HasEos /\ id = EosId

Emit ==
    /\ status = "running"
    /\ ~NextTokenId
    /\ MoreAllowed
    /\ \E id \in Sampled(FullLogits, context) :
          /\ ~IsEos(id)
          /\ context' = Append(context, id)
          /\ output' = Append(output, id)
    /\ UNCHANGED status

Stop ==
    /\ status = "running"
    /\ ~NextTokenId
    /\ MoreAllowed => \E id \in Sampled(FullLogits, context) : IsEos(id)
    /\ status' = Done
    /\ UNCHANGED <<context, output>>

(* --next-token-id prints one id and leaves the context alone.             *)
Answer ==
    /\ status = "running"
    /\ NextTokenId
    /\ \E id \in SampledGreedily(FullLogits, context) : output' = <<id>>
    /\ status' = Done
    /\ UNCHANGED context

(* The user leaves between two prompts of an interactive session.          *)
Quit ==
    /\ status = "ready" /\ Interactive
    /\ status' = "done"
    /\ UNCHANGED <<context, output>>

(* A prompt is refused, the tokenizer or the backend fails.                *)
Fail ==
    /\ status \in {"ready", "running"}
    /\ status' = "failed"
    /\ UNCHANGED <<context, output>>

Next ==
    \/ \E ids \in Prompts : Accept(ids)
    \/ Emit \/ Stop \/ Answer \/ Quit \/ Fail

Safety == Init /\ [][Next]_vars

Spec == Safety /\ WF_vars(Emit \/ Stop \/ Answer)
=============================================================================
