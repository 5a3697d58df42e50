----------------------------- MODULE ModelLoad -----------------------------
(***************************************************************************)
(* gpt2_load and gpt2_free (src/gpt2.c): the configuration is read from    *)
(* the metadata, every tensor is converted into memory of its own, the     *)
(* shapes are compared with the configuration, and the output matrix is    *)
(* the file's or, when it has none, the embedding matrix, shared.          *)
(*                                                                         *)
(* A slot is a Weight of GPT2Model: its name and its block (0 for those    *)
(* outside the blocks); a file names its tensors the same way.             *)
(***************************************************************************)
EXTENDS GgufFile

CONSTANT Word32     \* 2^32, scaled down: the modulus of the configuration

ASSUME Word32Assumption == Word32 \in Nat \ {0} /\ Word32 <= Word

VARIABLES
    cfg,        \* GPT2Config
    plan,       \* what gpt2_load still has to do
    weights,    \* for every slot: address, its bytes, owns_data, ne0, ne1
    kv_elements \* the size of each cache

modelVars == <<cfg, plan, weights, kv_elements>>

----------------------------------------------------------------------------
(* GPT2Config.                                                             *)

HasU32(f, key) == HasNumber(f, key) /\ Number(f, key) < Word32

FeedForwardLength(f) ==
    IF HasU32(f, "feed_forward_length") THEN Number(f, "feed_forward_length")
    ELSE (4 * Number(f, "embedding_length")) % Word32

Sizes == {"context_length", "embedding_length", "block_count", "head_count"}

ConfigUsable(f) ==
    /\ Found(f.metadata, "architecture")
    /\ Value(f, "architecture").type = "string"
    /\ Value(f, "architecture").text = "gpt2"
    /\ \A key \in Sizes : HasU32(f, key) /\ Number(f, key) > 0
    /\ FeedForwardLength(f) > 0
    /\ Number(f, "embedding_length") % Number(f, "head_count") = 0

Config(f) ==
    [c |-> Number(f, "embedding_length"), f |-> FeedForwardLength(f),
     context |-> Number(f, "context_length"), blocks |-> Number(f, "block_count"),
     vocab |-> 0]

----------------------------------------------------------------------------
(* The weights and the order in which they are loaded and compared.        *)

LayerWeights == <<"attn_norm_w", "attn_norm_b", "attn_qkv_w", "attn_qkv_b",
                  "attn_out_w", "attn_out_b", "ffn_norm_w", "ffn_norm_b",
                  "ffn_up_w", "ffn_up_b", "ffn_down_w", "ffn_down_b">>

GlobalSlots == {<<name, 0>> : name \in {"token_embd", "position_embd", "output_norm_w",
                                        "output_norm_b", "output"}}
LayerSlots(b) == {<<LayerWeights[i], b>> : i \in DOMAIN LayerWeights}
Slots(blocks) == GlobalSlots \cup UNION {LayerSlots(b) : b \in 0 .. blocks - 1}

(* What expect_vector and expect_matrix compare with: width and rows.      *)
Shape(name, k) ==
    CASE name \in {"attn_norm_w", "attn_norm_b", "attn_out_b", "ffn_norm_w", "ffn_norm_b",
                   "ffn_down_b", "output_norm_w", "output_norm_b"} -> <<k.c, 1>>
      [] name = "attn_qkv_b" -> <<(3 * k.c) % Word32, 1>>
      [] name = "ffn_up_b" -> <<k.f, 1>>
      [] name = "attn_qkv_w" -> <<k.c, (3 * k.c) % Word32>>
      [] name = "attn_out_w" -> <<k.c, k.c>>
      [] name = "ffn_up_w" -> <<k.c, k.f>>
      [] name = "ffn_down_w" -> <<k.f, k.c>>
      [] name = "position_embd" -> <<k.c, k.context>>
      [] name \in {"token_embd", "output"} -> <<k.c, k.vocab>>

LoadStep(slot)    == [do |-> "load", slots |-> {slot}]
ExpectStep(slots) == [do |-> "expect", slots |-> slots]

LayerPlan(b) ==
    [i \in DOMAIN LayerWeights |-> LoadStep(<<LayerWeights[i], b>>)]
    \o <<ExpectStep(LayerSlots(b))>>

Plan(blocks) ==
    LET embeddings == <<<<"token_embd", 0>>, <<"position_embd", 0>>>>
        norms == <<<<"output_norm_w", 0>>, <<"output_norm_b", 0>>>>
    IN  <<LoadStep(embeddings[1]), LoadStep(embeddings[2]),
          [do |-> "vocab", slots |-> {embeddings[1]}],
          ExpectStep({embeddings[1], embeddings[2]}),
          [do |-> "layers", slots |-> {}]>>
        \o SX!FlattenSeq([b \in 1 .. blocks |-> LayerPlan(b - 1)])
        \o <<LoadStep(norms[1]), LoadStep(norms[2]), ExpectStep({norms[1], norms[2]}),
             [do |-> "output", slots |-> {<<"output", 0>>}],
             ExpectStep({<<"output", 0>>}),
             [do |-> "caches", slots |-> {}]>>

Loading(kind) == stage = "load" /\ plan # <<>> /\ Head(plan).do = kind
Wanted == Head(plan).slots
WantedSlot == CHOOSE slot \in Wanted : TRUE
Advance == plan' = Tail(plan)

----------------------------------------------------------------------------
Layers  == <<"layers", 0, 0>>
Buffers == {<<"buffer", 0, i>> : i \in 1 .. 9}     \* k_cache, v_cache, x ... scores
NoWeight == [data |-> <<"null", 0, 0>>, bytes |-> 0, owns |-> FALSE, ne0 |-> 0, ne1 |-> 0]

NoConfig == [c |-> 0, f |-> 0, context |-> 0, blocks |-> 0, vocab |-> 0]
NoWeights == [slot \in GlobalSlots |-> NoWeight]

ModelInit == cfg = NoConfig /\ plan = <<>> /\ weights = NoWeights /\ kv_elements = 0

(* gpt2_free, from the pointers the model holds: weight_free frees what a  *)
(* weight owns; misfreed if two of them own the same memory, or nobody     *)
(* holds it.                                                               *)
Owning(address) == {slot \in DOMAIN weights : weights[slot].owns /\ weights[slot].data = address}
OwnedByModel == {weights[slot].data : slot \in {s \in DOMAIN weights : weights[s].owns}}

HeldByModel ==
    OwnedByModel \cup (IF DOMAIN weights # GlobalSlots THEN {Layers} ELSE {})
                 \cup (IF kv_elements > 0 THEN Buffers ELSE {})

FreeModel ==
    /\ heap' = heap \ HeldByModel
    /\ misfreed' = misfreed \cup (HeldByModel \ heap)
                            \cup {a \in OwnedByModel : Cardinality(Owning(a)) > 1}
    /\ cfg' = NoConfig /\ plan' = <<>> /\ weights' = NoWeights /\ kv_elements' = 0

(* The label fail of gpt2_load; main then frees the tokenizer and closes   *)
(* the file.                                                               *)
LoadFails ==
    /\ FreeModel
    /\ stage' = "ending" /\ cause' = "model"
    /\ ending' = <<"tokenizer", "file">>
    /\ UNCHANGED <<file, fileVars>>

Goes == UNCHANGED <<processVars, fileVars>>

(* The configuration: a refusal leaves nothing to free.                    *)
ConfigRefused ==
    /\ stage = "load" /\ plan = <<>> /\ ~ConfigUsable(file)
    /\ stage' = "ending" /\ cause' = "model"
    /\ ending' = <<"tokenizer", "file">>
    /\ UNCHANGED <<file, heap, misfreed, fileVars, modelVars>>

ReadConfig ==
    /\ stage = "load" /\ plan = <<>> /\ ConfigUsable(file)
    /\ cfg' = Config(file)
    /\ plan' = Plan(Number(file, "block_count"))
    /\ UNCHANGED <<weights, kv_elements>>
    /\ Goes

(* weight_load.  Its last failure, in quant_to_f32, has the condition of   *)
(* quant_nbytes and is never met after it.  The memory of a weight is      *)
(* counted in 64 bits.                                                     *)
Loadable(slot) ==
    /\ Found(file.tensors, slot)
    /\ LET tensor == Entry(file.tensors, slot)
       IN /\ Len(tensor.dims) <= 2
          /\ InRange(tensor, data_offset)
          /\ Bytes(tensor) > 0

Loaded(slot) ==
    LET tensor == Entry(file.tensors, slot)
        dims == tensor.dims
    IN [data |-> <<"weight", slot, 0>>, bytes |-> (4 * Elements(tensor)) % Word,
        owns |-> TRUE, ne0 |-> dims[1], ne1 |-> IF Len(dims) > 1 THEN dims[2] ELSE 1]

(* quant_to_f32 copies the bytes of a float tensor, which it counts in     *)
(* 64 bits as well; of any other type it converts every element, and if    *)
(* their floats take 2^64 bytes or more it cannot end.                     *)
Overruns(slot) ==
    LET tensor == Entry(file.tensors, slot)
    IN tensor.type # "f32" /\ 4 * Elements(tensor) >= Word

LoadInto(slot) ==
    /\ weights' = [weights EXCEPT ![slot] = Loaded(slot)]
    /\ heap' = heap \cup {<<"weight", slot, 0>>}
    /\ Advance
    /\ UNCHANGED <<file, stage, cause, ending, misfreed, fileVars, cfg, kv_elements>>

LoadWeight ==
    Loading("load") /\ Loadable(WantedSlot) /\ ~Overruns(WantedSlot) /\ LoadInto(WantedSlot)
LoadWeightFails == Loading("load") /\ ~Loadable(WantedSlot) /\ LoadFails

(* The conversion runs past the memory and the mapping until it meets an   *)
(* address that is not there, and the system ends the process.             *)
LoadFaults ==
    /\ Loading("load") \/ Loading("output")
    /\ Loadable(WantedSlot) /\ Overruns(WantedSlot)
    /\ stage' = "exited" /\ cause' = "fault"
    /\ UNCHANGED <<file, ending, heap, misfreed, fileVars, modelVars>>

(* The number of tokens is that of the rows of the embedding matrix, cut   *)
(* to 32 bits; the comparison that follows is with all of them.            *)
CountVocabulary ==
    /\ Loading("vocab")
    /\ cfg' = [cfg EXCEPT !.vocab = weights[WantedSlot].ne1 % Word32]
    /\ Advance
    /\ UNCHANGED <<weights, kv_elements>>
    /\ Goes

AllocateLayers ==
    /\ Loading("layers")
    /\ heap' = heap \cup {Layers}
    /\ weights' = [slot \in Slots(cfg.blocks) |->
                    IF slot \in DOMAIN weights THEN weights[slot] ELSE NoWeight]
    /\ Advance
    /\ UNCHANGED <<file, stage, cause, ending, misfreed, fileVars, cfg, kv_elements>>

AsExpected(slot) ==
    <<weights[slot].ne0, weights[slot].ne1>> = Shape(slot[1], cfg)

Expect ==
    /\ Loading("expect") /\ \A slot \in Wanted : AsExpected(slot)
    /\ Advance
    /\ UNCHANGED <<cfg, weights, kv_elements>>
    /\ Goes

ExpectFails ==
    /\ Loading("expect") /\ \E slot \in Wanted : ~AsExpected(slot)
    /\ LoadFails

(* output.weight is optional.                                              *)
LoadOutput ==
    /\ Loading("output") /\ Loadable(WantedSlot) /\ ~Overruns(WantedSlot)
    /\ LoadInto(WantedSlot)

LoadOutputFails ==
    /\ Loading("output") /\ Found(file.tensors, WantedSlot) /\ ~Loadable(WantedSlot)
    /\ LoadFails

TieOutputOwning ==                                              \* seeded fault
    /\ Loading("output") /\ ~Found(file.tensors, WantedSlot)
    /\ weights' = [weights EXCEPT ![WantedSlot] = weights[<<"token_embd", 0>>]]
    /\ Advance
    /\ UNCHANGED <<cfg, kv_elements>>
    /\ Goes

TieOutput ==
    /\ Loading("output") /\ ~Found(file.tensors, WantedSlot)
    /\ weights' = [weights EXCEPT
            ![WantedSlot] = [weights[<<"token_embd", 0>>] EXCEPT !.owns = FALSE]]
    /\ Advance
    /\ UNCHANGED <<cfg, kv_elements>>
    /\ Goes

(* context > SIZE_MAX / layers / c.                                        *)
CachesTooLargeForOne == cfg.context > (Word - 1) \div cfg.c     \* seeded fault
CachesTooLarge == cfg.context > ((Word - 1) \div cfg.blocks) \div cfg.c

CacheElements == (cfg.blocks * cfg.context * cfg.c) % Word

AllocateCaches ==
    /\ Loading("caches") /\ ~CachesTooLarge /\ 4 * CacheElements < Word
    /\ kv_elements' = CacheElements
    /\ heap' = heap \cup Buffers
    /\ stage' = "backend"
    /\ Advance
    /\ UNCHANGED <<file, cause, ending, misfreed, fileVars, cfg, weights>>

CachesRefused == Loading("caches") /\ CachesTooLarge /\ LoadFails

(* chris_xcalloc ends the process when calloc cannot even count the bytes. *)
CachesFatal ==
    /\ Loading("caches") /\ ~CachesTooLarge /\ 4 * CacheElements >= Word
    /\ stage' = "exited" /\ cause' = "fatal"
    /\ UNCHANGED <<file, ending, heap, misfreed, fileVars, modelVars>>

ModelNext ==
    \/ ConfigRefused \/ ReadConfig \/ LoadWeight \/ LoadWeightFails \/ LoadFaults
    \/ CountVocabulary \/ AllocateLayers \/ Expect \/ ExpectFails
    \/ LoadOutput \/ LoadOutputFails \/ TieOutput
    \/ AllocateCaches \/ CachesRefused \/ CachesFatal

----------------------------------------------------------------------------
(* What the forward pass takes a weight to have (gpt2.c:600-705).          *)
Width(name, k) ==
    CASE name \in {"ffn_up_b", "ffn_down_w"} -> k.f
      [] name = "attn_qkv_b" -> 3 * k.c
      [] OTHER -> k.c
Rows(name, k) ==
    CASE name \in {"token_embd", "output"} -> k.vocab
      [] name = "position_embd" -> k.context
      [] name = "attn_qkv_w" -> 3 * k.c
      [] name \in {"attn_out_w", "ffn_down_w"} -> k.c
      [] name = "ffn_up_w" -> k.f
      [] OTHER -> 1

(* Where the loader's sums of 32 and of 64 bits let less than that pass.   *)
ShapeWraps(slot) ==
    slot[1] \in {"attn_qkv_w", "attn_qkv_b"} /\ 3 * cfg.c >= Word32
MemoryWraps(w) ==
    Entry(file.tensors, w.data[2]).type = "f32" /\ 4 * (w.ne0 * w.ne1) >= Word

(* While the model is in use, every weight is live memory of the size the  *)
(* forward pass indexes, the shared output matrix too, and the caches hold *)
(* a row for every block and position.  There are two exceptions, both of  *)
(* sizes that wrap: the shape of a projection to queries, keys and values  *)
(* three times as wide as 2^32 allows (gpt2.c:172), and the memory of a    *)
(* float tensor of 2^64 bytes or more (gpt2.c:46).                         *)
ModelUsable ==
    stage \in {"backend", "attach", "session"} =>
        /\ \A slot \in DOMAIN weights :
              LET w == weights[slot]
              IN /\ w.data \in heap
                 /\ \/ w.ne0 = Width(slot[1], cfg) /\ w.ne1 = Rows(slot[1], cfg)
                    \/ ShapeWraps(slot)
                 /\ w.bytes = 4 * (w.ne0 * w.ne1) \/ MemoryWraps(w)
        /\ Buffers \subseteq heap
        /\ kv_elements = cfg.blocks * cfg.context * cfg.c
=============================================================================
