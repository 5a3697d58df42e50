----------------------------- MODULE MCProgram -----------------------------
(***************************************************************************)
(* Files and options for module Program.  Every file is a complete one     *)
(* with at most one thing changed: a size, a metadata entry or a tensor.   *)
(***************************************************************************)
EXTENDS Program

LOCAL INSTANCE FiniteSetsExt

Uint(key, n)   == [name |-> key, value |-> [type |-> "uint", bytes |-> 4, number |-> n]]
Typed(key, t)  == [name |-> key, value |-> t]
Gpt2           == [type |-> "string", length |-> 4, text |-> "gpt2"]

Metadata(c, f, context, blocks) ==
    <<Typed("architecture", Gpt2),
      Uint("context_length", context), Uint("embedding_length", c),
      Uint("block_count", blocks), Uint("head_count", 1),
      Uint("feed_forward_length", f), Uint("alignment", 16),
      Typed("epsilon", [type |-> "float", bytes |-> 4]),
      Typed("tokens", [type |-> "array", elem |-> "string", items |-> <<1, 0, 13>>, endoftext |-> {3}]),
      Typed("token_type", [type |-> "array", elem |-> "int32", bytes |-> 4, count |-> 3])>>

Vector(type, slot, n)    == [name |-> slot, dims |-> <<n>>, type |-> type, offset |-> 0]
Matrix(type, slot, n, m) == [name |-> slot, dims |-> <<n, m>>, type |-> type, offset |-> 0]

Embeddings(type, c, context, vocab) ==
    <<Matrix(type, <<"token_embd", 0>>, c, vocab), Matrix(type, <<"position_embd", 0>>, c, context)>>
(* Three times the embedding length as validate_layer counts it.           *)
LayerTensors(type, c, f, b) ==
    LET V(name, n) == Vector(type, <<name, b>>, n)
        M(name, n, m) == Matrix(type, <<name, b>>, n, m)
    IN <<V("attn_norm_w", c), V("attn_norm_b", c), M("attn_qkv_w", c, (3 * c) % Word32),
         V("attn_qkv_b", (3 * c) % Word32), M("attn_out_w", c, c), V("attn_out_b", c),
         V("ffn_norm_w", c), V("ffn_norm_b", c), M("ffn_up_w", c, f),
         V("ffn_up_b", f), M("ffn_down_w", f, c), V("ffn_down_b", c)>>
Norms(type, c) ==
    <<Vector(type, <<"output_norm_w", 0>>, c), Vector(type, <<"output_norm_b", 0>>, c)>>

Tensors(type, c, f, context, vocab, blocks) ==
    Embeddings(type, c, context, vocab)
    \o SX!FlattenSeq([b \in 1 .. blocks |-> LayerTensors(type, c, f, b - 1)])
    \o Norms(type, c)

(* Offsets one after the other.                                            *)
Placed(tensors) ==
    LET from[i \in 1 .. Len(tensors) + 1] ==
            IF i = 1 THEN 0 ELSE Rounded(from[i - 1] + Bytes(tensors[i - 1]), 16)
    IN <<>> \o [i \in DOMAIN tensors |-> [tensors[i] EXCEPT !.offset = from[i]]]

(* Where the pieces of a file end.                                         *)
Ends(layout) ==
    LET end[i \in 0 .. Len(layout)] == IF i = 0 THEN 0 ELSE end[i - 1] + layout[i].bytes
    IN [i \in 1 .. Len(layout) |-> end[i]] \o <<>>

(* A size that ends with the data of the tensors, which all begin together *)
(* or stand one behind the other.                                          *)
Overlaid(metadata, tensors) ==
    LET f == [magic |-> TRUE, version |-> 3, counts |-> TRUE, size |-> 0,
              metadata |-> metadata, tensors |-> tensors]
        ends == Ends(Layout(f))
    IN [f EXCEPT !.size = Rounded(ends[Len(ends)], 16)
                          + Max({t.offset + Bytes(t) : t \in SX!ToSet(tensors)})]

Complete(metadata, tensors) == Overlaid(metadata, Placed(tensors))

Small   == Complete(Metadata(2, 8, 3, 1), Tensors("f32", 2, 8, 3, 4, 1))
Untied  == Complete(Metadata(2, 8, 3, 1),
               Tensors("f16", 2, 8, 3, 4, 1) \o <<Matrix("f32", <<"output", 0>>, 2, 4)>>)
Deep(n) == Overlaid(Metadata(128, 32, 1023, n), Tensors("q4_0", 128, 32, 1023, 4, n))

(* Three times the length passes 2^32, and in floats its square 2^64.      *)
Wide(type, c) == Overlaid(Metadata(c, 32, 3, 1), Tensors(type, c, 32, 3, 4, 1))

(* Cut in front of the end of every piece and of the data.                 *)
Cut ==
    LET layout == Layout(Small)
        ends == Ends(layout)
    IN [n \in DOMAIN ends |->
            [Small EXCEPT !.size = IF layout[n].bytes > 0 THEN ends[n] - 1 ELSE ends[n]]]
       \o <<[Small EXCEPT !.size = 0], [Small EXCEPT !.size = @ - 1]>>

BadHeader == <<[Small EXCEPT !.magic = FALSE], [Small EXCEPT !.version = 1],
               [Small EXCEPT !.version = 4], [Small EXCEPT !.counts = FALSE]>>

Without(s, i) == SubSeq(s, 1, i - 1) \o SubSeq(s, i + 1, Len(s))

Values == <<[type |-> "uint", bytes |-> 8, number |-> 0],
            [type |-> "uint", bytes |-> 8, number |-> 1024],
            [type |-> "uint", bytes |-> 2, number |-> 24],
            [type |-> "int", bytes |-> 1, number |-> -2],
            [type |-> "int", bytes |-> 8, number |-> 2],
            [type |-> "bool", bytes |-> 1, number |-> 1],
            [type |-> "string", length |-> 5, text |-> "llama"],
            [type |-> "array", elem |-> "string", items |-> <<>>],
            [type |-> "array", elem |-> "unknown", bytes |-> 0, count |-> 1],
            [type |-> "unknown"]>>

(* An entry is missing or has another value.                               *)
OtherMetadata ==
    LET Of(i, v) == Complete([Small.metadata EXCEPT ![i].value = v], Small.tensors)
    IN [i \in DOMAIN Small.metadata |-> Complete(Without(Small.metadata, i), Small.tensors)]
       \o SX!FlattenSeq([i \in DOMAIN Small.metadata |-> [v \in DOMAIN Values |-> Of(i, Values[v])]])

(* A tensor is missing, has another shape or type, or lies elsewhere.      *)
OtherTensor(i) ==
    LET t == Small.tensors[i]
        Of(new) == [Small EXCEPT !.tensors[i] = new]
        Change(new) == Complete(Small.metadata, [Small.tensors EXCEPT ![i] = new])
    IN <<Complete(Small.metadata, Without(Small.tensors, i)),
         Change([t EXCEPT !.dims = @ \o <<1, 1>>]), Change([t EXCEPT !.dims = <<4>>]),
         Change([t EXCEPT !.dims = <<0>>]), Change([t EXCEPT !.dims = <<2, 1026>>]),
         Change([t EXCEPT !.type = "q2_K"]), Change([t EXCEPT !.type = "q8_0"]),
         Of([t EXCEPT !.offset = Small.size]), Of([t EXCEPT !.offset = @ + 1]),
         Of([t EXCEPT !.offset = Word - 64]), Of([t EXCEPT !.offset = Word - 4096])>>

OtherTensors == SX!FlattenSeq([i \in DOMAIN Small.tensors |-> OtherTensor(i)])

(* No feed_forward_length, and four times the embedding_length is 2^32.    *)
Wrapping == Complete(Without(Metadata(256, 8, 3, 1), 6), Small.tensors)

(* A count of elements whose bytes or floats pass 2^64.                    *)
WrappedCounts ==
    LET Of(i, type, n, m) == Complete(Small.metadata,
            [Small.tensors EXCEPT ![i] = Matrix(type, Small.tensors[i].name, n, m)])
    IN <<Of(1, "f32", 2, Word \div 8 + 4), Of(1, "f16", 2, Word \div 4 + 4),
         Of(5, "q8_0", 32, 15421),
         Complete(Small.metadata,
             Small.tensors \o <<Matrix("f16", <<"output", 0>>, 2, Word \div 4 + 4)>>)>>

(* The largest alignment, with no room for it.                             *)
WideAlignment == [Small EXCEPT !.metadata[7].value.number = Word \div 2]

NoTensors ==
    LET f == [Small EXCEPT !.tensors = <<>>]
        ends == Ends(Layout(f))
    IN [f EXCEPT !.size = ends[Len(ends)]]

(* An output matrix that is not supported or too small; a second tensor of  *)
(* a name that is taken; no tensors at all and no room for padding.        *)
Output(type, n) == Matrix(type, <<"output", 0>>, 2, n)
OtherOutputs ==
    <<Complete(Small.metadata, Small.tensors \o <<Output("q2_K", 4)>>),
      Complete(Small.metadata, Small.tensors \o <<Output("f32", 3)>>),
      Complete(Small.metadata, Small.tensors \o <<Vector("f16", <<"token_embd", 0>>, 2)>>),
      NoTensors>>

(* A token for the end of text that is given or not, named or not, and     *)
(* token types of another count.                                           *)
EndsOfText ==
    LET Tokens(ends) == [type |-> "array", elem |-> "string", items |-> <<13, 1, 13>>, endoftext |-> ends]
        Of(ends, entries) ==
            Complete([Small.metadata EXCEPT ![9].value = Tokens(ends)] \o entries, Small.tensors)
    IN  <<Of({}, <<>>), Of({1, 3}, <<>>), Of({3}, <<Uint("eos_token_id", 0)>>),
          Of({3}, <<Uint("eos_token_id", 3)>>), Of({}, <<Uint("eos_token_id", 3)>>),
          Of({}, <<Uint("eos_token_id", 2)>>),
          Complete([Small.metadata EXCEPT ![10].value.count = 4], Small.tensors)>>

MCFiles == <<Small, Untied, Wrapping, Deep(4), Deep(5), Wide("q4_0", 352), Wide("f32", 363),
             WideAlignment>>
           \o WrappedCounts
           \o Cut \o BadHeader \o OtherMetadata \o OtherTensors \o OtherOutputs \o EndsOfText

Asking(typed, lower, index) == [typed |-> typed, lower |-> lower, index |-> index]

Plain == [parsed |-> "model", inspect |-> FALSE, prompt |-> TRUE, interactive |-> FALSE,
          tokenize |-> FALSE, next_token_id |-> FALSE, device |-> Asking("auto", "auto", NoIndex)]

(* Every combination of the options that decide how far main goes.         *)
MCOptions ==
    [n \in 1 .. 32 |->
        [parsed |-> "model", inspect |-> n % 2 = 1, prompt |-> (n \div 2) % 2 = 1,
         interactive |-> (n \div 4) % 2 = 1, tokenize |-> (n \div 8) % 2 = 1,
         next_token_id |-> (n \div 16) % 2 = 1, device |-> Plain.device]]
    \o <<[Plain EXCEPT !.parsed = "help"], [Plain EXCEPT !.parsed = "error"],
         [Plain EXCEPT !.parsed = "devices"]>>

(* Requests: an empty one, capitals, indexes in and out of range, words of *)
(* names, one of them a number; machines with none to three devices.       *)
Requests ==
    {Plain.device, Asking("", "", NoIndex), Asking("GPU", "gpu", NoIndex),
     Asking("cpu", "cpu", NoIndex), Asking("CPU", "cpu", NoIndex),
     Asking("0", "0", 0), Asking("2", "2", 2), Asking("1100", "1100", 1100),
     Asking("Intel", "intel", NoIndex), Asking("reference", "reference", NoIndex)}

Device(kind, words) == [kind |-> kind, words |-> words]
Host == Device("cpu", {"intel", "cpu"})
Gpu  == Device("gpu", {"gfx1100", "1100"})
Arc  == Device("gpu", {"intel", "arc"})
Fpga == Device("other", {"intel", "fpga"})

CpuMachine == [build |-> "cpu", devices |-> <<Device("cpu", {"cpu", "reference"})>>]
Machines ==
    {CpuMachine} \cup {[build |-> "acpp", devices |-> d] :
        d \in {<<>>, <<Host>>, <<Host, Gpu>>, <<Fpga, Gpu, Arc>>, <<Fpga, Host>>}}

MCInputs ==
    {[file |-> f, options |-> Plain, machine |-> CpuMachine] : f \in SX!ToSet(MCFiles)}
        \cup {[file |-> f, options |-> o, machine |-> CpuMachine] :
                  f \in {Small, BadHeader[1]}, o \in SX!ToSet(MCOptions)}
        \cup {[file |-> Small, options |-> [Plain EXCEPT !.device = r], machine |-> m] :
                  r \in Requests, m \in Machines}
=============================================================================
