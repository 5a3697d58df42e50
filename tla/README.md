# Verification of chris-llama

chris-llama is a GPT-2 inference program in C with a SYCL (AdaptiveCpp) backend
in C++. This directory holds TLA+ models of it, the TLC configurations that
check them, and proofs for TLAPS. File names below are those of the repository
root; `main.c:295` means line 295.

## The system

| Component | State | Operations | What makes it correct |
|---|---|---|---|
| Program (`main.c` 436-559) | what it holds: file, tokenizer, model, backend | options, inspect, tokenize, load, attach, session, releases | whatever fails, everything taken is given back, once |
| GGUF reader (`gguf.c`) | descriptor, mapping, cursor, metadata, tensor descriptors | `gguf_open`, `gguf_close`, lookups | opens exactly the well-formed files |
| Model (`gpt2.c` 1-392) | configuration, weights, caches, buffers | `gpt2_load`, `gpt2_free` | a loaded model has the sizes the forward pass indexes |
| Forward pass (`gpt2.c` 394-720) | KV cache, `x`, logits | `gpt2_reset`, `gpt2_forward_token` | the cache gives the same logits as the whole context processed at once |
| Session (`main.c` 202-434) | history, position, counters | `run_prompt`, `run_interactive` | every token comes from the logits of the whole context; every prompt is answered |
| Sampler (`sampler.c`) | random state | `sampler_sample` | stays inside top-k, nucleus and mask; greedy is reproducible |
| Tokenizer (`tokenizer.c`) | two hash tables, byte alphabet | fill, look up, cut a text into pieces, merge, decode, print | nothing lost; agrees with the merge list and the pre-tokenizer's rule |
| Input (`main.c` 398-434) | line buffer | read a line, leave | what is typed is what is encoded |
| AdaptiveCpp backend (`backend_acpp.cpp`) | resident buffers, two scratch vectors, a queue | create, preload, matvec, destroy | `y = W*x + b`; device memory has one owner |
| Its kernel (`backend_acpp.cpp` 325-370) | partial sums of a work group | strided sum, reduction with barriers | every product is added once; no race; no hang |
| CPU backend (`backend_cpu.c`) | none | create, matvec | it is the definition the other one is compared with |
| Device selection (`backend_acpp.cpp` 44-111) | none | `choose_device`, `parse_index` | the device is one that `backend.h` promises for the text |
| Dequantisation (`quant.c`) | pointers and masks of a loop | sizes, conversions | every bit of a block ends in its place of its element, with its own scale |

`main` calls the components one after the other. The session calls the tokenizer
once per prompt, then `gpt2_forward_token` and the sampler in turn; the forward
pass calls the backend for every projection. Only the backend is concurrent: the
SYCL runtime executes its queue while the host thread goes on, and the items of
a work group run in any order between two barriers.

What is hard here: rows of the KV cache that must still be those of the current
prompt; three counters in step over two loops; failures in the middle of a
token, of an upload, of a half-read file and of a half-loaded model; device
memory that is freed and grown under a queue; races and barriers in the kernel;
ties in `qsort`; sizes modulo 2^32 and 2^64; bit fields spread over three
arrays; input cut by a buffer in the middle of a character. PROJECT.json lists these hazards
with their lines and the properties for each.

## Modules

```
Sampler ─┬─ Transformer ─┬─ Completion           abstract session
         │               └─ Inference ── InferenceProofs     refines Completion
         └─ SamplerProofs ·················┘     (INSTANCE)
Matvec ······················ AcppBackend ── AcppBackendProofs   refines Matvec (backend.h)
                              MatvecKernel       one work group
                              └─ MatvecKernelProofs
Dictionary ·················· HashTable          refines Dictionary
                              └─ TokenizerPartsProofs
ByteUnicode ── Bpe ── Tokenizer ── TokenizerProofs   from typed bytes to ids and back
PreTokenizer ─┬─ TokenizerPartsProofs
              └······ Tokenizer                  (INSTANCE)
GgmlTypes ─┬─ Quant ── QuantProofs
           └─ GgufFile ── ModelLoad ─┐
                         Devices ────┴─ Program ── ProgramProofs
```

**Sampler** is a set of operators: the ids `sampler_sample` may return. Logits
are integers, `NegInf` is the -INFINITY of `mask_unused_tokens`, `Weight` is an
exponential that halves per unit and underflows. `qsort`'s order of ties is any;
the random draw is any candidate with a positive probability or the last one
kept, to which the code falls through when rounding leaves the sum too small.
`Cold` is a temperature so small that its inverse, itself still finite, takes
every logit but zero out of the range of a float. The largest scaled logit may
then be an infinity, the difference of two infinities is not a number, and with
a sum that is not a number no comparison of the draw succeeds, so that the last
candidate is returned.

**Transformer** has the sizes, the options and the layer functions as constants.
The arithmetic of a layer is uninterpreted, so two results are equal only when
they come from the same inputs. `Hidden(l, s)` is the transformer unrolled over
a whole context, without a cache; `HiddenAssumption` is its recursion.

**Inference** models `run_prompt`, `run_interactive`, `gpt2_reset` and
`gpt2_forward_token`. A forward call is an action per stretch of host work
between backend calls: `Attention` (QKV, row written, attention, projection),
`Mlp`, `OutputHead`; each projection may fail, before or after the row is
written. `Prefill`, `Generate`, `StopAtEos`, `StopAtLimit`, `PrintNextToken` are
the two loops. **Completion** has neither cache nor counters: it samples from
the logits of the whole context and says where to stop.

**AcppBackend** models `upload_readonly`, `ensure_scratch`,
`chris_backend_matvec`, the destructor and the queue (`Execute`). The caller is
the program (preload everything, multiply, stop at the first failure, free the
model, then the backend: `main.c:553-556`) or another client of `backend.h` that
uploads on demand and goes on after a refusal. Any call into the runtime that
the code guards may throw. **Matvec** is the comment of `backend.h`.
**MatvecKernel** models the items of one group, `sum` being the number of times
each column went into it; the group size comes from `choose_work_group_size`.

**HashTable** models both tables of the tokenizer, from the doubling loop of
`next_power_of_two` over the filling to the lookups, probe by probe and for
every hash function; **Dictionary** answers a lookup from the list.
**ByteUnicode** is `build_byte_unicode`, the UTF-8 functions and
`tokenizer_decode_token` with a buffer of any size. **Bpe** is `bpe_piece`: an
action per merge pass and per symbol looked up. **PreTokenizer** models
`pretokenize_and_bpe` character by character over eight kinds of characters.
**Tokenizer** composes them under `run_interactive`: `fgets` fills the line, the
bytes are cut into characters and classified, each step of PreTokenizer that
ends a piece calls Bpe, a failure drops the whole prompt, and sampled tokens are
printed through the fixed buffer of `tokenizer_print_token`.

**GgmlTypes** has the block sizes and layouts that `quant.c` asserts; it is
shared by the sizes of **GgufFile** and by **Quant**, the conversions of
`quant_to_f32`. Quant does not compute with the file's bits: an element is the
list of the bits it is made of, so a wrong shift, mask or pointer puts a bit in
the wrong place. Only `fp16_to_fp32` computes.

**GgufFile** reads a file piece by piece; a file is a record of what it declares
and of its size. `fields` are the fields of `GGUFFile` that are set, and the
same names stand for the heap blocks they point to. **ModelLoad** executes
`plan`, the order of loads and comparisons in `gpt2_load`; `weights` has the
address, owner flag and shape of each `Weight`, and the bytes allocated for it.
Offsets, sizes and allocations are taken modulo `Word` where the code takes them
modulo 2^64; a conversion of more floats than 2^64 bytes hold ends the process
(`LoadFaults`). **Devices** is `choose_device`
of the AdaptiveCpp build and the three texts the CPU build takes, next to what
`backend.h` promises. `FileAssumption` and `RequestAssumption` say what an input
is: numbers where the file declares numbers, and a request whose lower-case text
and index are those of the text typed (`lower_copy`, `parse_index`). **Program** adds `main`: `ending` is the list of releases
in front of the return it has reached. The teardown order differs between
returns as it does in the code. `vocabulary` is what the tokenizer tells the
session: number of tokens, token types, end-of-text token.

Operators marked *seeded fault* are wrong variants of the definition below them.
They are used by nothing in the models; PROJECT.json names, for each property,
the variant that violates it.

## What the runs check

| Run | States | Properties | Shows |
|---|---|---|---|
| `session` | 894 | LogitsExact, CacheCoherent, RangeNeverFails, EmittedUsable, RowWrittenOnce, PromptCompletes, CompletionSpec | an interactive session of any number of prompts, with failures |
| `next_token` | 168 | EmittedUsable, CompletionSpec | `--next-token-id` without a usable end-of-text token |
| `sampler` | 58968 | GreedyIsFirstMaximum, WithinTopK, WithinNucleus, PenaltyWindow, MaskedNeverDrawn | all vectors over four logit values, 72 option sets, growing histories |
| `acpp` | 276080 | DeviceAccessesFit, OwnsWhatItFrees, ResidentCoherent, ReleasedAtClose, FreedInUseOnlyAfterFailure, CallsReturn, MatvecSpec | the backend under the program and under a client, with failures |
| `kernel` | 1055 | SumExact, FoldsDoNotRace, GroupFinishes | one work group in every order of its items |
| `tokenizer_parts` | 1366168 | ProbesUnbroken, DictionarySpec, Tiled, FollowsRegexButForMarks, Ends | both tables under every hash function; the pieces of every short text |
| `tokenizer` | 773388 | RoundTrip, AgreesWithRules, PromptsAreTyped, PrintsMeaning | typed bytes to prompts and ids, tokens to printed bytes |
| `program` | 43558 | OpensWellFormed, ModelUsable, ReleasedAtExit, FreedOnce, SessionPrepared | the program from its options to its return |
| `quant` | 262424 | HalvesExact, BlocksUnpacked | every conversion, every half |

Some properties deserve a word.

- `LogitsExact` compares the logits the sampler is about to read with the
  unrolled definition, so a stale row, a row of another block, a wrong position
  or a missing logits request shows. Not needed for it is `gpt2_reset`: without
  it attention would still read only rows of the current prompt. What the reset
  gives is `RowWrittenOnce`.
- `FreedInUseOnlyAfterFailure` states the one case in which the device may meet
  freed host memory: a submission threw, `chris_backend_matvec` returned without
  waiting, and `main.c:553` frees the model before the destructor waits.
  `ReleasedAtClose` likewise excepts the allocation that is lost when the copy
  of an upload throws (`backend_acpp.cpp:193`).
- `FollowsRegexButForMarks` compares each piece with GPT-2's regular expression.
  The code differs from it in one case, which the property states: a run of
  marks with no space in front stops before a contraction (`!'s`).
- `RoundTrip` holds at every step of an encoding: ids pushed, symbols waiting and
  characters unread spell the line. It is about bytes, so it also covers lines
  that are not UTF-8 and characters that `fgets` has cut in two.
- `AgreesWithRules` is about lists as a trainer produces them (`Trained`): a rule
  takes symbols made by earlier rules only. GPT-2's 50000 merges make 50000
  different tokens, so no symbol is made twice. It is not enough that each part
  was made by some earlier rule. With the merges `x y`, `w x`, `wx y`, `wxy z`,
  `w xy` in this order, `bpe_piece` makes one symbol of `wxyz`: `xy`, then `wxy`,
  then it goes back to the fourth rule. The rules in order leave `wxy` and `z`.
- `PromptsAreTyped` says that a session's prompts are the bytes typed, without
  the ends of lines. A line longer than the buffer becomes several prompts; the
  property says that nothing else splits one. Zero bytes are left out: `strlen`
  ends a line there and the rest of it is lost.
- `SessionPrepared` is where Program meets Inference and AcppBackend: when the
  session begins, what those modules assume of model, vocabulary and device
  holds, whatever file and options were given.
- `OpensWellFormed` compares the reader with what it means for a file to be
  well-formed, counted without any modulus: a tensor lies in the file when
  `start + offset + size` is at most the file's size (`InFile`). A file refused
  as malformed is not well-formed, and an opened one is, but for tensors of
  which the offset or the size passes 2^64 (`Wraps`): the code adds modulo 2^64
  (`gguf.c:510`) and `quant_nbytes` multiplies so (`quant.c:113`), and the
  remainder may fit. Runs that end without opening the file say nothing about it.
- `ModelUsable` says that every weight has the shape and the memory the forward
  pass indexes, counted without a modulus, and names the two cases in which the
  checks of `gpt2_load` let less than that pass. Three times the embedding
  length is counted in 32 bits (`gpt2.c:172`), so that a model of length 2^31+1
  is loaded with fewer columns for queries, keys and values than the forward
  pass reads. And `gpt2.c:46` counts the memory of a weight in 64 bits: a float
  tensor of 2^64 bytes or more gets the remainder, and as `quant_to_f32` copies
  the same remainder, it is loaded. For the other types the same count lets the
  conversion write as many floats as the tensor has elements into too little
  memory; more than 2^62 of them cannot end, so the process does, with
  `LoadFaults`. In the run a `q4_0` file of embedding length 352 gets to the
  session with a shape that wrapped, and an `f32` one of 363 with a memory
  that did.
- `ReleasedAtExit` says nothing of a process that `chris_xcalloc` or such a fault
  has ended.
- `WithinNucleus` and `MaskedNeverDrawn` are stated for temperatures that do not
  overflow; with `Cold` the code draws the last candidate whatever `top_p` says.

Three runs show that a statement of the repository does not hold:

- `masked_fallback` (EmittedUsable): `main.c:224-226` says of the masked ids
  that they "must never be sampled". With `top_p` 1, no `top_k` and rounding
  against it, the draw falls through to the last kept candidate
  (`sampler.c:187`), which is a masked one. The model allows the fall-through
  without computing the rounding; `MaskedNeverDrawn` states the options that
  exclude it.
- `acpp_retry` (ScratchReused): ARCHITECTURE.md says the scratch vectors "are
  then reused". After one failed to grow, `ensure_scratch` has freed it and
  nulled the pointer but kept its count, so that a client's next, smaller
  product passes a null vector to the kernel. The program stops at the first
  failure and does not get there.
- `wrapped_offset` (TensorsInDataSection): `gguf.h:50` says that a tensor's offset
  is "relative to the tensor data section". An offset of 2^64-64 is accepted,
  because the sum of `gguf.c:510` wraps, and the tensor's data are then the 64
  bytes in front of that section, where the descriptors are.

### Bounds

- `session`: context 5, two blocks, 4 rows of embeddings against 5 tokens, at
  most 3 generated tokens. Eight prompts: empty, shorter than the window of four,
  of exactly its length, longer (cut), with an id the model lacks. Two blocks are needed for a
  wrong row offset to hit another block; three tokens after a prompt of three
  reach the end of the context, after one the token limit. The logits have ties.
  `next_token` has context 6, three blocks and fewer tokens than rows. Prompts
  of an interactive session follow each other without a bound.
- `acpp`: two projections whose shapes make one scratch vector grow at each; a
  weight buffer shared by two shapes for the client (`Narrow`); five addresses,
  enough for everything the program holds at once and few enough to be reused.
- `kernel`: group sizes 1, 2 and 4 from device maxima 0, 1, 3, 7; one, three and
  six columns, so that items have none, one or two and the last ones differ.
- `sampler`: three ids, logits -infinity and three finite values, temperatures 0,
  1 and `Cold`, a penalty over none, one or all of the last tokens.
- `tokenizer_parts`: for the tables, lists of up to three entries over two keys
  and a malformed merge, a third key that is in no list, capacities 1 to 8, hash
  values below 8. For the pre-tokenizer, all texts of up to four characters of
  eight kinds, and of five over the kinds contractions are made of. The two
  stand side by side and neither touches the other's state; one of them has
  every input and the other a single small one.
- `tokenizer`: a line buffer of six bytes (`LineSize`, 8192 in the code) and a
  print buffer of four (`PrintSize`), so that both overflow. Typed are all 256
  bytes, all lines of up to four bytes over a letter and the space,
  contractions, e-acute cut in two, several lines, and lines with zeros. The
  merges are all single ones that build at most three bytes and the pairs and
  triples that build on each other, and two lists of five in which two rules make
  the same symbol; the vocabulary is complete or lacks a symbol.
- `quant`: none to three blocks of each type, so that the pointers are set anew,
  counts that break a block, an unknown type, all 65536 halves.
- `program`: 514 inputs. A complete one-block file; the same file cut before the
  end of each of its pieces; each header field, metadata entry and tensor
  changed in turn to the values that take other branches; no tensors, a second
  tensor of the same name, an output matrix of its own, one that is not
  supported; files of four and five blocks whose caches overflow in `calloc` and
  before it; end-of-text tokens that are given or not, in range or not, named or
  not; offsets just below 2^64; counts of elements of which the bytes or the
  floats pass 2^64, for three types and for the output matrix; two files of an
  embedding length that passes 2^32 when it is taken three times; an alignment
  of 2^63; every combination of the options that decide how far `main` goes, on
  a complete file and on one with a malformed header; and machines of both
  builds with none to three devices under ten texts that are a keyword, an
  index, a name or nothing. `Word` (2^19) stands for 2^64 and `Word32` (2^10) for 2^32:
  they keep the order file size < 2^64 / 2 and the wrap-arounds within reach.
  `NameLength` is one length for all names.

### Fairness

The host is one thread without waiting except for the queue: weak fairness of
its own steps (`ForwardStep \/ LoopStep`, `HostStep`, `Step`, `Progress`) says
that it is scheduled. In HashTable `Step` leaves out the beginning of a lookup,
which is the caller's; Dictionary asks for `TakeIn` and `Reply` in return. The
runtime drains its queue (`WF(Execute)`); the device runs all items of a group
(`WF` per item), which SYCL requires for barriers. No fairness is assumed of the
user, of the caller of a backend, of a lookup, or of any failure.

`CHECK_DEADLOCK FALSE` stands where the component ends: a drawn sample, a
finished group, a session that was left, a converted tensor. In
the other models the end is an explicit stuttering step.

## What is proved

`InferenceProofs`, for every model size, vocabulary, prompt set, sampler option
and layer function that meets the assumptions `SizeAssumption`,
`HiddenAssumption` and `PromptAssumption`:

- `TypeCorrect`, `LogitsAreExact`, `CacheIsCoherent`, `RangeChecksPass`,
  `RowsWrittenOnce`: the safety properties of the `session` run;
- `RefinesCompletion`: the session implements the safety part of Completion;
- `PlaceholdersNeverPrinted`: `EmittedUsable`, for options that meet
  `PlaceholdersExcluded`. This is the hypothesis under which `main.c:224-226` is
  true: no placeholders at all, or logits of finite size, one usable id, and
  options that keep the masked ones out (greedy, `top_p` below 1, or a `top_k`
  the usable ids fill, at a temperature other than `Cold`). The runs
  `session` and `next_token` meet it, `masked_fallback` does not. The proof takes
  `MaskedLoses` from SamplerProofs at the arguments the session passes.

The others follow from `Invariance`, the inductive invariant `IInv`. `LogitsExact`
alone is not inductive: the logits come from `x`, so `StateExact` says which
hidden state `x` is at each program counter; `x` comes from rows that earlier
calls wrote, so `CacheCoherent` says what they hold; that a write leaves the
others alone needs `RowInjective`, which needs `position < ContextLength` and
`layer < BlockCount`, hence `Control`; the same bounds give `RangeNeverFails`.
`UnwrittenZero` is there for `RowWrittenOnce`: a row that is not written is
still as the reset left it. There is one lemma per action that writes the
cache, the state or the history; the others change only control.

`TokenizerPartsProofs` is about the two parts of the tokenizer that stand alone.
Of PreTokenizer `PiecesTile` proves `Tiled` for texts of any length. Its
invariant adds the bounds of `end` in each mode; the interesting ones are that
the first character of a run always joins it, and that white space given back
to the next piece leaves something of this one. `PiecesFollowRegex` proves
`FollowsRegexButForMarks`: `Reading` says what each mode knows of the characters
between the beginning of the piece and `end`, which is enough, when the mode
ends, to name the alternative of the expression that matches there and its
length (`RunLength`).

`SamplerProofs`, for any number of ids, any logits whose penalised values stay
finite, any history and any options: `GreedyChoosesFirstMaximum`,
`DrawsWithinTopK`, `DrawsWithinNucleus`, `PenaltyReachesWindowOnly` and
`MaskedOutOfReach`, the five properties of the `sampler` run. They are about
single calls, so the invariant only types the arguments (`Arguments`); the work
is in the lemmas. An order `qsort` may leave is a bijection (`RankingIs`) in
which the ids that beat a candidate stand before it (`HigherStandBefore`), so
that they are fewer than its place, and so that their weight is part of the mass
in front of it. The nucleus stops at the first prefix that reaches its share
(`TopPIs`), hence the last kept candidate has a weight of its own
(`LastKeptHasWeight`), which is what keeps masked ids out although the draw may
fall through to it. `WithinNucleus` measures the share of some `top_k` best ids;
that all such choices weigh the same, because they differ in ties only, is
`TopWeighsAsPrefix`, from sums over places (`PlaceSum`) that do not depend on the
order in which they are taken (`FoldIsPlaceSum`).

Of HashTable, for any keys and lists and every hash function, it proves:

- `ProbesAreUnbroken`: the invariant of the `tokenizer_parts` run about the tables;
- `SlotStaysFree`: the table is never full, by the pigeonhole principle from the
  capacity of at least `2n + 1` slots and the distinct ids of the used ones. It
  is why the insertion loop, which has no other exit, meets a free slot;
- `RefinesDictionary`: the safety part of `DictionarySpec`.

`ProbesUnbroken` needs `Inserting` (an insertion has passed used slots only) to
survive an insertion, and `Contents` (used slots hold the entries before `next`,
one each) for the order of ids; `LookingUp` is what makes a hit the first
position and a miss or a full turn an absence. `ProbeOrder` is all the proof
uses of arithmetic modulo the capacity; nothing depends on its being a power of
two beyond `& (capacity - 1)` being the remainder.

`MatvecKernelProofs`, for every width, every device maximum and every order of
the items: `SumExactAlways` and `FoldsDoNotRaceAlways`, from `KernelInv`, and
`GroupSizeIsLargestPower` about `choose_work_group_size`. Between two barriers
items may be one pass apart, so the invariant is about each item's own progress:
`Lockstep` bounds the distance by one barrier and ties the strides together;
`Live` says that a partial sum still folded into holds exactly the columns
congruent to its index modulo the width reached, `Retired` that one no longer
folded into keeps what it had when it was read last. That the widths come out
even at each halving is where the power of two is needed.

`AcppBackendProofs`, for any buffers, shapes, products, addresses and callers,
any moment of execution and any call that throws:

- `OwnsWhatItFreesAlways`, `ResidentCoherentAlways`,
  `FreedInUseOnlyAfterFailureAlways`, without a hypothesis on the caller;
- `ReleasedAtCloseAlways`, `DeviceAccessesFitAlways` and `RefinesMatvec` (the
  safety part of Matvec), for the program and for a client that stops after the
  failures named in `ClientStopsAfter`. The hypothesis says nothing of the
  program, which always stops. For a client it cannot be dropped: `acpp_retry`
  shows what follows a scratch vector that could not grow; after a submission
  threw, the next product may replace a scratch vector that commands of the
  abandoned one still use; and a client that survives a failed `memcpy` may meet a later failure, which hides
  that one from `ReleasedAtClose`.

`BackendInv` is inductive for all of them. `Ownership` says which allocations
differ; `Residency` that what a product needs is in the cache or still in the
list of uploads; `Coherence` that no queued command writes over a resident copy
and that the one being uploaded is last in the queue; `Draining` what an
abandoned queue can hold when the program frees its model. `Accounted`,
`Fitting` and `Progress` add what a queue may contain at each point of a product.

`ProgramProofs`, for files of any number of entries, tensors, dimensions and
blocks, any options, any machine and any failure: `FreedOnceAlways` and
`ReleasedAtExitAlways`, from `ProgramInv`, which says that the heap is exactly
what the fields read (`FileInv`), the weights loaded (`ModelInv`) and the stage
account for (`HeapInv`). The release order of `main` differs between its
returns; `Endings` are the lists that occur, and `Waits` what each still holds.
For the same inputs:

- `OpensWellFormedAlways`: the reader, which goes through the pieces with a
  cursor and refuses at the first that does not fit, opens every file that is
  well-formed as a whole, and of the others only those with a tensor that wraps.
  `OpenInv` says that the cursor is the sum of the pieces read and that these
  are valid; the alignment is a power of two, so rounding by a mask is the first
  multiple. A tensor that lies in the file has sums below half of 2^64, as file
  sizes are, so that the code's sums are these (`InFileLies`); conversely the
  code's test is that of `InFile` unless one of the sums wraps (`LiesInFile`).
- `ModelUsableAlways`: `LoadInv` follows `gpt2_load` through its plan: each slot
  is still to be fetched or is filled from the file, is still to be compared or
  has the shape it was compared with, and its memory is what its elements count
  in 64 bits. No file is left out: the theorem has the two exceptions of the
  property and no hypothesis. A weight other than a float one that is loaded has
  floats below 2^64 bytes, because a longer conversion does not end.
- `SessionPreparedAlways`: what Inference and AcppBackend assume holds when a
  session begins, from `TokenInv` and `DeviceInv` besides.

`TokenizerProofs`, for every list of merges, vocabulary, input, locale and size
of the two buffers:

- `RoundTripHolds`: `RoundTrip`, from `IInv`. `Cursor` says where the piece in
  hand begins and may end, `Calls` when `bpe_piece` holds symbols. What needs an
  argument is that merging, which concatenates spellings, changes nothing of
  what they show: decoding cuts a spelling where UTF-8 says, and bytes that are
  not UTF-8 could be cut elsewhere after something was put in front or behind.
  So the symbols stay in `Whole`, the spellings whose decoding does not depend
  on what follows. The spelling of one byte is whole (`SpelledByte`, from the
  injectivity of the byte alphabet and from UTF-8's two bytes for codepoints up
  to 511) and a concatenation of whole spellings is (`WholeConcat`).
  `CharactersWhole` says that `utf8_decode_one` cuts any line, UTF-8 or not,
  into characters that make it up again.
- `PromptsAreTypedHolds`: `PromptsAreTyped`, which is inductive together with
  `IInv`: `ChunkIs` and `LineOfIs` say what `fgets` takes and what is left of it.
- `AgreesWithRulesHolds`: `AgreesWithRules`. `MergeInv` says that the symbols are
  always what the rules up to some place of the list leave of the piece
  (`Stepwise`). One pass from left to right is its rule applied at the leftmost
  place until it fits nowhere (`PassExhausts`): a pass ends where it ends after
  the rule has been applied once (`PassKept`), since the new symbol is no part of
  the rule. A rule that was exhausted fits nowhere later (`RulesGone`), since a
  later rule's symbol is no part of it; so the best rank belongs to a rule
  further on, and those skipped fit nowhere (`PassIsRule`).
- `PrintsMeaningHolds`: `PrintsMeaning`. A token of text is decoded byte by byte
  because its spelling is whole (`WholeFlatten`), another keeps its spelling
  (`PlainDecodes`); the buffer cuts both at its size.

`tokenizer_decode_token`, the cutting of a line and a pass of merging are
functions that go on from a place further ahead; they are reached by induction
downwards from the end (`Downward`), the decoder's and the cutter's over leaps
of as many bytes as were used (`LeapsExist`).

`QuantProofs`, for tensors of any number of blocks:

- `HalvesExactHolds`: `HalvesExact`, case by case as `fp16_to_fp32` does. For
  subnormals the loop's count (`Shift`) is unrolled from the highest bit down
  (`ShiftIs`): as many shifts as bring it to bit 10, whose powers of two then
  cancel against the exponent (`SubnormalExact`).
- `UnpackingHolds`, the invariant of the loops: `i`, `j`, the three pointers and
  the two masks are where block and chunk say, and what has been written is
  exactly the elements before that place, each described from its number alone.
  A mask moved one chunk too far or a pointer not set anew for the next block
  would break it at a step.
- `BlocksUnpackedHolds`: `BlocksUnpacked`, from it. For each type the places an
  element takes its bits from are inside the bytes of the block's quants and all
  of them are taken; moved by the origin of the block, these make up the bytes
  of the tensor. The scale groups share out the scale bytes likewise, six bits
  of a group's scale and minimum lying in up to three bytes.

Induction over the natural numbers begins the modules that need it. The
library's rules take an operator as a parameter, which the installed provers
cannot instantiate; here what is to be proved of all numbers is that a set of
numbers is `Nat` (`SetInduction`), from the well-foundedness of a relation.
That is how the recursive functions of the models are reached: sums of pieces
(`SumToIs`), products of dimensions (`ProductIs`), the flattening of lists
(`Flattening`), the scans and sums of the sampler (`BestUpToIs`, `MassIs`), the joining of
sequences (`FlattenConcat`) and the loop of `choose_work_group_size`.

Every assumption of a theorem is an `ASSUME` of a module that a run extends, so
TLC evaluates it (the one about tokens a model may sample is
`EmittedAssumption`: each is spelled in the byte alphabet or, like
`<|endoftext|>` and bytes that are not UTF-8, is what it is spelled), except
`ClientStopsAfter` and `PlaceholdersExcluded`, which are hypotheses of the
theorems that need them.

Only model-checked is all liveness (`PromptCompletes`, `CallsReturn`,
`GroupFinishes`, `Ends`, and the fairness of `MatvecSpec`, `CompletionSpec` and
`DictionarySpec`): the proof system has no ENABLED. Every invariant of the runs
that are expected to pass is stated by a theorem.

## What is not modelled

- Floating-point arithmetic: layers, the products and sums of dequantisation,
  softmax, the rounding of `top_p`, and the different order of sums on a device.
- Allocation failure on the host: `chris_xmalloc` ends the process. Only the
  `calloc` of the caches that cannot succeed is an action (`CachesFatal`).
- Errors the device reports later than the call: without an asynchronous
  handler SYCL's default one ends the process.
- `append_id` failing: the history has room for prompt, `max_tokens` and 8 more.
- `quant_to_f32` failing in `weight_load`: the condition was tested before.
- What the forward pass computes with a model whose shape or memory wrapped
  (the exceptions of `ModelUsable`): it reads past the weights.
- What a conversion overwrites before it faults (`LoadFaults`).
- A temperature whose inverse is an infinity, below about 3e-39: a logit of zero
  is then not a number, and `qsort` has no order to go by. `strtof` reports
  numbers so small as out of range unless they are exact.
- The beginning-of-text id, which is read and never used; overlong UTF-8, which
  the decoder takes and the encoder would write shorter.
- What `strtoul` and `strtof` make of an option, and the ranges `parse_options`
  accepts; printed reports; the number of the exit status.
- Which characters the C library calls letters, digits or spaces from 128 on: a
  parameter (`Wide`).
- `generate.c`, `model.c`, `kv_cache.c`, `tensor.c` and the rest of the older
  LLaMA runtime: not in the Makefile's sources, no program is built from it.
- Scripts, tests and the build.

One divergence is only noted. The comment at `backend.h:24` lists the texts a
device may be chosen by without telling the builds apart; the build without
AdaptiveCpp takes `auto`, `cpu` and `0` as typed and refuses all others, `CPU`,
its own name and the empty text included (`backend_cpu.c:18-29`). So
`SessionPrepared` compares a device that was taken with `backend.h` for both
builds, and a refusal for the AdaptiveCpp build only.

## Plan

The order of the work was: Sampler, Transformer, Completion and Inference;
Matvec, AcppBackend and MatvecKernel; the tokenizer from its tables to the
session; GgmlTypes, Quant, GgufFile, ModelLoad, Devices and Program; then the
proofs. All that was planned is modelled and proved but for liveness. What could
follow widens the models: errors the device reports late, and a bound on how far
the device's order of summation may move a logit.
