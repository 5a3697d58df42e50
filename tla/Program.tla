------------------------------ MODULE Program ------------------------------
(***************************************************************************)
(* main (src/main.c): what the options ask for, in which order the file,   *)
(* the tokenizer, the model and the backend are taken, and what each       *)
(* return releases.  The session itself is module Inference, the backend   *)
(* module AcppBackend; here they succeed or fail.                          *)
(***************************************************************************)
EXTENDS ModelLoad, Devices

ASSUME RequestAssumption ==
    \A input \in Inputs :
        ProperRequest(input.options.device) /\ ProperMachine(input.machine)

VARIABLES
    options,
    machine,    \* see module Devices
    vocabulary, \* what GPT2Tokenizer says of the tokens
    device      \* the backend's

vars == <<options, machine, vocabulary, device, processVars, fileVars, modelVars>>

Tokenizer == <<"tokenizer", 0, 0>>
Backend   == <<"backend", 0, 0>>

NoVocabulary == [n_tokens |-> 0, typed |-> FALSE, has_eos |-> FALSE, eos_id |-> 0]

Init ==
    /\ \E input \in Inputs :
          file = input.file /\ options = input.options /\ machine = input.machine
    /\ vocabulary = NoVocabulary /\ device = NoDevice
    /\ stage = "options" /\ cause = "none" /\ ending = <<>>
    /\ heap = {} /\ misfreed = {}
    /\ FileInit /\ ModelInit

(* main goes on to a stage, or begins to release what it holds.            *)
Go(next) == stage' = next /\ UNCHANGED <<cause, ending>>
End(why, holding) == stage' = "ending" /\ cause' = why /\ ending' = holding

Completes(o) == o.prompt \/ o.interactive \/ o.next_token_id

(* parse_options: help, an error, a list of devices, or a model.           *)
Answered ==
    /\ stage = "options"
    /\ options.parsed # "model"
    /\ End(IF options.parsed = "error" THEN "usage" ELSE "done", <<>>)
    /\ UNCHANGED <<file, heap, misfreed, fileVars, modelVars>>

ParseOptions ==
    /\ stage = "options" /\ options.parsed = "model"
    /\ Go("open")
    /\ UNCHANGED <<file, heap, misfreed, fileVars, modelVars>>

Inspect ==
    /\ stage = "inspect"
    /\ IF options.inspect /\ ~Completes(options) /\ ~options.tokenize
       THEN End("done", <<"file">>) ELSE Go("tokenizer")
    /\ UNCHANGED <<file, heap, misfreed, fileVars, modelVars>>

(* tokenizer_init_from_gguf takes all its memory or none.                  *)
HasTokens == HasArray(file, "tokens", "string") /\ Value(file, "tokens").items # <<>>

(* The end of text: the id the file gives, if it is a token, or the first  *)
(* token <|endoftext|>.                                                    *)
EosOfFileTrusted ==                                             \* seeded fault
    IF HasNumber(file, "eos_token_id") THEN {Number(file, "eos_token_id")} ELSE {}
EosOfFile ==
    IF HasNumber(file, "eos_token_id")
    THEN {Number(file, "eos_token_id")} \cap 0 .. Len(Value(file, "tokens").items) - 1
    ELSE {}

EosByName == {k - 1 : k \in Value(file, "tokens").endoftext}

ReadVocabulary ==
    LET n   == Len(Value(file, "tokens").items)
        eos == IF EosOfFile # {} THEN EosOfFile ELSE EosByName
    IN  [n_tokens |-> n,
         typed    |-> HasArray(file, "token_type", "int32")
                        /\ Value(file, "token_type").count = n,
         has_eos  |-> eos # {},
         eos_id   |-> IF eos = {} THEN 0 ELSE CHOOSE id \in eos : \A k \in eos : id <= k]

InitTokenizer ==
    /\ stage = "tokenizer" /\ HasTokens
    /\ heap' = heap \cup {Tokenizer}
    /\ vocabulary' = ReadVocabulary
    /\ Go("tokenize")
    /\ UNCHANGED <<file, misfreed, fileVars, modelVars>>

NoTokenizer ==
    /\ stage = "tokenizer" /\ ~HasTokens
    /\ End("tokenizer", <<"file">>)
    /\ UNCHANGED <<file, heap, misfreed, fileVars, modelVars>>

(* --tokenize prints the ids of a text or fails.                           *)
Tokenize ==
    /\ stage = "tokenize"
    /\ IF options.tokenize /\ ~Completes(options)
       THEN End("done", <<"tokenizer", "file">>) ELSE Go("load")
    /\ UNCHANGED <<file, heap, misfreed, fileVars, modelVars>>

TokenizeFails ==
    /\ stage = "tokenize" /\ options.tokenize
    /\ End("tokenizer", <<"tokenizer", "file">>)
    /\ UNCHANGED <<file, heap, misfreed, fileVars, modelVars>>

CreateBackend ==
    /\ stage = "backend"
    /\ Taken(machine, options.device) # NoDevice
    /\ device' = Taken(machine, options.device)
    /\ heap' = heap \cup {Backend}
    /\ Go("attach")
    /\ UNCHANGED <<file, misfreed, fileVars, modelVars>>

NoDeviceTaken ==
    /\ stage = "backend"
    /\ Taken(machine, options.device) = NoDevice
    /\ End("device", <<"model", "tokenizer", "file">>)
    /\ UNCHANGED <<file, heap, misfreed, fileVars, modelVars>>

(* No memory, or no queue on the device.                                   *)
BackendRefused ==
    /\ stage = "backend"
    /\ Taken(machine, options.device) # NoDevice
    /\ End("backend", <<"model", "tokenizer", "file">>)
    /\ UNCHANGED <<file, heap, misfreed, fileVars, modelVars>>

Attach ==
    /\ stage = "attach"
    /\ Go("session")
    /\ UNCHANGED <<file, heap, misfreed, fileVars, modelVars>>

AttachFails ==
    /\ stage = "attach"
    /\ End("backend", <<"backend", "model", "tokenizer", "file">>)
    /\ UNCHANGED <<file, heap, misfreed, fileVars, modelVars>>

(* run_interactive or run_prompt; without a prompt main reports an error.  *)
Session ==
    /\ stage = "session"
    /\ \E why \in IF options.interactive \/ options.prompt THEN {"done", "session"}
                  ELSE {"usage"} :
          End(why, <<"model", "backend", "tokenizer", "file">>)
    /\ UNCHANGED <<file, heap, misfreed, fileVars, modelVars>>

----------------------------------------------------------------------------
(* The releases in front of a return, in their order.                      *)

Ending(what) == stage = "ending" /\ ending # <<>> /\ Head(ending) = what
Released == ending' = Tail(ending) /\ UNCHANGED <<file, stage, cause>>

EndModel ==
    /\ Ending("model") /\ Released
    /\ FreeModel
    /\ UNCHANGED fileVars

(* ~ChrisBackend does not look at host memory it was given.                *)
EndBackend ==
    /\ Ending("backend") /\ Released
    /\ Give({Backend}, heap)
    /\ device' = NoDevice
    /\ UNCHANGED <<fileVars, modelVars>>

EndTokenizer ==
    /\ Ending("tokenizer") /\ Released
    /\ Give({Tokenizer}, heap)
    /\ vocabulary' = NoVocabulary
    /\ UNCHANGED <<fileVars, modelVars>>

EndFile ==
    /\ Ending("file") /\ Released
    /\ Close(fields, heap)
    /\ UNCHANGED <<todo, cursor, data_offset, modelVars>>

Return ==
    /\ stage = "ending" /\ ending = <<>>
    /\ stage' = "exited"
    /\ UNCHANGED <<file, cause, ending, heap, misfreed, fileVars, modelVars>>

FileStep  == FileNext /\ UNCHANGED modelVars
ModelStep == ModelNext

TokenizerStep == (InitTokenizer \/ EndTokenizer) /\ UNCHANGED device
BackendStep   == (CreateBackend \/ EndBackend) /\ UNCHANGED vocabulary

Move ==
    /\ \/ Answered \/ ParseOptions \/ FileStep \/ Inspect
       \/ NoTokenizer \/ Tokenize \/ TokenizeFails \/ ModelStep
       \/ NoDeviceTaken \/ BackendRefused \/ Attach \/ AttachFails \/ Session
       \/ EndModel \/ EndFile \/ Return
    /\ UNCHANGED <<vocabulary, device>>

Next == (Move \/ TokenizerStep \/ BackendStep) /\ UNCHANGED <<options, machine>>

Exited == stage = "exited" /\ UNCHANGED vars

Spec == Init /\ [][Next \/ Exited]_vars

----------------------------------------------------------------------------
(* What module Inference assumes of the model and the tokenizer, and       *)
(* src/backend.h promises of the device, holds when the session begins:    *)
(* whatever numbers the file gives, no size is zero and the end of text is *)
(* a token, found if the file has one; the device is one the option asks   *)
(* for.  main gives up for want of a device only if there is none; the     *)
(* build without AdaptiveCpp takes fewer texts than src/backend.h says.    *)
CompletionAssumed ==
    /\ 0 \notin {cfg.vocab, cfg.context, cfg.blocks, vocabulary.n_tokens}
    /\ vocabulary.has_eos => vocabulary.eos_id \in 0 .. vocabulary.n_tokens - 1
    /\ Value(file, "tokens").endoftext # {} => vocabulary.has_eos

SessionPrepared ==
    /\ stage = "session" =>
          /\ CompletionAssumed
          /\ device \in Promised(machine.devices, options.device)
    /\ cause = "device" /\ machine.build = "acpp" =>
          Promised(machine.devices, options.device) = {}

(* Whatever fails, and wherever, main returns with nothing left: the       *)
(* descriptor, the mapping, the copies of every string that was read, the  *)
(* weights loaded so far, the backend.  Only an end of the process at once *)
(* leaves that to the system: chris_xmalloc's and chris_xcalloc's exit,    *)
(* and a fault.                                                            *)
ReleasedAtExit == stage = "exited" /\ cause \notin {"fatal", "fault"} => heap = {}

(* Nothing is freed twice and nothing is freed that is not held, the       *)
(* output matrix that shares its memory included.                          *)
FreedOnce == misfreed = {}
=============================================================================
