------------------------------ MODULE Tokenizer ------------------------------
(***************************************************************************)
(* From what is typed to the ids the model gets, and from an id to what is *)
(* printed: run_interactive (src/main.c) reads lines, tokenizer_encode     *)
(* (src/tokenizer.c) lets the pre-tokenizer (module PreTokenizer) cut a    *)
(* line into pieces and bpe_piece (module Bpe) append the ids of each, and *)
(* tokenizer_print_token writes a sampled token.  The completion itself is *)
(* module Inference; here it prints some token or none.                    *)
(***************************************************************************)
EXTENDS Bpe

CONSTANTS
    Inputs,         \* what may be typed until the end of the input
    LineSize,       \* sizeof(line) in run_interactive
    PrintSize,      \* sizeof(buffer) in tokenizer_print_token
    Emitted,        \* tokens the model may sample: records of their
                    \* spelling and of the bytes they mean
    Wide            \* the locale: codepoints from 128 on that iswspace,
                    \* iswdigit and iswalpha accept

ASSUME TokenizerAssumption ==
    /\ Inputs \subseteq Seq(Byte)
    /\ LineSize \in Nat \ {0, 1} /\ PrintSize \in Nat \ {0}

(* A token of text is spelled in the byte alphabet; any other means what   *)
(* it is spelled, if none of its longer characters is in the alphabet.     *)
InAlphabet(cp) == \E byte \in Byte : codepoint_for_byte[byte] = cp

Plain(spelling) ==
    \A k \in DOMAIN spelling :
        LET one == Utf8DecodeOne(SubSeq(spelling, k, Len(spelling)))
        IN  one.used > 1 => ~InAlphabet(one.cp)

ASSUME EmittedAssumption ==
    \A token \in Emitted :
        /\ token.means \in Seq(Byte)
        /\ \/ token.spelling = FlattenSeq(Spelled(token.means))
           \/ token.spelling = token.means /\ Plain(token.spelling)

VARIABLES
    input, taken,   \* what is typed, and how much of it fgets has taken
    stage,          \* "read", "encode", "complete" or "ended"
    line,           \* the prompt
    chars,          \* the line cut by utf8_decode_one
    text, offset, mode, current, end, last_whitespace, whitespace_count,
    pieces,         \* of PreTokenizer
    prompts,        \* output of every tokenizer_encode that succeeded
    printed         \* the last token printed, as a record of what it means
                    \* and of the bytes written

Pre == INSTANCE PreTokenizer WITH Texts <- {}

preVars  == <<text, offset, mode, current, end, last_whitespace,
              whitespace_count, pieces>>
lineVars == <<line, chars>>
vars     == <<bpeVars, input, taken, stage, lineVars, preVars, prompts, printed>>

NL == 10

----------------------------------------------------------------------------
(* The characters of a line and their kinds.                               *)

Characters(bytes) ==
    LET rest(at) == SubSeq(bytes, at + 1, Len(bytes))
        from[at \in 0 .. Len(bytes)] ==
            IF at = Len(bytes) THEN <<>>
            ELSE LET used == Utf8DecodeOne(rest(at)).used
                 IN  <<SubSeq(rest(at), 1, used)>> \o from[at + used]
    IN  from[0]

(* classify_character.                                                     *)
ClassOf(cp) ==
    IF cp < 128
    THEN CASE cp \in 9 .. 13 \cup {32}               -> "space"
           [] cp \in 65 .. 90 \cup 97 .. 122         -> "letter"
           [] cp \in 48 .. 57                         -> "digit"
           [] OTHER                                   -> "other"
    ELSE IF cp \in Wide.space THEN "space"
    ELSE IF cp \in Wide.digit THEN "digit"
    ELSE IF cp \in Wide.letter THEN "letter" ELSE "other"

(* s, t, m, d; l, and the r-e and v-e of a contraction (PreTokenizer takes *)
(* all three pairs for a doubled l).                                       *)
Single == {<<115>>, <<116>>, <<109>>, <<100>>}
Pair(s, k) == <<s[k], s[k + 1]>> \in {<<<<114>>, <<101>>>>, <<<<118>>, <<101>>>>}
Doubled(s, k) ==
    \/ s[k] = <<108>>
    \/ k > 1 /\ k < Len(s) /\ s[k - 1] = <<39>> /\ Pair(s, k)
    \/ k > 2 /\ s[k - 2] = <<39>> /\ Pair(s, k - 1)

KindOf(s, k) ==
    LET class == ClassOf(Utf8DecodeOne(s[k]).cp)
    IN  CASE class = "space"  -> IF s[k] = <<32>> THEN "blank" ELSE "newline"
          [] class = "letter" -> IF s[k] \in Single THEN "s"
                                 ELSE IF Doubled(s, k) THEN "l" ELSE "letter"
          [] class = "digit"  -> "digit"
          [] class = "other"  -> IF s[k] = <<39>> THEN "'" ELSE "mark"

----------------------------------------------------------------------------
Init ==
    /\ BpeInit
    /\ input \in Inputs /\ taken = 0
    /\ stage = "read"
    /\ line = <<>> /\ chars = <<>> /\ text = <<>>
    /\ offset = 0 /\ end = 0 /\ mode = "done" /\ current = "space"
    /\ last_whitespace = 0 /\ whitespace_count = 0 /\ pieces = <<>>
    /\ prompts = <<>>
    /\ printed = [means |-> <<>>, bytes |-> <<>>]

(* fgets: up to the end of the line, of the buffer or of the input.        *)
Chunk ==
    LET most == IF Len(input) - taken < LineSize - 1 THEN Len(input) - taken
                ELSE LineSize - 1
        ends == {n \in 1 .. most : input[taken + n] = NL \/ n = most}
    IN  SubSeq(input, taken + 1, taken + Min(ends))

(* strlen, and the end of the line taken off.                              *)
LineOfAny(bytes) ==                                             \* seeded fault
    SubSeq(bytes, 1, Len(bytes) - 1)
LineOf(bytes) ==
    LET zeros  == {k \in DOMAIN bytes : bytes[k] = 0}
        string == IF zeros = {} THEN bytes ELSE SubSeq(bytes, 1, Min(zeros) - 1)
    IN  IF string # <<>> /\ Last(string) = NL THEN Front(string) ELSE string

Leaving == {<<101, 120, 105, 116>>, <<113, 117, 105, 116>>}    \* exit, quit

ReadLine ==
    /\ stage = "read" /\ taken < Len(input)
    /\ taken' = taken + Len(Chunk)
    /\ line' = LineOf(Chunk)
    /\ chars' = Characters(line')
    /\ IF line' \in Leaving
       THEN stage' = "ended" /\ UNCHANGED <<preVars, output>>
       ELSE /\ stage' = "encode"
            /\ text' = [k \in DOMAIN chars' |-> KindOf(chars', k)]
            /\ offset' = 0 /\ end' = 0 /\ mode' = "next" /\ current' = "space"
            /\ last_whitespace' = 0 /\ whitespace_count' = 0 /\ pieces' = <<>>
            /\ output' = <<>>
    /\ UNCHANGED <<tables, pc, piece, symbols, looked, input, prompts, printed>>

EndOfInput ==
    /\ stage = "read" /\ taken = Len(input)
    /\ stage' = "ended"
    /\ UNCHANGED <<bpeVars, input, taken, lineVars, preVars, prompts, printed>>

----------------------------------------------------------------------------
(* tokenizer_encode: between two calls of bpe_piece the pre-tokenizer goes *)
(* on, by the step that ends a piece bpe_piece is called.                  *)

BytesOf(p) == FlattenSeq(SubSeq(chars, p.from + 1, p.to))

Scan ==
    /\ stage = "encode" /\ pc = "idle"
    /\ \/ Pre!BeginSpaced \/ Pre!BeginSpaces \/ Pre!BeginRun
       \/ Pre!ExtendRun \/ Pre!ExtendSpaces
    /\ UNCHANGED <<bpeVars, input, taken, stage, lineVars, prompts, printed>>

CallBpe ==
    /\ stage = "encode" /\ pc = "idle"
    /\ Pre!Contraction \/ Pre!EncodeRun \/ Pre!EncodeSpaces
    /\ BeginPiece(BytesOf(Last(pieces')))
    /\ UNCHANGED <<input, taken, stage, lineVars, prompts, printed>>

Bpe ==
    /\ MergePass \/ NothingToMerge \/ LookUp \/ Return
    /\ UNCHANGED <<input, taken, stage, lineVars, preVars, prompts, printed>>

(* run_prompt, run_interactive and main return.                            *)
EncodeFails ==
    /\ LookUpFails
    /\ mode' = "failed"
    /\ stage' = "ended"
    /\ UNCHANGED <<text, offset, current, end, last_whitespace, whitespace_count,
                   pieces, input, taken, lineVars, prompts, printed>>

EncodeReturns ==
    /\ stage = "encode" /\ pc = "idle"
    /\ Pre!Finish
    /\ stage' = "complete"
    /\ prompts' = Append(prompts, output)
    /\ UNCHANGED <<bpeVars, input, taken, lineVars, printed>>

----------------------------------------------------------------------------
(* tokenizer_print_token: a buffer nobody has written to, and as much of   *)
(* it printed as was written, at most all.                                 *)
Unwritten == [k \in 1 .. PrintSize |-> -1]

PrintToken ==
    /\ stage = "complete"
    /\ \E token \in Emitted :
          LET decoded == DecodeInto(token.spelling, Unwritten)
              length  == IF decoded.written > PrintSize THEN PrintSize ELSE decoded.written
          IN  printed' = [means |-> token.means, bytes |-> SubSeq(decoded.buffer, 1, length)]
    /\ UNCHANGED <<bpeVars, input, taken, stage, lineVars, preVars, prompts>>

(* run_prompt returns; when it has failed, run_interactive returns too.    *)
FinishPrompt ==
    /\ stage = "complete"
    /\ stage' \in {"read", "ended"}
    /\ line' = <<>> /\ chars' = <<>>
    /\ printed' = [means |-> <<>>, bytes |-> <<>>]
    /\ UNCHANGED <<bpeVars, input, taken, preVars, prompts>>

Next ==
    \/ ReadLine \/ EndOfInput
    \/ Scan \/ CallBpe \/ Bpe \/ EncodeFails \/ EncodeReturns
    \/ PrintToken \/ FinishPrompt

Spec == Init /\ [][Next]_vars

----------------------------------------------------------------------------
(* Properties.                                                             *)

(* Printing tokens, each as tokenizer_decode_token shows it.               *)
Shown(tokens) == FlattenSeq([k \in DOMAIN tokens |-> DecodeToken(tokens[k])])

(* At every moment of tokenizer_encode the ids pushed so far, the symbols  *)
(* of the current piece that have not been looked up and the characters    *)
(* not yet read spell the prompt: whatever is merged, wherever the pieces  *)
(* are cut and whether or not the bytes are UTF-8, none is lost, doubled   *)
(* or moved.                                                               *)
RoundTrip ==
    stage = "encode" =>
        Shown(output) \o Shown(SubSeq(symbols, looked + 1, Len(symbols)))
            \o FlattenSeq(SubSeq(chars, offset + 1, Len(chars))) = line

WithoutEnds(bytes) ==
    FlattenSeq([k \in DOMAIN bytes |-> IF bytes[k] = NL THEN <<>> ELSE <<bytes[k]>>])

(* What is typed reaches the model: the prompts that were encoded and the  *)
(* current one make up what fgets has taken, but for the ends of lines,    *)
(* when no zero is typed.  A prompt ends in the middle of a line only when *)
(* it fills the buffer.                                                    *)
PromptsAreTyped ==
    0 \notin Range(input) =>
        /\ FlattenSeq([k \in DOMAIN prompts |-> Shown(prompts[k])])
              \o (IF stage \in {"encode", "ended"} THEN line ELSE <<>>)
            = WithoutEnds(SubSeq(input, 1, taken))
        /\ stage \in {"encode", "complete"} =>
              \/ taken = Len(input) \/ input[taken] = NL
              \/ Len(line) = LineSize - 1

(* A token that is printed shows what it means, as far as the buffer goes, *)
(* and nothing the buffer held before: a token of text its bytes, and one  *)
(* that is spelled outside the byte alphabet, or not in UTF-8, its         *)
(* spelling.                                                               *)
PrintsMeaning ==
    /\ printed.bytes = SubSeq(printed.means, 1, Len(printed.bytes))
    /\ Len(printed.bytes) = Min({PrintSize, Len(printed.means)})
==============================================================================
