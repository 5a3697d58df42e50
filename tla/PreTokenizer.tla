----------------------------- MODULE PreTokenizer -----------------------------
(***************************************************************************)
(* pretokenize_and_bpe of src/tokenizer.c: cuts a text into the pieces     *)
(* that bpe_piece encodes one by one.  A character is one of a few kinds,  *)
(* by which the code tells characters apart; what classify_character makes *)
(* of a codepoint and how many bytes it takes is left out.  Offsets count  *)
(* characters from 0.                                                      *)
(***************************************************************************)
EXTENDS Naturals, Sequences

CONSTANT Texts

(* ' ', other white space, 's' (or t, m, d), 'l' (doubled in a             *)
(* contraction, as r-e and v-e are pairs too), other letters, digits, the  *)
(* apostrophe and every other character.                                   *)
Kinds == {"blank", "newline", "s", "l", "letter", "digit", "'", "mark"}

ASSUME TextAssumption == Texts \subseteq Seq(Kinds)

VARIABLES
    text,
    offset,             \* what is before it has been encoded
    mode,               \* "next", "spaced", "spaces", "run", "done", "failed"
    current,            \* the class a run is made of
    end,
    last_whitespace, whitespace_count,
    pieces              \* what bpe_piece was called with: [from, to]

vars == <<text, offset, mode, current, end, last_whitespace,
          whitespace_count, pieces>>

spaceVars == <<last_whitespace, whitespace_count>>

Class(kind) ==
    CASE kind \in {"blank", "newline"}     -> "space"
      [] kind \in {"s", "l", "letter"}     -> "letter"
      [] kind = "digit"                    -> "digit"
      [] kind \in {"'", "mark"}            -> "other"

Char(at)     == text[at + 1]
ClassAt(at)  == Class(Char(at))
Inside(at)   == at < Len(text)

(* contraction_length.                                                     *)
ContractionLength(at) ==
    IF ~Inside(at + 1) \/ Char(at) # "'" THEN 0
    ELSE IF Char(at + 1) = "s" THEN 2
    ELSE IF Inside(at + 2) /\ Char(at + 1) = "l" /\ Char(at + 2) = "l" THEN 3
    ELSE 0

Init ==
    /\ text \in Texts
    /\ offset = 0 /\ end = 0
    /\ mode = "next" /\ current = "space"
    /\ last_whitespace = 0 /\ whitespace_count = 0
    /\ pieces = <<>>

----------------------------------------------------------------------------
(* The call of bpe_piece that ends an iteration.                           *)

Encode(to) ==
    /\ pieces' = Append(pieces, [from |-> offset, to |-> to])
    /\ offset' = to
    /\ mode' = "next"

----------------------------------------------------------------------------
(* The beginning of an iteration: one of its four branches.                *)

AtNext == mode = "next" /\ Inside(offset)

Contraction ==
    /\ AtNext
    /\ ContractionLength(offset) > 0
    /\ Encode(offset + ContractionLength(offset))
    /\ UNCHANGED <<text, current, end, spaceVars>>

(* One ordinary space joins the run that follows it.                       *)
BlankBeforeRun ==
    /\ Char(offset) = "blank"
    /\ Inside(offset + 1)
    /\ ClassAt(offset + 1) # "space"

BeginSpaced ==
    /\ AtNext
    /\ ContractionLength(offset) = 0
    /\ BlankBeforeRun
    /\ current' = ClassAt(offset + 1)
    /\ end' = offset + 1
    /\ mode' = "spaced"
    /\ UNCHANGED <<text, offset, spaceVars, pieces>>

BeginSpaces ==
    /\ AtNext
    /\ ClassAt(offset) = "space" /\ ~BlankBeforeRun
    /\ end' = offset
    /\ last_whitespace' = offset /\ whitespace_count' = 0
    /\ mode' = "spaces"
    /\ UNCHANGED <<text, offset, current, pieces>>

BeginRun ==
    /\ AtNext
    /\ ContractionLength(offset) = 0
    /\ ClassAt(offset) # "space"
    /\ current' = ClassAt(offset)
    /\ end' = offset
    /\ mode' = "run"
    /\ UNCHANGED <<text, offset, spaceVars, pieces>>

----------------------------------------------------------------------------
(* The inner loops, one character at a time, and what they end in.         *)

RunGoesOn ==
    /\ Inside(end)
    /\ mode = "run" /\ end > offset => ContractionLength(end) = 0
    /\ ClassAt(end) = current

ExtendRunInPlace ==                                     \* seeded fault
    /\ mode \in {"spaced", "run"}
    /\ RunGoesOn
    /\ UNCHANGED vars

ExtendRun ==
    /\ mode \in {"spaced", "run"}
    /\ RunGoesOn
    /\ end' = end + 1
    /\ UNCHANGED <<text, offset, mode, current, spaceVars, pieces>>

EncodeRun ==
    /\ mode \in {"spaced", "run"}
    /\ ~RunGoesOn
    /\ Encode(end)
    /\ UNCHANGED <<text, current, end, spaceVars>>

SpacesGoOn == Inside(end) /\ ClassAt(end) = "space"

ExtendSpaces ==
    /\ mode = "spaces"
    /\ SpacesGoOn
    /\ last_whitespace' = end
    /\ end' = end + 1
    /\ whitespace_count' = whitespace_count + 1
    /\ UNCHANGED <<text, offset, mode, current, pieces>>

SpacesEndAll == end                                     \* seeded fault
SpacesEndLast == IF Inside(end) THEN last_whitespace ELSE end   \* seeded fault
(* Before text, the last of several white spaces is left to the next piece.*)
SpacesEnd == IF Inside(end) /\ whitespace_count > 1 THEN last_whitespace ELSE end

EncodeSpaces ==
    /\ mode = "spaces"
    /\ ~SpacesGoOn
    /\ Encode(SpacesEnd)
    /\ UNCHANGED <<text, current, end, spaceVars>>

(* bpe_piece meets a symbol that is not in the vocabulary.                 *)
BpeFails ==
    /\ \/ mode \in {"spaced", "run"} /\ ~RunGoesOn
       \/ mode = "spaces" /\ ~SpacesGoOn
       \/ AtNext /\ ContractionLength(offset) > 0
    /\ mode' = "failed"
    /\ UNCHANGED <<text, offset, current, end, spaceVars, pieces>>

Finish ==
    /\ mode = "next" /\ ~Inside(offset)
    /\ mode' = "done"
    /\ UNCHANGED <<text, offset, current, end, spaceVars, pieces>>

Progress ==
    \/ Contraction \/ BeginSpaced \/ BeginSpaces \/ BeginRun
    \/ ExtendRun \/ EncodeRun \/ ExtendSpaces \/ EncodeSpaces
    \/ Finish

Next == Progress \/ BpeFails

Spec == Init /\ [][Next]_vars /\ WF_vars(Progress)

----------------------------------------------------------------------------
(* Properties.                                                             *)

(* The pieces tile what has been read of the text, none of them empty:     *)
(* whatever branch cuts them, no character is lost or encoded twice.       *)
Tiled ==
    /\ offset = IF pieces = <<>> THEN 0 ELSE pieces[Len(pieces)].to
    /\ pieces # <<>> => pieces[1].from = 0
    /\ \A k \in 1 .. Len(pieces) : pieces[k].from < pieces[k].to
    /\ \A k \in 1 .. Len(pieces) - 1 : pieces[k].to = pieces[k + 1].from
    /\ offset <= Len(text)
    /\ mode = "done" => offset = Len(text)

(* The regular expression of GPT-2's pre-tokenizer,                        *)
(*   's|'t|'re|'ve|'m|'ll|'d| ?\p{L}+| ?\p{N}+| ?[^\s\p{L}\p{N}]+|         *)
(*   \s+(?!\S)|\s+                                                         *)
(* by the length of its match at an offset: the first alternative that     *)
(* matches, each as long as it can.                                        *)
RunLength(at, class) ==
    CHOOSE n \in 0 .. Len(text) - at :
        /\ \A i \in at .. at + n - 1 : ClassAt(i) = class
        /\ Inside(at + n) => ClassAt(at + n) # class

SpacedRunLength(at, class) ==
    IF Char(at) = "blank" /\ Inside(at + 1) /\ RunLength(at + 1, class) > 0
    THEN 1 + RunLength(at + 1, class)
    ELSE RunLength(at, class)

SpacesBeforeSpace(at) ==
    LET n == RunLength(at, "space")
    IN  IF ~Inside(at + n) THEN n ELSE IF n > 1 THEN n - 1 ELSE 0

Alternatives(at) ==
    <<ContractionLength(at),
      SpacedRunLength(at, "letter"), SpacedRunLength(at, "digit"),
      SpacedRunLength(at, "other"),
      SpacesBeforeSpace(at), RunLength(at, "space")>>

RegexLength(at) ==
    LET tries == Alternatives(at)
    IN  tries[CHOOSE k \in DOMAIN tries :
                  tries[k] > 0 /\ \A j \in 1 .. k - 1 : tries[j] = 0]

FollowsRegexAt(p) == p.to - p.from = RegexLength(p.from)

(* Every piece is what the regular expression matches, with one exception: *)
(* a run of marks with no space before it stops in front of a contraction, *)
(* where the expression takes the apostrophe into the run.                 *)
FollowsRegexButForMarks ==
    \A k \in 1 .. Len(pieces) :
        \/ FollowsRegexAt(pieces[k])
        \/ /\ ClassAt(pieces[k].from) = "other"
           /\ ContractionLength(pieces[k].to) > 0

(* Every text comes to its end or fails in bpe_piece.                      *)
Ends == <>(mode \in {"done", "failed"})
===============================================================================
