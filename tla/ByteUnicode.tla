----------------------------- MODULE ByteUnicode -----------------------------
(***************************************************************************)
(* The reversible byte alphabet of src/tokenizer.c and its UTF-8: every    *)
(* byte of a text becomes one codepoint of a token's spelling              *)
(* (build_byte_unicode, utf8_encode), and tokenizer_decode_token turns the *)
(* spelling of a token back into bytes.  Strings are sequences of bytes.   *)
(***************************************************************************)
EXTENDS Naturals, Integers, Sequences, FiniteSets

Byte == 0 .. 255

(* The printable bytes stand for themselves, the others are numbered from  *)
(* 256 on.                                                                 *)
Direct == 33 .. 126 \cup 161 .. 172 \cup 174 .. 255

codepoint_for_byte ==
    [byte \in Byte |->
        IF byte \in Direct THEN byte
        ELSE 256 + Cardinality({b \in 0 .. byte - 1 : b \notin Direct})]

ByteForCodepoint(cp) ==
    IF \E byte \in Byte : codepoint_for_byte[byte] = cp
    THEN CHOOSE byte \in Byte : codepoint_for_byte[byte] = cp
    ELSE -1

byte_for_cp == [cp \in 0 .. 511 |-> ByteForCodepoint(cp)]

----------------------------------------------------------------------------
Continuation(bits) == 128 + (bits % 64)

Utf8Encode(cp) ==
    IF cp < 128 THEN <<cp>>
    ELSE IF cp < 2048 THEN <<192 + cp \div 64, Continuation(cp)>>
    ELSE IF cp < 65536
    THEN <<224 + cp \div 4096, Continuation(cp \div 64), Continuation(cp)>>
    ELSE <<240 + cp \div 262144, Continuation(cp \div 4096),
           Continuation(cp \div 64), Continuation(cp)>>

(* The length a first byte announces; 1 for bytes that cannot be first.    *)
Announced(first) ==
    IF first \in 192 .. 223 THEN 2
    ELSE IF first \in 224 .. 239 THEN 3
    ELSE IF first \in 240 .. 247 THEN 4
    ELSE 1

Continues(data, n) ==
    /\ Len(data) >= n
    /\ \A i \in 2 .. n : data[i] \in 128 .. 191

(* The codepoint that two, three and four bytes spell.                     *)
Codepoint2(a, b)       == (a % 32) * 64 + (b % 64)
Codepoint3(a, b, c)    == (a % 16) * 4096 + (b % 64) * 64 + (c % 64)
Codepoint4(a, b, c, d) ==
    (a % 8) * 262144 + (b % 64) * 4096 + (c % 64) * 64 + (d % 64)

(* [cp, used] for the first codepoint of data, which is not empty; a byte  *)
(* that does not begin valid UTF-8 stands for itself.                      *)
Utf8DecodeOne(data) ==
    LET n == Announced(data[1])
    IN  IF n = 1 \/ ~Continues(data, n) THEN [cp |-> data[1], used |-> 1]
        ELSE [used |-> n,
              cp |-> CASE n = 2 -> Codepoint2(data[1], data[2])
                       [] n = 3 -> Codepoint3(data[1], data[2], data[3])
                       [] n = 4 -> Codepoint4(data[1], data[2], data[3], data[4])]

(* tokenizer_decode_token with a buffer that is long enough: a codepoint   *)
(* of the byte alphabet becomes its byte, any other keeps its spelling.    *)
DecodedOneInAlphabet(one, spelling) ==                          \* seeded fault
    IF one.cp < 512 /\ byte_for_cp[one.cp] >= 0
    THEN <<byte_for_cp[one.cp]>> ELSE <<>>

DecodedOne(one, spelling) ==
    IF one.cp < 512 /\ byte_for_cp[one.cp] >= 0
    THEN <<byte_for_cp[one.cp]>> ELSE SubSeq(spelling, 1, one.used)

DecodeToken(encoded) ==
    LET rest(offset) == SubSeq(encoded, offset + 1, Len(encoded))
        from[offset \in 0 .. Len(encoded)] ==
            IF offset = Len(encoded) THEN <<>>
            ELSE LET one == Utf8DecodeOne(rest(offset))
                 IN  DecodedOne(one, rest(offset)) \o from[offset + one.used]
    IN  from[0]

(* What tokenizer_decode_token returns and leaves in a buffer it was given:*)
(* bytes beyond the buffer are counted, but not stored.                    *)
DecodeInto(encoded, buffer) ==
    LET bytes == DecodeToken(encoded)
    IN  [written |-> Len(bytes),
         buffer |-> [k \in DOMAIN buffer |-> IF k <= Len(bytes) THEN bytes[k] ELSE buffer[k]]]
==============================================================================
