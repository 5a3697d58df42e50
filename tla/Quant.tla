-------------------------------- MODULE Quant --------------------------------
(***************************************************************************)
(* quant_to_f32 of src/quant.c: the conversion of a tensor to floats, block *)
(* by block and, in the blocks of 256, chunk by chunk, with the pointers   *)
(* and masks the loops advance.  A tensor's bytes are symbols: an element  *)
(* is described by the bits of the tensor it is made of, least significant *)
(* first.  Only fp16_to_fp32 computes with what the bits hold.  The        *)
(* products and sums in floating point are left out.                       *)
(***************************************************************************)
EXTENDS GgmlTypes, Integers

CONSTANT
    Calls       \* records: type, n (element_count), halves (what an f16
                \* tensor holds, empty for the other types)

Halves == 0 .. 2 ^ 16 - 1

ASSUME CallAssumption ==
    \A c \in Calls :
        /\ c.n \in Nat
        /\ c.type = "f16" => c.halves \in [1 .. c.n -> Halves]

VARIABLES
    call,
    pc,         \* "begin", "convert", "done" or "refused"
    i,          \* the block
    j,          \* the first element of the chunk in its block
    at,         \* the pointers q (qs or ql), h (qh) and s (scales), counted
                \* from the beginning of their member, and the masks u1, u2
    y           \* the elements written so far

vars == <<call, pc, i, j, at, y>>

Start == [q |-> 0, h |-> 0, s |-> 0, u1 |-> 1, u2 |-> 2]

Init ==
    /\ call \in Calls
    /\ pc = "begin"
    /\ i = 0 /\ j = 0 /\ at = Start
    /\ y = <<>>

Per(type) == Block[type][1]

(* A type of quant_nbytes, and whole blocks.                               *)
Convertible == call.type \in DOMAIN Block /\ call.n % Per(call.type) = 0

Refuse ==
    /\ pc = "begin"
    /\ ~Convertible
    /\ pc' = "refused"
    /\ UNCHANGED <<call, i, j, at, y>>

Begin ==
    /\ pc = "begin"
    /\ Convertible
    /\ pc' = "convert"
    /\ UNCHANGED <<call, i, j, at, y>>

Converting(types) ==
    /\ pc = "convert" /\ call.type \in types
    /\ i < call.n \div Per(call.type)

Write(new) ==
    y' = [e \in DOMAIN new \cup DOMAIN y |-> IF e \in DOMAIN new THEN new[e] ELSE y[e]]

NextBlock == i' = i + 1 /\ UNCHANGED <<call, pc, j, at>>

----------------------------------------------------------------------------
(* Where the bits of block i are: pairs of a byte of the tensor and a bit  *)
(* of that byte.                                                           *)

Offset(type, member) ==
    Before(type, CHOOSE k \in DOMAIN Members[type] : Members[type][k][1] = member)

Byte(member, index) ==
    i * Block[call.type][2] + Offset(call.type, member) + index

Bits(member, index, first, count) ==
    [k \in 1 .. count |-> <<Byte(member, index), first + k - 1>>]

Has(member) == \E k \in DOMAIN Members[call.type] : Members[call.type][k][1] = member

(* An element is an integer times d and its scale, and m (dmin) times its  *)
(* minimum is taken off, or m added; types without m or scales have none.  *)
(* lowest is the least the integer can be: an offset is subtracted from    *)
(* its bits, or the byte of q8_0 is signed.                                *)
Element(quant, lowest, scale, min) ==
    [quant |-> quant, lowest |-> lowest, scale |-> scale, min |-> min,
     d |-> Byte("d", 0), m |-> IF Has("m") THEN Byte("m", 0) ELSE -1]

InBlock(first, count) == i * Per(call.type) + first .. i * Per(call.type) + first + count - 1

----------------------------------------------------------------------------
(* fp16_to_fp32.  The result holds the fields of a 32-bit float.           *)

(* How often the loop shifts frac until bit 10 is set.                     *)
Shift[frac \in 1 .. 2047] == IF frac >= 1024 THEN 0 ELSE 1 + Shift[2 * frac]

NormalizedLess(frac) ==                                         \* seeded fault
    [exp |-> 127 - 15 - Shift[frac], frac |-> (frac * 2 ^ Shift[frac]) % 1024]
Normalized(frac) ==
    [exp |-> 127 - 15 - Shift[frac] + 1, frac |-> (frac * 2 ^ Shift[frac]) % 1024]

HalfExp(h)  == (h \div 1024) % 32
HalfFrac(h) == h % 1024

fp16_to_fp32(h) ==
    LET exp  == HalfExp(h)
        frac == HalfFrac(h)
        out  == IF exp = 0 /\ frac = 0 THEN [exp |-> 0, frac |-> 0]
                ELSE IF exp = 0 THEN Normalized(frac)
                ELSE IF exp = 31 THEN [exp |-> 255, frac |-> frac]
                ELSE [exp |-> exp + (127 - 15), frac |-> frac]
    IN  [sign |-> h \div 32768, exp |-> out.exp, frac |-> out.frac * 2 ^ 13]

----------------------------------------------------------------------------
(* F32 is copied, F16 converted; for both a step is one element.           *)

Copy ==
    /\ Converting({"f32"})
    /\ Write([e \in {i} |-> [quant |-> Bits("qs", 0, 0, 8) \o Bits("qs", 1, 0, 8)
                                \o Bits("qs", 2, 0, 8) \o Bits("qs", 3, 0, 8)]])
    /\ NextBlock

ConvertHalf ==
    /\ Converting({"f16"})
    /\ Write([e \in {i} |-> fp16_to_fp32(call.halves[i + 1])])
    /\ NextBlock

----------------------------------------------------------------------------
(* The blocks of 32: byte b holds elements b and b + 16.                   *)

Nibble(member, index, half) == Bits(member, index, 4 * half, 4)

DeqQ4 ==
    /\ Converting({"q4_0", "q4_1"})
    /\ Write([e \in InBlock(0, 32) |->
                LET r == e % 32
                IN  Element(Nibble("qs", r % 16, r \div 16),
                            IF call.type = "q4_0" THEN -8 ELSE 0, <<>>, <<>>)])
    /\ NextBlock

(* Bit b of the four bytes of qh, read as one little-endian number.        *)
QhBit(b) == Bits("qh", b \div 8, b % 8, 1)

(* ((qh >> b) << 4) & 0x10 and (qh >> (b + 12)) & 0x10.                    *)
FifthBit(r) == IF r < 16 THEN QhBit(r) ELSE QhBit((r - 16) + 12 + 4)

DeqQ5 ==
    /\ Converting({"q5_0", "q5_1"})
    /\ Write([e \in InBlock(0, 32) |->
                LET r == e % 32
                IN  Element(Nibble("qs", r % 16, r \div 16) \o FifthBit(r),
                            IF call.type = "q5_0" THEN -16 ELSE 0, <<>>, <<>>)])
    /\ NextBlock

(* The bytes are signed.                                                   *)
DeqQ8 ==
    /\ Converting({"q8_0"})
    /\ Write([e \in InBlock(0, 32) |-> Element(Bits("qs", e % 32, 0, 8), -128, <<>>, <<>>)])
    /\ NextBlock

----------------------------------------------------------------------------
(* The blocks of 256: chunks of 64 elements, of 128 in q6_K.               *)

(* get_scale_min_k4.                                                       *)
ScaleBits(k) ==
    IF k < 4 THEN Bits("scales", k, 0, 6)
    ELSE Bits("scales", k + 4, 0, 4) \o Bits("scales", k - 4, 6, 2)

MinBitsOfScale(k) ==                                            \* seeded fault
    IF k < 4 THEN Bits("scales", k + 4, 0, 6)
    ELSE Bits("scales", k + 4, 4, 4) \o Bits("scales", k - 4, 6, 2)

MinBits(k) ==
    IF k < 4 THEN Bits("scales", k + 4, 0, 6)
    ELSE Bits("scales", k + 4, 4, 4) \o Bits("scales", k, 6, 2)

InChunk(types) == Converting(types) /\ j < 256

(* qh[l] & u1 and qh[l] & u2: the bits the masks leave.                    *)
MaskedBit(l, half) ==
    LET u == IF half = 0 THEN at.u1 ELSE at.u2
        bits == {k \in 0 .. 7 : 2 ^ k = u}
    IN  IF bits = {} THEN <<>> ELSE Bits("qh", at.h + l, CHOOSE k \in bits : TRUE, 1)

HighBit(l, half) == IF call.type = "q5_K" THEN MaskedBit(l, half) ELSE <<>>

(* Both halves of the nibbles of 32 bytes: two scales, two minima.         *)
Chunk64 ==
    [e \in InBlock(j, 64) |->
        LET r == e % 64
            l == r % 32
            half == r \div 32
        IN  Element(Nibble("qs", at.q + l, half) \o HighBit(l, half), 0,
                    ScaleBits(at.s + half), MinBits(at.s + half))]

NextChunk(size, pointers) ==
    /\ j' = j + size
    /\ at' = pointers
    /\ UNCHANGED <<call, pc, i>>

DeqQ4K ==
    /\ InChunk({"q4_K"})
    /\ Write(Chunk64)
    /\ NextChunk(64, [at EXCEPT !.q = @ + 32, !.s = @ + 2])

DeqQ5K ==
    /\ InChunk({"q5_K"})
    /\ Write(Chunk64)
    /\ NextChunk(64, [at EXCEPT !.q = @ + 32, !.s = @ + 2,
                                !.u1 = (4 * @) % 256, !.u2 = (4 * @) % 256])

(* Element l + 32 k takes two bits from qh[l] and one nibble from ql[l] or *)
(* ql[l + 32]; a signed scale belongs to 16 elements.                      *)
Chunk128 ==
    [e \in InBlock(j, 128) |->
        LET r == e % 128
            l == r % 32
            k == r \div 32
        IN  Element(Nibble("ql", at.q + l + 32 * (k % 2), k \div 2)
                        \o Bits("qh", at.h + l, 2 * k, 2),
                    -32, Bits("scales", at.s + (l \div 16) + 2 * k, 0, 8), <<>>)]

DeqQ6K ==
    /\ InChunk({"q6_K"})
    /\ Write(Chunk128)
    /\ NextChunk(128, [at EXCEPT !.q = @ + 64, !.h = @ + 32, !.s = @ + 8])

(* The pointers are set anew for the next block of 256.                    *)
EndSuperBlock ==
    /\ Converting({"q4_K", "q5_K", "q6_K"}) /\ j = 256
    /\ i' = i + 1 /\ j' = 0 /\ at' = Start
    /\ UNCHANGED <<call, pc, y>>

Return ==
    /\ pc = "convert" /\ i = call.n \div Per(call.type)
    /\ pc' = "done"
    /\ UNCHANGED <<call, i, j, at, y>>

Next ==
    \/ Refuse \/ Begin \/ Return
    \/ Copy \/ ConvertHalf
    \/ DeqQ4 \/ DeqQ5 \/ DeqQ8
    \/ DeqQ4K \/ DeqQ5K \/ DeqQ6K \/ EndSuperBlock

Spec == Init /\ [][Next]_vars

----------------------------------------------------------------------------
(* Properties.                                                             *)

(* The value of a half and of a single as mantissa * 2 ^ exponent.         *)
HalfValue(h) ==
    IF HalfExp(h) = 0 THEN [mantissa |-> HalfFrac(h), exponent |-> -24]
    ELSE [mantissa |-> 1024 + HalfFrac(h), exponent |-> HalfExp(h) - 25]

SingleValue(f) ==
    IF f.exp = 0 THEN [mantissa |-> f.frac, exponent |-> -149]
    ELSE [mantissa |-> 2 ^ 23 + f.frac, exponent |-> f.exp - 150]

SameValue(coarse, fine) ==
    LET steps == coarse.exponent - fine.exponent
    IN  \/ coarse.mantissa = 0 /\ fine.mantissa = 0
        \/ /\ steps \in 0 .. 23
           /\ fine.mantissa % 2 ^ steps = 0
           /\ fine.mantissa \div 2 ^ steps = coarse.mantissa

(* Every half becomes the single of the same value: the subnormals, which  *)
(* fp16_to_fp32 normalizes in a loop, both zeros, both infinities; what is *)
(* not a number stays so.                                                  *)
HalvesExact ==
    call.type = "f16" => \A e \in DOMAIN y :
        LET h == call.halves[e + 1]
        IN  /\ y[e].sign = h \div 2 ^ 15
            /\ IF HalfExp(h) = 31
               THEN y[e].exp = 255 /\ (y[e].frac = 0 <=> HalfFrac(h) = 0)
               ELSE y[e].exp < 255 /\ SameValue(HalfValue(h), SingleValue(y[e]))

(* How many bits an element has, and how many share a scale.               *)
Width == [f32 |-> 32, q4_0 |-> 4, q4_1 |-> 4, q5_0 |-> 5, q5_1 |-> 5, q8_0 |-> 8,
          q4_K |-> 4, q5_K |-> 5, q6_K |-> 6]
Group == [q4_K |-> 32, q5_K |-> 32, q6_K |-> 16]

(* All the bits that lie in some members of the blocks of the tensor.      *)
BitsOf(members) ==
    LET type == call.type
        bytes == UNION {LET from == b * Block[type][2] + Before(type, k)
                        IN  from .. from + Members[type][k][2] - 1 :
                        b \in 0 .. (call.n \div Per(type)) - 1,
                        k \in {m \in DOMAIN Members[type] : Members[type][m][1] \in members}}
    IN  bytes \X (0 .. 7)

BitsIn(s) == {s[k] : k \in DOMAIN s}

(* Every element is written, and every bit of the tensor that belongs to   *)
(* an element is used in exactly one place of one element: a bijection, as *)
(* there are as many places as bits.                                       *)
EveryBitOnce ==
    LET type == call.type
    IN  /\ DOMAIN y = 0 .. call.n - 1
        /\ \A e \in DOMAIN y : Len(y[e].quant) = Width[type]
        /\ UNION {BitsIn(y[e].quant) : e \in DOMAIN y} = BitsOf({"qs", "ql", "qh"})

(* An element is scaled by its own block.  The groups of a block of 256    *)
(* share the bits of their scale and minimum, no two groups share any, and *)
(* none is left over.                                                      *)
OwnBlock ==
    LET type == call.type
        from(e) == (e \div Per(type)) * Block[type][2]
    IN  \A e \in DOMAIN y :
            /\ y[e].d = from(e) + Offset(type, "d")
            /\ y[e].m = IF Has("m") THEN from(e) + Offset(type, "m") ELSE -1
            /\ y[e].lowest = IF Has("m") THEN 0 ELSE -(2 ^ (Width[type] - 1))

EveryScaleOnce ==
    LET first(e) == (e \div Group[call.type]) * Group[call.type]
        bits(e) == y[e].scale \o y[e].min
        heads == {e \in DOMAIN y : e = first(e)}
    IN  /\ \A e \in DOMAIN y : /\ y[e].scale = y[first(e)].scale
                               /\ y[e].min = y[first(e)].min
        /\ \A e \in heads : Len(y[e].scale) = IF Has("m") THEN 6 ELSE 8
        /\ \A e \in heads : Len(y[e].min) = IF Has("m") THEN 6 ELSE 0
        /\ UNION {BitsIn(bits(e)) : e \in heads} = BitsOf({"scales"})

(* What the loops of a conversion have written when it returns: the parts  *)
(* of every block, each once and in its place.                             *)
BlocksUnpacked ==
    pc = "done" =>
        /\ call.type # "f16" => EveryBitOnce
        /\ call.type \notin {"f16", "f32"} => OwnBlock
        /\ call.type \in DOMAIN Group => EveryScaleOnce
==============================================================================
