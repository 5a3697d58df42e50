----------------------------- MODULE QuantProofs -----------------------------
(***************************************************************************)
(* Proofs about Quant, for every call of quant_to_f32.                     *)
(***************************************************************************)
EXTENDS Quant, TLAPS

----------------------------------------------------------------------------
(***************************************************************************)
(* The conversion of halves.                                               *)
(***************************************************************************)
LEMMA PowersOfTwo ==
    /\ 2 ^ 0 = 1 /\ 2 ^ 1 = 2 /\ 2 ^ 2 = 4 /\ 2 ^ 3 = 8 /\ 2 ^ 4 = 16
    /\ 2 ^ 5 = 32 /\ 2 ^ 6 = 64 /\ 2 ^ 7 = 128 /\ 2 ^ 8 = 256 /\ 2 ^ 9 = 512
    /\ 2 ^ 10 = 1024 /\ 2 ^ 11 = 2048 /\ 2 ^ 12 = 4096 /\ 2 ^ 13 = 8192
    /\ 2 ^ 14 = 16384 /\ 2 ^ 15 = 32768 /\ 2 ^ 16 = 65536 /\ 2 ^ 17 = 131072
    /\ 2 ^ 18 = 262144 /\ 2 ^ 19 = 524288 /\ 2 ^ 20 = 1048576
    /\ 2 ^ 21 = 2097152 /\ 2 ^ 22 = 4194304 /\ 2 ^ 23 = 8388608
BY SMT

(* The fractions by the place of their highest bit.                        *)
ShiftOf(frac) ==
    IF frac >= 1024 THEN 0 ELSE IF frac >= 512 THEN 1 ELSE IF frac >= 256 THEN 2
    ELSE IF frac >= 128 THEN 3 ELSE IF frac >= 64 THEN 4 ELSE IF frac >= 32 THEN 5
    ELSE IF frac >= 16 THEN 6 ELSE IF frac >= 8 THEN 7 ELSE IF frac >= 4 THEN 8
    ELSE IF frac >= 2 THEN 9 ELSE 10

LEMMA ShiftIs == \A frac \in 1 .. 2047 : Shift[frac] = ShiftOf(frac)
<1> DEFINE all == 1 .. 2047
           high(frac) == frac >= 1024
           Recursion(g) == g = [frac \in all |-> IF high(frac) THEN 0 ELSE 1 + g[2 * frac]]
           witness == [frac \in all |-> ShiftOf(frac)]
<1>1. Recursion(witness)
  <2>1. ASSUME NEW frac \in all
        PROVE  ShiftOf(frac) = IF high(frac) THEN 0 ELSE 1 + witness[2 * frac]
    <3>1. ShiftOf(frac) = IF high(frac) THEN 0 ELSE 1 + ShiftOf(2 * frac)
      BY DEF ShiftOf
    <3>2. CASE high(frac)
      BY <3>1, <3>2
    <3>3. CASE ~high(frac)
      <4>1. 2 * frac \in all
        BY <3>3
      <4>2. witness[2 * frac] = ShiftOf(2 * frac)
        BY <4>1, SMTT(30)
      <4> HIDE DEF witness, high
      <4> QED
        BY <3>1, <3>3, <4>2
    <3> QED
      BY <3>2, <3>3, SMTT(30)
  <2> HIDE DEF all, high
  <2> DEFINE other == [frac \in all |-> IF high(frac) THEN 0 ELSE 1 + witness[2 * frac]]
  <2>2. witness = other
    <3> HIDE DEF witness
    <3>1. witness = [frac \in all |-> ShiftOf(frac)]
      BY DEF witness
    <3> QED
      BY <2>1, <3>1
  <2> HIDE DEF witness
  <2> QED
    BY <2>2
<1>2. Recursion(Shift)
  <2>1. Shift = CHOOSE g : Recursion(g)
    BY DEF Shift
  <2> HIDE DEF Recursion, witness
  <2> QED
    BY <1>1, <2>1
<1>3. ASSUME NEW frac \in 1 .. 2047
      PROVE  Shift[frac] = IF frac >= 1024 THEN 0 ELSE 1 + Shift[2 * frac]
  <2>1. frac \in all
    OBVIOUS
  <2>2. Shift[frac] = IF high(frac) THEN 0 ELSE 1 + Shift[2 * frac]
    <3> HIDE DEF all, high, witness
    <3> DEFINE other == [n \in all |-> IF high(n) THEN 0 ELSE 1 + Shift[2 * n]]
    <3>1. Shift = other
      BY <1>2
    <3>2. other[frac] = IF high(frac) THEN 0 ELSE 1 + Shift[2 * frac]
      BY <2>1
    <3> HIDE DEF other
    <3> QED
      BY <3>1, <3>2
  <2> QED
    BY <2>2
<1> HIDE DEF all, high, Recursion, witness
<1>4. ASSUME NEW frac \in 1024 .. 2047 PROVE Shift[frac] = 0
  <2>1. frac \in 1 .. 2047 /\ frac >= 1024
    OBVIOUS
  <2> QED
    BY <1>3, <2>1, SMTT(30)
<1>5. \A frac \in 512 .. 1023 : Shift[frac] = 1
  BY <1>3, <1>4, SMTT(30)
<1>6. \A frac \in 256 .. 511 : Shift[frac] = 2
  BY <1>3, <1>5, SMTT(30)
<1>7. \A frac \in 128 .. 255 : Shift[frac] = 3
  BY <1>3, <1>6, SMTT(30)
<1>8. \A frac \in 64 .. 127 : Shift[frac] = 4
  BY <1>3, <1>7, SMTT(30)
<1>9. \A frac \in 32 .. 63 : Shift[frac] = 5
  BY <1>3, <1>8, SMTT(30)
<1>10. \A frac \in 16 .. 31 : Shift[frac] = 6
  BY <1>3, <1>9, SMTT(30)
<1>11. \A frac \in 8 .. 15 : Shift[frac] = 7
  BY <1>3, <1>10, SMTT(30)
<1>12. \A frac \in 4 .. 7 : Shift[frac] = 8
  BY <1>3, <1>11, SMTT(30)
<1>13. \A frac \in 2 .. 3 : Shift[frac] = 9
  BY <1>3, <1>12, SMTT(30)
<1>14. \A frac \in 1 .. 1 : Shift[frac] = 10
  BY <1>3, <1>13, SMTT(30)
<1> QED
  BY <1>4, <1>5, <1>6, <1>7, <1>8, <1>9, <1>10, <1>11, <1>12, <1>13, <1>14, SMTT(30) DEF ShiftOf

(* The single f has the value of the half h.                               *)
Exact(h, f) ==
    /\ f.sign = h \div 2 ^ 15
    /\ IF HalfExp(h) = 31
       THEN f.exp = 255 /\ (f.frac = 0 <=> HalfFrac(h) = 0)
       ELSE f.exp < 255 /\ SameValue(HalfValue(h), SingleValue(f))

LEMMA SubnormalExact ==
    ASSUME NEW frac \in 1 .. 1023,
           NEW f, f.exp = Normalized(frac).exp, f.frac = Normalized(frac).frac * 2 ^ 13
    PROVE  /\ f.exp < 255
           /\ SameValue([mantissa |-> frac, exponent |-> -24], SingleValue(f))
<1>1. Shift[frac] \in 1 .. 10 /\ Shift[frac] = ShiftOf(frac)
  BY ShiftIs DEF ShiftOf
<1> DEFINE s == Shift[frac]
<1>2. PICK power \in Nat, below \in Nat :
           /\ power = 2 ^ s /\ below = 2 ^ (13 + s) /\ below = 8192 * power
           /\ power * frac \in 1024 .. 2047
           /\ (power * frac) % 1024 = power * frac - 1024
  <2>1. CASE s = 1
    <3>1. frac \in 512 .. 1023
      BY <1>1, <2>1 DEF ShiftOf
    <3>2. 2 ^ s = 2 /\ 2 ^ (13 + s) = 16384
      <4>1. 13 + 1 = 14
        OBVIOUS
      <4> QED
        BY <2>1, <4>1, PowersOfTwo
    <3> WITNESS 2 \in Nat, 16384 \in Nat
    <3> QED
      BY <3>1, <3>2, SMT
  <2>2. CASE s = 2
    <3>1. frac \in 256 .. 511
      BY <1>1, <2>2 DEF ShiftOf
    <3>2. 2 ^ s = 4 /\ 2 ^ (13 + s) = 32768
      <4>1. 13 + 2 = 15
        OBVIOUS
      <4> QED
        BY <2>2, <4>1, PowersOfTwo
    <3> WITNESS 4 \in Nat, 32768 \in Nat
    <3> QED
      BY <3>1, <3>2, SMT
  <2>3. CASE s = 3
    <3>1. frac \in 128 .. 255
      BY <1>1, <2>3 DEF ShiftOf
    <3>2. 2 ^ s = 8 /\ 2 ^ (13 + s) = 65536
      <4>1. 13 + 3 = 16
        OBVIOUS
      <4> QED
        BY <2>3, <4>1, PowersOfTwo
    <3> WITNESS 8 \in Nat, 65536 \in Nat
    <3> QED
      BY <3>1, <3>2, SMT
  <2>4. CASE s = 4
    <3>1. frac \in 64 .. 127
      BY <1>1, <2>4 DEF ShiftOf
    <3>2. 2 ^ s = 16 /\ 2 ^ (13 + s) = 131072
      <4>1. 13 + 4 = 17
        OBVIOUS
      <4> QED
        BY <2>4, <4>1, PowersOfTwo
    <3> WITNESS 16 \in Nat, 131072 \in Nat
    <3> QED
      BY <3>1, <3>2, SMT
  <2>5. CASE s = 5
    <3>1. frac \in 32 .. 63
      BY <1>1, <2>5 DEF ShiftOf
    <3>2. 2 ^ s = 32 /\ 2 ^ (13 + s) = 262144
      <4>1. 13 + 5 = 18
        OBVIOUS
      <4> QED
        BY <2>5, <4>1, PowersOfTwo
    <3> WITNESS 32 \in Nat, 262144 \in Nat
    <3> QED
      BY <3>1, <3>2, SMT
  <2>6. CASE s = 6
    <3>1. frac \in 16 .. 31
      BY <1>1, <2>6 DEF ShiftOf
    <3>2. 2 ^ s = 64 /\ 2 ^ (13 + s) = 524288
      <4>1. 13 + 6 = 19
        OBVIOUS
      <4> QED
        BY <2>6, <4>1, PowersOfTwo
    <3> WITNESS 64 \in Nat, 524288 \in Nat
    <3> QED
      BY <3>1, <3>2, SMT
  <2>7. CASE s = 7
    <3>1. frac \in 8 .. 15
      BY <1>1, <2>7 DEF ShiftOf
    <3>2. 2 ^ s = 128 /\ 2 ^ (13 + s) = 1048576
      <4>1. 13 + 7 = 20
        OBVIOUS
      <4> QED
        BY <2>7, <4>1, PowersOfTwo
    <3> WITNESS 128 \in Nat, 1048576 \in Nat
    <3> QED
      BY <3>1, <3>2, SMT
  <2>8. CASE s = 8
    <3>1. frac \in 4 .. 7
      BY <1>1, <2>8 DEF ShiftOf
    <3>2. 2 ^ s = 256 /\ 2 ^ (13 + s) = 2097152
      <4>1. 13 + 8 = 21
        OBVIOUS
      <4> QED
        BY <2>8, <4>1, PowersOfTwo
    <3> WITNESS 256 \in Nat, 2097152 \in Nat
    <3> QED
      BY <3>1, <3>2, SMT
  <2>9. CASE s = 9
    <3>1. frac \in 2 .. 3
      BY <1>1, <2>9 DEF ShiftOf
    <3>2. 2 ^ s = 512 /\ 2 ^ (13 + s) = 4194304
      <4>1. 13 + 9 = 22
        OBVIOUS
      <4> QED
        BY <2>9, <4>1, PowersOfTwo
    <3> WITNESS 512 \in Nat, 4194304 \in Nat
    <3> QED
      BY <3>1, <3>2, SMT
  <2>10. CASE s = 10
    <3>1. frac \in 1 .. 1
      BY <1>1, <2>10 DEF ShiftOf
    <3>2. 2 ^ s = 1024 /\ 2 ^ (13 + s) = 8388608
      <4>1. 13 + 10 = 23
        OBVIOUS
      <4> QED
        BY <2>10, <4>1, PowersOfTwo
    <3> WITNESS 1024 \in Nat, 8388608 \in Nat
    <3> QED
      BY <3>1, <3>2, SMT
  <2> QED
    BY <1>1, <2>1, <2>2, <2>3, <2>4, <2>5, <2>6, <2>7, <2>8, <2>9, <2>10
<1>3. f.exp = 113 - s /\ f.frac = (power * frac - 1024) * 8192
  BY <1>1, <1>2, PowersOfTwo, SMT DEF Normalized
<1>4. SingleValue(f) = [mantissa |-> 8388608 + (power * frac - 1024) * 8192,
                        exponent |-> (113 - s) - 150]
  BY <1>1, <1>3, PowersOfTwo, SMT DEF SingleValue
<1>5. 8388608 + (power * frac - 1024) * 8192 = below * frac
  BY <1>2, SMT
<1>6. (below * frac) % below = 0 /\ (below * frac) \div below = frac
  <2>1. CASE s = 1
    <3>1. below = 16384
      <4>1. 13 + 1 = 14
        BY SMT
      <4> QED
        BY <1>2, <2>1, <4>1, PowersOfTwo, SMT
    <3> QED
      BY <3>1, SMT
  <2>2. CASE s = 2
    <3>1. below = 32768
      <4>1. 13 + 2 = 15
        BY SMT
      <4> QED
        BY <1>2, <2>2, <4>1, PowersOfTwo, SMT
    <3> QED
      BY <3>1, SMT
  <2>3. CASE s = 3
    <3>1. below = 65536
      <4>1. 13 + 3 = 16
        BY SMT
      <4> QED
        BY <1>2, <2>3, <4>1, PowersOfTwo, SMT
    <3> QED
      BY <3>1, SMT
  <2>4. CASE s = 4
    <3>1. below = 131072
      <4>1. 13 + 4 = 17
        BY SMT
      <4> QED
        BY <1>2, <2>4, <4>1, PowersOfTwo, SMT
    <3> QED
      BY <3>1, SMT
  <2>5. CASE s = 5
    <3>1. below = 262144
      <4>1. 13 + 5 = 18
        BY SMT
      <4> QED
        BY <1>2, <2>5, <4>1, PowersOfTwo, SMT
    <3> QED
      BY <3>1, SMT
  <2>6. CASE s = 6
    <3>1. below = 524288
      <4>1. 13 + 6 = 19
        BY SMT
      <4> QED
        BY <1>2, <2>6, <4>1, PowersOfTwo, SMT
    <3> QED
      BY <3>1, SMT
  <2>7. CASE s = 7
    <3>1. below = 1048576
      <4>1. 13 + 7 = 20
        BY SMT
      <4> QED
        BY <1>2, <2>7, <4>1, PowersOfTwo, SMT
    <3> QED
      BY <3>1, SMT
  <2>8. CASE s = 8
    <3>1. below = 2097152
      <4>1. 13 + 8 = 21
        BY SMT
      <4> QED
        BY <1>2, <2>8, <4>1, PowersOfTwo, SMT
    <3> QED
      BY <3>1, SMT
  <2>9. CASE s = 9
    <3>1. below = 4194304
      <4>1. 13 + 9 = 22
        BY SMT
      <4> QED
        BY <1>2, <2>9, <4>1, PowersOfTwo, SMT
    <3> QED
      BY <3>1, SMT
  <2>10. CASE s = 10
    <3>1. below = 8388608
      <4>1. 13 + 10 = 23
        BY SMT
      <4> QED
        BY <1>2, <2>10, <4>1, PowersOfTwo, SMT
    <3> QED
      BY <3>1, SMT
  <2> QED
    BY <1>1, <2>1, <2>2, <2>3, <2>4, <2>5, <2>6, <2>7, <2>8, <2>9, <2>10, SMT
<1>7. SameValue([mantissa |-> frac, exponent |-> -24],
                [mantissa |-> below * frac, exponent |-> (113 - s) - 150])
  <2> DEFINE steps == -24 - ((113 - s) - 150)
  <2>1. steps = 13 + s /\ steps \in 0 .. 23
    BY <1>1, SMT
  <2>2. 2 ^ steps = below
    <3> HIDE DEF steps
    <3> QED
      BY <1>2, <2>1, SMT
  <2> HIDE DEF s
  <2> QED
    BY <1>6, <2>1, <2>2, SMT DEF SameValue
<1> QED
  BY <1>1, <1>3, <1>4, <1>5, <1>7, SMT

LEMMA HalfExact ==
    ASSUME NEW h \in Halves, NEW f, f = fp16_to_fp32(h)
    PROVE  Exact(h, f)
<1> DEFINE exp == HalfExp(h)
           frac == HalfFrac(h)
<1>1. exp \in 0 .. 31 /\ frac \in 0 .. 1023
  <2>1. h \in Nat
    BY PowersOfTwo, SMT DEF Halves
  <2>2. h < 65536
    BY PowersOfTwo, SMT DEF Halves
  <2> QED
    BY <2>1, <2>2, SMT DEF HalfExp, HalfFrac
<1>2. f.sign = h \div 2 ^ 15
  BY PowersOfTwo, SMT DEF fp16_to_fp32
<1>3. CASE exp = 0 /\ frac = 0
  <2>1. f.exp = 0 /\ f.frac = 0
    BY <1>3, PowersOfTwo, SMT DEF fp16_to_fp32
  <2>2. HalfValue(h) = [mantissa |-> 0, exponent |-> -24]
    BY <1>3, SMT DEF HalfValue
  <2>3. SingleValue(f) = [mantissa |-> 0, exponent |-> -149]
    BY <2>1, SMT DEF SingleValue
  <2> QED
    BY <1>2, <1>3, <2>1, <2>2, <2>3, SMT DEF Exact, SameValue
<1>4. CASE exp = 0 /\ frac # 0
  <2>1. f.exp = Normalized(frac).exp /\ f.frac = Normalized(frac).frac * 2 ^ 13
    BY <1>4, SMT DEF fp16_to_fp32
  <2>2. HalfValue(h) = [mantissa |-> frac, exponent |-> -24]
    BY <1>4, SMT DEF HalfValue
  <2>3. f.exp < 255 /\ SameValue(HalfValue(h), SingleValue(f))
    <3>1. frac \in 1 .. 1023
      BY <1>1, <1>4, SMT
    <3> HIDE DEF frac
    <3>2. f.exp < 255 /\ SameValue([mantissa |-> frac, exponent |-> -24], SingleValue(f))
      BY <2>1, <3>1, SubnormalExact
    <3> QED
      BY <2>2, <3>2
  <2> QED
    BY <1>2, <1>4, <2>3, SMT DEF Exact
<1>5. CASE exp = 31
  <2>1. f.exp = 255 /\ f.frac = frac * 8192
    BY <1>5, PowersOfTwo, SMT DEF fp16_to_fp32
  <2> QED
    BY <1>1, <1>2, <1>5, <2>1, SMT DEF Exact
<1>6. CASE exp # 0 /\ exp # 31
  <2>1. f.exp = exp + 112 /\ f.frac = frac * 8192
    BY <1>1, <1>6, PowersOfTwo, SMT DEF fp16_to_fp32
  <2>2. HalfValue(h) = [mantissa |-> 1024 + frac, exponent |-> exp - 25]
    BY <1>6, SMT DEF HalfValue
  <2>3. SingleValue(f) = [mantissa |-> 8388608 + frac * 8192, exponent |-> (exp + 112) - 150]
    BY <1>1, <1>6, <2>1, PowersOfTwo, SMT DEF SingleValue
  <2>4. (exp - 25) - ((exp + 112) - 150) = 13 /\ 13 \in 0 .. 23
    BY <1>1, SMT
  <2>5. /\ (8388608 + frac * 8192) % 8192 = 0
        /\ (8388608 + frac * 8192) \div 8192 = 1024 + frac
    <3> HIDE DEF frac
    <3> QED
      BY <1>1, SMT
  <2> HIDE DEF exp, frac
  <2>6. SameValue([mantissa |-> 1024 + frac, exponent |-> exp - 25],
                  [mantissa |-> 8388608 + frac * 8192, exponent |-> (exp + 112) - 150])
    <3> DEFINE steps == (exp - 25) - ((exp + 112) - 150)
    <3>1. 2 ^ steps = 8192
      <4> HIDE DEF steps
      <4>1. steps = 13
        BY <2>4 DEF steps
      <4> QED
        BY <4>1, PowersOfTwo, SMT
    <3>2. steps \in 0 .. 23
      BY <2>4, SMT
    <3> DEFINE fine == 8388608 + frac * 8192
               coarse == 1024 + frac
    <3>3. fine % 2 ^ steps = 0 /\ fine \div 2 ^ steps = coarse
      <4> HIDE DEF steps
      <4> QED
        BY <2>5, <3>1, SMT
    <3> HIDE DEF fine, coarse
    <3>4. SameValue([mantissa |-> coarse, exponent |-> exp - 25],
                    [mantissa |-> fine, exponent |-> (exp + 112) - 150])
      BY <1>1, <3>2, <3>3, SMT DEF SameValue
    <3> QED
      BY <3>4, SMT DEF fine, coarse
  <2> QED
    BY <1>1, <1>2, <1>6, <2>1, <2>2, <2>3, <2>6, SMT DEF Exact, exp
<1> QED
  BY <1>3, <1>4, <1>5, <1>6, SMT

----------------------------------------------------------------------------
(* What an f16 tensor has been converted to so far.                        *)
HalvesWritten ==
    /\ call \in Calls
    /\ i \in Nat
    /\ call.type = "f16" =>
           \A e \in DOMAIN y : /\ e \in 0 .. call.n - 1
                               /\ y[e] = fp16_to_fp32(call.halves[e + 1])

LEMMA HalvesWrittenInit == Init => HalvesWritten
BY DEF Init, HalvesWritten

LEMMA HalvesWrittenStep == HalvesWritten /\ [Next]_vars => HalvesWritten'
<1> SUFFICES ASSUME HalvesWritten, [Next]_vars PROVE HalvesWritten'
  OBVIOUS
<1>1. CASE ConvertHalf
  <2>1. i < call.n \div 1 /\ i \in Nat /\ call.n \in Nat /\ call.type = "f16"
    BY <1>1, CallAssumption DEF ConvertHalf, Converting, HalvesWritten, Per, Block
  <2>2. i \in 0 .. call.n - 1 /\ i + 1 \in Nat
    BY <2>1
  <2> DEFINE new == [e \in {i} |-> fp16_to_fp32(call.halves[i + 1])]
  <2>3. y' = [e \in DOMAIN new \cup DOMAIN y |-> IF e \in DOMAIN new THEN new[e] ELSE y[e]]
    BY <1>1 DEF ConvertHalf, Write
  <2>4. DOMAIN new = {i} /\ new[i] = fp16_to_fp32(call.halves[i + 1])
    OBVIOUS
  <2>5. call' = call /\ i' = i + 1
    BY <1>1 DEF ConvertHalf, NextBlock
  <2> HIDE DEF new
  <2>6. ASSUME NEW e \in DOMAIN y'
        PROVE  e \in 0 .. call.n - 1 /\ y'[e] = fp16_to_fp32(call.halves[e + 1])
    <3>1. CASE e = i
      BY <2>2, <2>3, <2>4, <3>1
    <3>2. CASE e # i
      <4>1. e \in DOMAIN y /\ y'[e] = y[e]
        BY <2>3, <2>4, <3>2
      <4> QED
        BY <2>1, <4>1 DEF HalvesWritten
    <3> QED
      BY <3>1, <3>2
  <2>7. /\ call' \in Calls /\ i' \in Nat
        /\ \A e \in DOMAIN y' : /\ e \in 0 .. call'.n - 1
                                /\ y'[e] = fp16_to_fp32(call'.halves[e + 1])
    BY <2>2, <2>5, <2>6 DEF HalvesWritten
  <2> QED
    BY <2>7 DEF HalvesWritten
<1>2. CASE Copy \/ DeqQ4 \/ DeqQ5 \/ DeqQ8 \/ DeqQ4K \/ DeqQ5K \/ DeqQ6K
  <2>1. call.type # "f16" /\ call' = call /\ i' \in {i, i + 1}
    BY <1>2 DEF Copy, DeqQ4, DeqQ5, DeqQ8, DeqQ4K, DeqQ5K, DeqQ6K, InChunk, Converting,
                NextBlock, NextChunk
  <2> QED
    BY <2>1 DEF HalvesWritten
<1>3. CASE Refuse \/ Begin \/ Return \/ EndSuperBlock \/ UNCHANGED vars
  <2>1. call' = call /\ i' \in {i, i + 1} /\ y' = y
    BY <1>3 DEF Refuse, Begin, Return, EndSuperBlock, vars
  <2> QED
    BY <2>1 DEF HalvesWritten
<1> QED
  BY <1>1, <1>2, <1>3 DEF Next

(* fp16_to_fp32 changes the value of no half: the subnormals that its loop *)
(* normalizes, both zeros and infinities, and what is not a number.        *)
THEOREM HalvesExactHolds == Spec => []HalvesExact
<1>1. HalvesWritten => HalvesExact
  <2> SUFFICES ASSUME HalvesWritten, call.type = "f16", NEW e \in DOMAIN y
               PROVE  Exact(call.halves[e + 1], y[e])
    BY DEF HalvesExact, Exact
  <2>1. e \in 0 .. call.n - 1 /\ y[e] = fp16_to_fp32(call.halves[e + 1])
    BY DEF HalvesWritten
  <2>2. call.n \in Nat /\ call.halves \in [1 .. call.n -> Halves]
    BY CallAssumption DEF HalvesWritten
  <2>3. call.halves[e + 1] \in Halves
    <3>1. e + 1 \in 1 .. call.n
      BY <2>1, <2>2
    <3> QED
      BY <2>2, <3>1
  <2> QED
    BY <2>1, <2>3, HalfExact
<1> QED
  BY HalvesWrittenInit, HalvesWrittenStep, <1>1, PTL DEF Spec

----------------------------------------------------------------------------
(***************************************************************************)
(* Where the members of the block structures begin.                        *)
(***************************************************************************)
LEMMA BeforeIs ==
    ASSUME NEW type, NEW n \in 1 .. 5,
           \A k \in 1 .. n - 1 : Members[type][k][2] \in Nat
    PROVE  Before(type, n) =
               LET size(k) == Members[type][k][2]
               IN  IF n = 1 THEN 0 ELSE IF n = 2 THEN size(1) ELSE IF n = 3 THEN size(1) + size(2)
                   ELSE IF n = 4 THEN size(1) + size(2) + size(3)
                   ELSE size(1) + size(2) + size(3) + size(4)
<1> DEFINE size(k) == Members[type][k][2]
           Recursion(g) == g = [k \in 1 .. n |-> IF k = 1 THEN 0 ELSE g[k - 1] + size(k - 1)]
           total(k) == IF k = 1 THEN 0 ELSE IF k = 2 THEN size(1)
                       ELSE IF k = 3 THEN size(1) + size(2)
                       ELSE IF k = 4 THEN size(1) + size(2) + size(3)
                       ELSE size(1) + size(2) + size(3) + size(4)
           witness == [k \in 1 .. n |-> total(k)]
<1>1. \A k \in 1 .. n - 1 : size(k) \in Nat
  OBVIOUS
<1>2. ASSUME NEW k \in 1 .. n
      PROVE  total(k) = IF k = 1 THEN 0 ELSE total(k - 1) + size(k - 1)
  <2>1. k = 1 \/ k = 2 \/ k = 3 \/ k = 4 \/ k = 5
    OBVIOUS
  <2> HIDE DEF size
  <2> QED
    BY <1>1, <2>1
<1>3. Recursion(witness)
  <2> HIDE DEF size, total
  <2>1. ASSUME NEW k \in 1 .. n
        PROVE  total(k) = IF k = 1 THEN 0 ELSE witness[k - 1] + size(k - 1)
    <3>1. k # 1 => witness[k - 1] = total(k - 1)
      OBVIOUS
    <3> HIDE DEF witness
    <3> QED
      BY <1>2, <3>1
  <2> DEFINE other == [k \in 1 .. n |-> IF k = 1 THEN 0 ELSE witness[k - 1] + size(k - 1)]
  <2>2. witness = other
    <3> HIDE DEF witness
    <3>1. witness = [k \in 1 .. n |-> total(k)]
      BY DEF witness
    <3> QED
      BY <2>1, <3>1
  <2> HIDE DEF witness
  <2> QED
    BY <2>2
<1> DEFINE sum == CHOOSE g : Recursion(g)
<1>4. Recursion(sum)
  <2> HIDE DEF Recursion, witness
  <2> QED
    BY <1>3
<1>5. Before(type, n) = sum[n]
  BY Zenon DEF Before
<1> HIDE DEF sum
<1>6. ASSUME NEW k \in 1 .. n PROVE sum[k] = IF k = 1 THEN 0 ELSE sum[k - 1] + size(k - 1)
  <2> HIDE DEF size, total
  <2> QED
    BY <1>4
<1> HIDE DEF Recursion, size
<1>7. sum[1] = 0
  BY <1>6
<1>8. n > 1 => sum[2] = size(1)
  BY <1>1, <1>6, <1>7
<1>9. n > 2 => sum[3] = size(1) + size(2)
  BY <1>1, <1>6, <1>8
<1>10. n > 3 => sum[4] = size(1) + size(2) + size(3)
  BY <1>1, <1>6, <1>9
<1>11. n > 4 => sum[5] = size(1) + size(2) + size(3) + size(4)
  BY <1>1, <1>6, <1>10
<1> QED
  BY <1>5, <1>7, <1>8, <1>9, <1>10, <1>11 DEF size

LEMMA BeforeFirst == ASSUME NEW type PROVE Before(type, 1) = 0
BY BeforeIs

LEMMA BeforeSecond ==
    ASSUME NEW type, Members[type][1][2] \in Nat
    PROVE  Before(type, 2) = Members[type][1][2]
<1>1. 2 \in 1 .. 5 /\ \A k \in 1 .. 2 - 1 : Members[type][k][2] \in Nat
  <2>1. \A k \in 1 .. 2 - 1 : k = 1
    OBVIOUS
  <2> QED
    BY <2>1
<1> QED
  BY <1>1, BeforeIs

LEMMA BeforeThird ==
    ASSUME NEW type, Members[type][1][2] \in Nat, Members[type][2][2] \in Nat
    PROVE  Before(type, 3) = Members[type][1][2] + Members[type][2][2]
<1>1. 3 \in 1 .. 5 /\ \A k \in 1 .. 3 - 1 : Members[type][k][2] \in Nat
  <2>1. \A k \in 1 .. 3 - 1 : k = 1 \/ k = 2
    OBVIOUS
  <2> QED
    BY <2>1
<1> QED
  BY <1>1, BeforeIs

LEMMA BeforeFourth ==
    ASSUME NEW type, Members[type][1][2] \in Nat, Members[type][2][2] \in Nat,
           Members[type][3][2] \in Nat
    PROVE  Before(type, 4) = Members[type][1][2] + Members[type][2][2] + Members[type][3][2]
<1>1. 4 \in 1 .. 5 /\ \A k \in 1 .. 4 - 1 : Members[type][k][2] \in Nat
  <2>1. \A k \in 1 .. 4 - 1 : k = 1 \/ k = 2 \/ k = 3
    OBVIOUS
  <2> QED
    BY <2>1
<1> QED
  BY <1>1, BeforeIs

LEMMA BeforeFifth ==
    ASSUME NEW type, Members[type][1][2] \in Nat, Members[type][2][2] \in Nat,
           Members[type][3][2] \in Nat, Members[type][4][2] \in Nat
    PROVE  Before(type, 5) = Members[type][1][2] + Members[type][2][2]
                                 + Members[type][3][2] + Members[type][4][2]
<1>1. 5 \in 1 .. 5 /\ \A k \in 1 .. 5 - 1 : Members[type][k][2] \in Nat
  <2>1. \A k \in 1 .. 5 - 1 : k = 1 \/ k = 2 \/ k = 3 \/ k = 4
    OBVIOUS
  <2> QED
    BY <2>1
<1> QED
  BY <1>1, BeforeIs

LEMMA OffsetIs ==
    ASSUME NEW type, NEW member, NEW n \in DOMAIN Members[type],
           \A k \in DOMAIN Members[type] : Members[type][k][1] = member <=> k = n
    PROVE  Offset(type, member) = Before(type, n)
<1>1. (CHOOSE k \in DOMAIN Members[type] : Members[type][k][1] = member) = n
  OBVIOUS
<1> QED
  BY <1>1, Zenon DEF Offset

LEMMA Layout_f32 ==
    /\ Per("f32") = 1 /\ Block["f32"][2] = 4 /\ DOMAIN Members["f32"] = 1 .. 1
    /\ Members["f32"][1][2] = 4
    /\ Members["f32"][1][1] = "qs"
    /\ Before("f32", 1) = 0
    /\ Offset("f32", "qs") = 0
<1> DEFINE all == Members["f32"]
<1>1. Per("f32") = 1 /\ Block["f32"][2] = 4
  BY DEF Per, Block
<1>2. all = <<<<"qs", 4>>>>
  BY DEF Members
<1>3. /\ DOMAIN all = 1 .. 1
      /\ all[1][1] = "qs" /\ all[1][2] = 4
  BY <1>2
<1> HIDE DEF all
<1>4. Before("f32", 1) = 0
  BY <1>3, BeforeFirst DEF all
<1>5. Offset("f32", "qs") = 0
  <2>1. 1 \in DOMAIN all /\ \A k \in DOMAIN all : all[k][1] = "qs" <=> k = 1
    BY <1>3
  <2> QED
    BY <1>4, <2>1, OffsetIs DEF all
<1> QED
  BY <1>1, <1>3, <1>4, <1>5 DEF all

LEMMA Layout_q4_0 ==
    /\ Per("q4_0") = 32 /\ Block["q4_0"][2] = 18 /\ DOMAIN Members["q4_0"] = 1 .. 2
    /\ Members["q4_0"][1][2] = 2 /\ Members["q4_0"][2][2] = 16
    /\ Members["q4_0"][1][1] = "d" /\ Members["q4_0"][2][1] = "qs"
    /\ Before("q4_0", 1) = 0 /\ Before("q4_0", 2) = 2
    /\ Offset("q4_0", "d") = 0 /\ Offset("q4_0", "qs") = 2
<1> DEFINE all == Members["q4_0"]
<1>1. Per("q4_0") = 32 /\ Block["q4_0"][2] = 18
  BY DEF Per, Block
<1>2. all = <<<<"d", 2>>, <<"qs", 16>>>>
  BY DEF Members
<1>3. /\ DOMAIN all = 1 .. 2
      /\ all[1][1] = "d" /\ all[1][2] = 2
      /\ all[2][1] = "qs" /\ all[2][2] = 16
  BY <1>2
<1> HIDE DEF all
<1>4. Before("q4_0", 1) = 0
  BY <1>3, BeforeFirst DEF all
<1>5. Before("q4_0", 2) = 2
  BY <1>3, BeforeSecond DEF all
<1>6. Offset("q4_0", "d") = 0
  <2>1. 1 \in DOMAIN all /\ \A k \in DOMAIN all : all[k][1] = "d" <=> k = 1
    BY <1>3
  <2> QED
    BY <1>4, <2>1, OffsetIs DEF all
<1>7. Offset("q4_0", "qs") = 2
  <2>1. 2 \in DOMAIN all /\ \A k \in DOMAIN all : all[k][1] = "qs" <=> k = 2
    BY <1>3
  <2> QED
    BY <1>5, <2>1, OffsetIs DEF all
<1> QED
  BY <1>1, <1>3, <1>4, <1>5, <1>6, <1>7 DEF all

LEMMA Layout_q4_1 ==
    /\ Per("q4_1") = 32 /\ Block["q4_1"][2] = 20 /\ DOMAIN Members["q4_1"] = 1 .. 3
    /\ Members["q4_1"][1][2] = 2 /\ Members["q4_1"][2][2] = 2 /\ Members["q4_1"][3][2] = 16
    /\ Members["q4_1"][1][1] = "d" /\ Members["q4_1"][2][1] = "m"
    /\ Members["q4_1"][3][1] = "qs"
    /\ Before("q4_1", 1) = 0 /\ Before("q4_1", 2) = 2 /\ Before("q4_1", 3) = 4
    /\ Offset("q4_1", "d") = 0 /\ Offset("q4_1", "m") = 2 /\ Offset("q4_1", "qs") = 4
<1> DEFINE all == Members["q4_1"]
<1>1. Per("q4_1") = 32 /\ Block["q4_1"][2] = 20
  BY DEF Per, Block
<1>2. all = <<<<"d", 2>>, <<"m", 2>>, <<"qs", 16>>>>
  BY DEF Members
<1>3. /\ DOMAIN all = 1 .. 3
      /\ all[1][1] = "d" /\ all[1][2] = 2
      /\ all[2][1] = "m" /\ all[2][2] = 2
      /\ all[3][1] = "qs" /\ all[3][2] = 16
  BY <1>2
<1> HIDE DEF all
<1>4. Before("q4_1", 1) = 0
  BY <1>3, BeforeFirst DEF all
<1>5. Before("q4_1", 2) = 2
  BY <1>3, BeforeSecond DEF all
<1>6. Before("q4_1", 3) = 4
  BY <1>3, BeforeThird DEF all
<1>7. Offset("q4_1", "d") = 0
  <2>1. 1 \in DOMAIN all /\ \A k \in DOMAIN all : all[k][1] = "d" <=> k = 1
    BY <1>3
  <2> QED
    BY <1>4, <2>1, OffsetIs DEF all
<1>8. Offset("q4_1", "m") = 2
  <2>1. 2 \in DOMAIN all /\ \A k \in DOMAIN all : all[k][1] = "m" <=> k = 2
    BY <1>3
  <2> QED
    BY <1>5, <2>1, OffsetIs DEF all
<1>9. Offset("q4_1", "qs") = 4
  <2>1. 3 \in DOMAIN all /\ \A k \in DOMAIN all : all[k][1] = "qs" <=> k = 3
    BY <1>3
  <2> QED
    BY <1>6, <2>1, OffsetIs DEF all
<1> QED
  BY <1>1, <1>3, <1>4, <1>5, <1>6, <1>7, <1>8, <1>9 DEF all

LEMMA Layout_q5_0 ==
    /\ Per("q5_0") = 32 /\ Block["q5_0"][2] = 22 /\ DOMAIN Members["q5_0"] = 1 .. 3
    /\ Members["q5_0"][1][2] = 2 /\ Members["q5_0"][2][2] = 4 /\ Members["q5_0"][3][2] = 16
    /\ Members["q5_0"][1][1] = "d" /\ Members["q5_0"][2][1] = "qh"
    /\ Members["q5_0"][3][1] = "qs"
    /\ Before("q5_0", 1) = 0 /\ Before("q5_0", 2) = 2 /\ Before("q5_0", 3) = 6
    /\ Offset("q5_0", "d") = 0 /\ Offset("q5_0", "qh") = 2 /\ Offset("q5_0", "qs") = 6
<1> DEFINE all == Members["q5_0"]
<1>1. Per("q5_0") = 32 /\ Block["q5_0"][2] = 22
  BY DEF Per, Block
<1>2. all = <<<<"d", 2>>, <<"qh", 4>>, <<"qs", 16>>>>
  BY DEF Members
<1>3. /\ DOMAIN all = 1 .. 3
      /\ all[1][1] = "d" /\ all[1][2] = 2
      /\ all[2][1] = "qh" /\ all[2][2] = 4
      /\ all[3][1] = "qs" /\ all[3][2] = 16
  BY <1>2
<1> HIDE DEF all
<1>4. Before("q5_0", 1) = 0
  BY <1>3, BeforeFirst DEF all
<1>5. Before("q5_0", 2) = 2
  BY <1>3, BeforeSecond DEF all
<1>6. Before("q5_0", 3) = 6
  BY <1>3, BeforeThird DEF all
<1>7. Offset("q5_0", "d") = 0
  <2>1. 1 \in DOMAIN all /\ \A k \in DOMAIN all : all[k][1] = "d" <=> k = 1
    BY <1>3
  <2> QED
    BY <1>4, <2>1, OffsetIs DEF all
<1>8. Offset("q5_0", "qh") = 2
  <2>1. 2 \in DOMAIN all /\ \A k \in DOMAIN all : all[k][1] = "qh" <=> k = 2
    BY <1>3
  <2> QED
    BY <1>5, <2>1, OffsetIs DEF all
<1>9. Offset("q5_0", "qs") = 6
  <2>1. 3 \in DOMAIN all /\ \A k \in DOMAIN all : all[k][1] = "qs" <=> k = 3
    BY <1>3
  <2> QED
    BY <1>6, <2>1, OffsetIs DEF all
<1> QED
  BY <1>1, <1>3, <1>4, <1>5, <1>6, <1>7, <1>8, <1>9 DEF all

LEMMA Layout_q5_1 ==
    /\ Per("q5_1") = 32 /\ Block["q5_1"][2] = 24 /\ DOMAIN Members["q5_1"] = 1 .. 4
    /\ Members["q5_1"][1][2] = 2 /\ Members["q5_1"][2][2] = 2
    /\ Members["q5_1"][3][2] = 4 /\ Members["q5_1"][4][2] = 16
    /\ Members["q5_1"][1][1] = "d" /\ Members["q5_1"][2][1] = "m"
    /\ Members["q5_1"][3][1] = "qh" /\ Members["q5_1"][4][1] = "qs"
    /\ Before("q5_1", 1) = 0 /\ Before("q5_1", 2) = 2 /\ Before("q5_1", 3) = 4
    /\ Before("q5_1", 4) = 8
    /\ Offset("q5_1", "d") = 0 /\ Offset("q5_1", "m") = 2 /\ Offset("q5_1", "qh") = 4
    /\ Offset("q5_1", "qs") = 8
<1> DEFINE all == Members["q5_1"]
<1>1. Per("q5_1") = 32 /\ Block["q5_1"][2] = 24
  BY DEF Per, Block
<1>2. all = <<<<"d", 2>>, <<"m", 2>>, <<"qh", 4>>, <<"qs", 16>>>>
  BY DEF Members
<1>3. /\ DOMAIN all = 1 .. 4
      /\ all[1][1] = "d" /\ all[1][2] = 2
      /\ all[2][1] = "m" /\ all[2][2] = 2
      /\ all[3][1] = "qh" /\ all[3][2] = 4
      /\ all[4][1] = "qs" /\ all[4][2] = 16
  BY <1>2
<1> HIDE DEF all
<1>4. Before("q5_1", 1) = 0
  BY <1>3, BeforeFirst DEF all
<1>5. Before("q5_1", 2) = 2
  BY <1>3, BeforeSecond DEF all
<1>6. Before("q5_1", 3) = 4
  BY <1>3, BeforeThird DEF all
<1>7. Before("q5_1", 4) = 8
  BY <1>3, BeforeFourth DEF all
<1>8. Offset("q5_1", "d") = 0
  <2>1. 1 \in DOMAIN all /\ \A k \in DOMAIN all : all[k][1] = "d" <=> k = 1
    BY <1>3
  <2> QED
    BY <1>4, <2>1, OffsetIs DEF all
<1>9. Offset("q5_1", "m") = 2
  <2>1. 2 \in DOMAIN all /\ \A k \in DOMAIN all : all[k][1] = "m" <=> k = 2
    BY <1>3
  <2> QED
    BY <1>5, <2>1, OffsetIs DEF all
<1>10. Offset("q5_1", "qh") = 4
  <2>1. 3 \in DOMAIN all /\ \A k \in DOMAIN all : all[k][1] = "qh" <=> k = 3
    BY <1>3
  <2> QED
    BY <1>6, <2>1, OffsetIs DEF all
<1>11. Offset("q5_1", "qs") = 8
  <2>1. 4 \in DOMAIN all /\ \A k \in DOMAIN all : all[k][1] = "qs" <=> k = 4
    BY <1>3
  <2> QED
    BY <1>7, <2>1, OffsetIs DEF all
<1> QED
  BY <1>1, <1>3, <1>4, <1>5, <1>6, <1>7, <1>8, <1>9, <1>10, <1>11 DEF all

LEMMA Layout_q8_0 ==
    /\ Per("q8_0") = 32 /\ Block["q8_0"][2] = 34 /\ DOMAIN Members["q8_0"] = 1 .. 2
    /\ Members["q8_0"][1][2] = 2 /\ Members["q8_0"][2][2] = 32
    /\ Members["q8_0"][1][1] = "d" /\ Members["q8_0"][2][1] = "qs"
    /\ Before("q8_0", 1) = 0 /\ Before("q8_0", 2) = 2
    /\ Offset("q8_0", "d") = 0 /\ Offset("q8_0", "qs") = 2
<1> DEFINE all == Members["q8_0"]
<1>1. Per("q8_0") = 32 /\ Block["q8_0"][2] = 34
  BY DEF Per, Block
<1>2. all = <<<<"d", 2>>, <<"qs", 32>>>>
  BY DEF Members
<1>3. /\ DOMAIN all = 1 .. 2
      /\ all[1][1] = "d" /\ all[1][2] = 2
      /\ all[2][1] = "qs" /\ all[2][2] = 32
  BY <1>2
<1> HIDE DEF all
<1>4. Before("q8_0", 1) = 0
  BY <1>3, BeforeFirst DEF all
<1>5. Before("q8_0", 2) = 2
  BY <1>3, BeforeSecond DEF all
<1>6. Offset("q8_0", "d") = 0
  <2>1. 1 \in DOMAIN all /\ \A k \in DOMAIN all : all[k][1] = "d" <=> k = 1
    BY <1>3
  <2> QED
    BY <1>4, <2>1, OffsetIs DEF all
<1>7. Offset("q8_0", "qs") = 2
  <2>1. 2 \in DOMAIN all /\ \A k \in DOMAIN all : all[k][1] = "qs" <=> k = 2
    BY <1>3
  <2> QED
    BY <1>5, <2>1, OffsetIs DEF all
<1> QED
  BY <1>1, <1>3, <1>4, <1>5, <1>6, <1>7 DEF all

LEMMA Layout_q4_K ==
    /\ Per("q4_K") = 256 /\ Block["q4_K"][2] = 144 /\ DOMAIN Members["q4_K"] = 1 .. 4
    /\ Members["q4_K"][1][2] = 2 /\ Members["q4_K"][2][2] = 2
    /\ Members["q4_K"][3][2] = 12 /\ Members["q4_K"][4][2] = 128
    /\ Members["q4_K"][1][1] = "d" /\ Members["q4_K"][2][1] = "m"
    /\ Members["q4_K"][3][1] = "scales" /\ Members["q4_K"][4][1] = "qs"
    /\ Before("q4_K", 1) = 0 /\ Before("q4_K", 2) = 2 /\ Before("q4_K", 3) = 4
    /\ Before("q4_K", 4) = 16
    /\ Offset("q4_K", "d") = 0 /\ Offset("q4_K", "m") = 2
    /\ Offset("q4_K", "scales") = 4 /\ Offset("q4_K", "qs") = 16
<1> DEFINE all == Members["q4_K"]
<1>1. Per("q4_K") = 256 /\ Block["q4_K"][2] = 144
  BY DEF Per, Block
<1>2. all = <<<<"d", 2>>, <<"m", 2>>, <<"scales", 12>>, <<"qs", 128>>>>
  BY DEF Members
<1>3. /\ DOMAIN all = 1 .. 4
      /\ all[1][1] = "d" /\ all[1][2] = 2
      /\ all[2][1] = "m" /\ all[2][2] = 2
      /\ all[3][1] = "scales" /\ all[3][2] = 12
      /\ all[4][1] = "qs" /\ all[4][2] = 128
  BY <1>2
<1> HIDE DEF all
<1>4. Before("q4_K", 1) = 0
  BY <1>3, BeforeFirst DEF all
<1>5. Before("q4_K", 2) = 2
  BY <1>3, BeforeSecond DEF all
<1>6. Before("q4_K", 3) = 4
  BY <1>3, BeforeThird DEF all
<1>7. Before("q4_K", 4) = 16
  BY <1>3, BeforeFourth DEF all
<1>8. Offset("q4_K", "d") = 0
  <2>1. 1 \in DOMAIN all /\ \A k \in DOMAIN all : all[k][1] = "d" <=> k = 1
    BY <1>3
  <2> QED
    BY <1>4, <2>1, OffsetIs DEF all
<1>9. Offset("q4_K", "m") = 2
  <2>1. 2 \in DOMAIN all /\ \A k \in DOMAIN all : all[k][1] = "m" <=> k = 2
    BY <1>3
  <2> QED
    BY <1>5, <2>1, OffsetIs DEF all
<1>10. Offset("q4_K", "scales") = 4
  <2>1. 3 \in DOMAIN all /\ \A k \in DOMAIN all : all[k][1] = "scales" <=> k = 3
    BY <1>3
  <2> QED
    BY <1>6, <2>1, OffsetIs DEF all
<1>11. Offset("q4_K", "qs") = 16
  <2>1. 4 \in DOMAIN all /\ \A k \in DOMAIN all : all[k][1] = "qs" <=> k = 4
    BY <1>3
  <2> QED
    BY <1>7, <2>1, OffsetIs DEF all
<1> QED
  BY <1>1, <1>3, <1>4, <1>5, <1>6, <1>7, <1>8, <1>9, <1>10, <1>11 DEF all

LEMMA Layout_q5_K ==
    /\ Per("q5_K") = 256 /\ Block["q5_K"][2] = 176 /\ DOMAIN Members["q5_K"] = 1 .. 5
    /\ Members["q5_K"][1][2] = 2 /\ Members["q5_K"][2][2] = 2
    /\ Members["q5_K"][3][2] = 12 /\ Members["q5_K"][4][2] = 32
    /\ Members["q5_K"][5][2] = 128
    /\ Members["q5_K"][1][1] = "d" /\ Members["q5_K"][2][1] = "m"
    /\ Members["q5_K"][3][1] = "scales" /\ Members["q5_K"][4][1] = "qh"
    /\ Members["q5_K"][5][1] = "qs"
    /\ Before("q5_K", 1) = 0 /\ Before("q5_K", 2) = 2 /\ Before("q5_K", 3) = 4
    /\ Before("q5_K", 4) = 16 /\ Before("q5_K", 5) = 48
    /\ Offset("q5_K", "d") = 0 /\ Offset("q5_K", "m") = 2
    /\ Offset("q5_K", "scales") = 4 /\ Offset("q5_K", "qh") = 16
    /\ Offset("q5_K", "qs") = 48
<1> DEFINE all == Members["q5_K"]
<1>1. Per("q5_K") = 256 /\ Block["q5_K"][2] = 176
  BY DEF Per, Block
<1>2. all = <<<<"d", 2>>, <<"m", 2>>, <<"scales", 12>>, <<"qh", 32>>, <<"qs", 128>>>>
  BY DEF Members
<1>3. /\ DOMAIN all = 1 .. 5
      /\ all[1][1] = "d" /\ all[1][2] = 2
      /\ all[2][1] = "m" /\ all[2][2] = 2
      /\ all[3][1] = "scales" /\ all[3][2] = 12
      /\ all[4][1] = "qh" /\ all[4][2] = 32
      /\ all[5][1] = "qs" /\ all[5][2] = 128
  BY <1>2
<1> HIDE DEF all
<1>4. Before("q5_K", 1) = 0
  BY <1>3, BeforeFirst DEF all
<1>5. Before("q5_K", 2) = 2
  BY <1>3, BeforeSecond DEF all
<1>6. Before("q5_K", 3) = 4
  BY <1>3, BeforeThird DEF all
<1>7. Before("q5_K", 4) = 16
  BY <1>3, BeforeFourth DEF all
<1>8. Before("q5_K", 5) = 48
  BY <1>3, BeforeFifth DEF all
<1>9. Offset("q5_K", "d") = 0
  <2>1. 1 \in DOMAIN all /\ \A k \in DOMAIN all : all[k][1] = "d" <=> k = 1
    BY <1>3
  <2> QED
    BY <1>4, <2>1, OffsetIs DEF all
<1>10. Offset("q5_K", "m") = 2
  <2>1. 2 \in DOMAIN all /\ \A k \in DOMAIN all : all[k][1] = "m" <=> k = 2
    BY <1>3
  <2> QED
    BY <1>5, <2>1, OffsetIs DEF all
<1>11. Offset("q5_K", "scales") = 4
  <2>1. 3 \in DOMAIN all /\ \A k \in DOMAIN all : all[k][1] = "scales" <=> k = 3
    BY <1>3
  <2> QED
    BY <1>6, <2>1, OffsetIs DEF all
<1>12. Offset("q5_K", "qh") = 16
  <2>1. 4 \in DOMAIN all /\ \A k \in DOMAIN all : all[k][1] = "qh" <=> k = 4
    BY <1>3
  <2> QED
    BY <1>7, <2>1, OffsetIs DEF all
<1>13. Offset("q5_K", "qs") = 48
  <2>1. 5 \in DOMAIN all /\ \A k \in DOMAIN all : all[k][1] = "qs" <=> k = 5
    BY <1>3
  <2> QED
    BY <1>8, <2>1, OffsetIs DEF all
<1> QED
  BY <1>1, <1>3, <1>4, <1>5, <1>6, <1>7, <1>8, <1>9, <1>10, <1>11, <1>12, <1>13 DEF all

LEMMA Layout_q6_K ==
    /\ Per("q6_K") = 256 /\ Block["q6_K"][2] = 210 /\ DOMAIN Members["q6_K"] = 1 .. 4
    /\ Members["q6_K"][1][2] = 128 /\ Members["q6_K"][2][2] = 64
    /\ Members["q6_K"][3][2] = 16 /\ Members["q6_K"][4][2] = 2
    /\ Members["q6_K"][1][1] = "ql" /\ Members["q6_K"][2][1] = "qh"
    /\ Members["q6_K"][3][1] = "scales" /\ Members["q6_K"][4][1] = "d"
    /\ Before("q6_K", 1) = 0 /\ Before("q6_K", 2) = 128 /\ Before("q6_K", 3) = 192
    /\ Before("q6_K", 4) = 208
    /\ Offset("q6_K", "ql") = 0 /\ Offset("q6_K", "qh") = 128
    /\ Offset("q6_K", "scales") = 192 /\ Offset("q6_K", "d") = 208
<1> DEFINE all == Members["q6_K"]
<1>1. Per("q6_K") = 256 /\ Block["q6_K"][2] = 210
  BY DEF Per, Block
<1>2. all = <<<<"ql", 128>>, <<"qh", 64>>, <<"scales", 16>>, <<"d", 2>>>>
  BY DEF Members
<1>3. /\ DOMAIN all = 1 .. 4
      /\ all[1][1] = "ql" /\ all[1][2] = 128
      /\ all[2][1] = "qh" /\ all[2][2] = 64
      /\ all[3][1] = "scales" /\ all[3][2] = 16
      /\ all[4][1] = "d" /\ all[4][2] = 2
  BY <1>2
<1> HIDE DEF all
<1>4. Before("q6_K", 1) = 0
  BY <1>3, BeforeFirst DEF all
<1>5. Before("q6_K", 2) = 128
  BY <1>3, BeforeSecond DEF all
<1>6. Before("q6_K", 3) = 192
  BY <1>3, BeforeThird DEF all
<1>7. Before("q6_K", 4) = 208
  BY <1>3, BeforeFourth DEF all
<1>8. Offset("q6_K", "ql") = 0
  <2>1. 1 \in DOMAIN all /\ \A k \in DOMAIN all : all[k][1] = "ql" <=> k = 1
    BY <1>3
  <2> QED
    BY <1>4, <2>1, OffsetIs DEF all
<1>9. Offset("q6_K", "qh") = 128
  <2>1. 2 \in DOMAIN all /\ \A k \in DOMAIN all : all[k][1] = "qh" <=> k = 2
    BY <1>3
  <2> QED
    BY <1>5, <2>1, OffsetIs DEF all
<1>10. Offset("q6_K", "scales") = 192
  <2>1. 3 \in DOMAIN all /\ \A k \in DOMAIN all : all[k][1] = "scales" <=> k = 3
    BY <1>3
  <2> QED
    BY <1>6, <2>1, OffsetIs DEF all
<1>11. Offset("q6_K", "d") = 208
  <2>1. 4 \in DOMAIN all /\ \A k \in DOMAIN all : all[k][1] = "d" <=> k = 4
    BY <1>3
  <2> QED
    BY <1>7, <2>1, OffsetIs DEF all
<1> QED
  BY <1>1, <1>3, <1>4, <1>5, <1>6, <1>7, <1>8, <1>9, <1>10, <1>11 DEF all

----------------------------------------------------------------------------
(***************************************************************************)
(* What element r of block b is made of, whatever the loops point at.      *)
(***************************************************************************)
At(type, b, member, index) == b * Block[type][2] + Offset(type, member) + index

BitsAt(type, b, member, index, first, count) ==
    [k \in 1 .. count |-> <<At(type, b, member, index), first + k - 1>>]

LowNibble(type, b, r) == BitsAt(type, b, "qs", r % 16, 4 * (r \div 16), 4)
ChunkNibble(type, b, r) ==
    BitsAt(type, b, "qs", 32 * (r \div 64) + ((r % 64) % 32), 4 * ((r % 64) \div 32), 4)

QuantAt(type, b, r) ==
    IF type = "f32" THEN BitsAt(type, b, "qs", 0, 0, 8) \o BitsAt(type, b, "qs", 1, 0, 8)
                             \o BitsAt(type, b, "qs", 2, 0, 8) \o BitsAt(type, b, "qs", 3, 0, 8)
    ELSE IF type \in {"q4_0", "q4_1"} THEN LowNibble(type, b, r)
    ELSE IF type \in {"q5_0", "q5_1"}
         THEN LowNibble(type, b, r) \o BitsAt(type, b, "qh", r \div 8, r % 8, 1)
    ELSE IF type = "q8_0" THEN BitsAt(type, b, "qs", r, 0, 8)
    ELSE IF type = "q4_K" THEN ChunkNibble(type, b, r) \o <<>>
    ELSE IF type = "q5_K"
         THEN ChunkNibble(type, b, r) \o BitsAt(type, b, "qh", (r % 64) % 32, r \div 32, 1)
    ELSE BitsAt(type, b, "ql", 64 * (r \div 128) + ((r % 128) % 32)
                                   + 32 * (((r % 128) \div 32) % 2),
                4 * (((r % 128) \div 32) \div 2), 4)
             \o BitsAt(type, b, "qh", 32 * (r \div 128) + ((r % 128) % 32),
                       2 * ((r % 128) \div 32), 2)

PackedScale(type, b, k) ==
    IF k < 4 THEN BitsAt(type, b, "scales", k, 0, 6)
    ELSE BitsAt(type, b, "scales", k + 4, 0, 4) \o BitsAt(type, b, "scales", k - 4, 6, 2)

PackedMin(type, b, k) ==
    IF k < 4 THEN BitsAt(type, b, "scales", k + 4, 0, 6)
    ELSE BitsAt(type, b, "scales", k + 4, 4, 4) \o BitsAt(type, b, "scales", k, 6, 2)

ScaleAt(type, b, r) ==
    IF type \in {"q4_K", "q5_K"} THEN PackedScale(type, b, r \div 32)
    ELSE IF type = "q6_K" THEN BitsAt(type, b, "scales", r \div 16, 0, 8)
    ELSE <<>>

MinAt(type, b, r) == IF type \in {"q4_K", "q5_K"} THEN PackedMin(type, b, r \div 32) ELSE <<>>

LowestAt(type) ==
    IF type = "q4_0" THEN -8 ELSE IF type = "q5_0" THEN -16
    ELSE IF type = "q8_0" THEN -128 ELSE IF type = "q6_K" THEN -32 ELSE 0

WithMin == {"q4_1", "q5_1", "q4_K", "q5_K"}

ElementAt(type, b, r) ==
    IF type = "f32" THEN [quant |-> QuantAt(type, b, r)]
    ELSE [quant |-> QuantAt(type, b, r), lowest |-> LowestAt(type),
          scale |-> ScaleAt(type, b, r), min |-> MinAt(type, b, r),
          d |-> At(type, b, "d", 0), m |-> IF type \in WithMin THEN At(type, b, "m", 0) ELSE -1]

----------------------------------------------------------------------------
(* The inductive invariant: where the loops and their pointers are, and    *)
(* that all the elements before that place are written.                    *)
Stops(type) ==
    IF type \in {"q4_K", "q5_K"} THEN {0, 64, 128, 192, 256}
    ELSE IF type = "q6_K" THEN {0, 128, 256} ELSE {0}

Masks(type, place) ==
    IF type # "q5_K" \/ place = 0 THEN <<1, 2>>
    ELSE IF place = 64 THEN <<4, 8>> ELSE IF place = 128 THEN <<16, 32>>
    ELSE IF place = 192 THEN <<64, 128>> ELSE <<0, 0>>

Pointers(type, place) ==
    [q |-> place \div 2,
     h |-> IF type = "q6_K" THEN place \div 4 ELSE 0,
     s |-> IF type = "q6_K" THEN place \div 16 ELSE place \div 32,
     u1 |-> Masks(type, place)[1], u2 |-> Masks(type, place)[2]]

Written ==
    /\ DOMAIN y = 0 .. i * Per(call.type) + j - 1
    /\ \A e \in DOMAIN y :
           y[e] = ElementAt(call.type, e \div Per(call.type), e % Per(call.type))

Unpacking ==
    /\ call \in Calls
    /\ pc \in {"begin", "convert", "done", "refused"}
    /\ pc = "begin" => i = 0 /\ j = 0 /\ at = Start /\ y = <<>>
    /\ pc \in {"convert", "done"} =>
          /\ Convertible
          /\ i \in 0 .. call.n \div Per(call.type)
          /\ j \in Stops(call.type)
          /\ j > 0 => i < call.n \div Per(call.type)
          /\ at = Pointers(call.type, j)
          /\ call.type # "f16" => Written
    /\ pc = "done" => i = call.n \div Per(call.type)

LEMMA TypesListed ==
    DOMAIN Block = {"f32", "f16", "q4_0", "q4_1", "q5_0", "q5_1", "q8_0", "q4_K", "q5_K", "q6_K"}
BY DEF Block

LEMMA PerIs ==
    /\ Per("f32") = 1 /\ Per("f16") = 1
    /\ Per("q4_0") = 32 /\ Per("q4_1") = 32 /\ Per("q5_0") = 32 /\ Per("q5_1") = 32
    /\ Per("q8_0") = 32
    /\ Per("q4_K") = 256 /\ Per("q5_K") = 256 /\ Per("q6_K") = 256
BY DEF Per, Block

LEMMA WriteExtends ==
    ASSUME NEW new, Write(new), NEW from \in Nat, NEW to \in Nat, from <= to,
           DOMAIN y = 0 .. from - 1, DOMAIN new = from .. to - 1
    PROVE  /\ DOMAIN y' = 0 .. to - 1
           /\ \A e \in 0 .. from - 1 : y'[e] = y[e]
           /\ \A e \in from .. to - 1 : y'[e] = new[e]
<1>1. y' = [e \in DOMAIN new \cup DOMAIN y |-> IF e \in DOMAIN new THEN new[e] ELSE y[e]]
  BY DEF Write
<1>2. DOMAIN new \cup DOMAIN y = 0 .. to - 1
  OBVIOUS
<1>3. DOMAIN y' = 0 .. to - 1
  BY <1>1, <1>2
<1>4. \A e \in 0 .. from - 1 : e \in DOMAIN y /\ e \notin DOMAIN new
  OBVIOUS
<1> QED
  BY <1>1, <1>3, <1>4

LEMMA WrittenGrows ==
    ASSUME NEW P \in Nat, P = Per(call.type), NEW N \in Nat, i \in 0 .. N, j \in Nat, Written,
           NEW new, Write(new), NEW count \in Nat, DOMAIN new = InBlock(j, count),
           \A e \in DOMAIN new : new[e] = ElementAt(call.type, e \div P, e % P),
           call' = call, i' \in Nat, j' \in Nat, i' * P + j' = i * P + j + count
    PROVE  Written'
<1> DEFINE from == i * P + j
           to == i * P + j + count
<1>1. from \in Nat /\ to \in Nat /\ from <= to
  OBVIOUS
<1>2. DOMAIN y = 0 .. from - 1
  BY DEF Written
<1>3. DOMAIN new = from .. to - 1
  BY DEF InBlock
<1>4. i' * P + j' = to
  OBVIOUS
<1> HIDE DEF from, to
<1>5. /\ DOMAIN y' = 0 .. to - 1
      /\ \A e \in 0 .. from - 1 : y'[e] = y[e]
      /\ \A e \in from .. to - 1 : y'[e] = new[e]
  BY <1>1, <1>2, <1>3, WriteExtends, SMTT(30)
<1>6. ASSUME NEW e \in DOMAIN y' PROVE y'[e] = ElementAt(call.type, e \div P, e % P)
  <2>1. e \in 0 .. from - 1 \/ e \in from .. to - 1
    BY <1>1, <1>5
  <2> QED
    BY <1>2, <1>3, <1>5, <2>1 DEF Written
<1>7. Per(call.type)' = P
  BY DEF Per
<1> QED
  BY <1>4, <1>5, <1>6, <1>7 DEF Written

LEMMA HereIs ==
    ASSUME NEW member, NEW index, NEW first, NEW count
    PROVE  /\ Byte(member, index) = At(call.type, i, member, index)
           /\ Bits(member, index, first, count) =
                  BitsAt(call.type, i, member, index, first, count)
BY DEF Byte, Bits, BitsAt, At

LEMMA MembersNamed ==
    call.type \in DOMAIN Block \ {"f16"} => (Has("m") <=> call.type \in WithMin)
<1> SUFFICES ASSUME call.type \in DOMAIN Block \ {"f16"}
             PROVE  Has("m") <=> call.type \in WithMin
  OBVIOUS
<1>1. CASE call.type = "f32"
  <2>1. \A k \in DOMAIN Members["f32"] : k = 1
    BY Layout_f32
  <2> QED
    BY <1>1, <2>1, Layout_f32 DEF Has, WithMin
<1>2. CASE call.type = "q4_0"
  <2>1. \A k \in DOMAIN Members["q4_0"] : k = 1 \/ k = 2
    BY Layout_q4_0
  <2> QED
    BY <1>2, <2>1, Layout_q4_0 DEF Has, WithMin
<1>3. CASE call.type = "q4_1"
  <2>1. \A k \in DOMAIN Members["q4_1"] : k = 1 \/ k = 2 \/ k = 3
    BY Layout_q4_1
  <2> QED
    BY <1>3, <2>1, Layout_q4_1 DEF Has, WithMin
<1>4. CASE call.type = "q5_0"
  <2>1. \A k \in DOMAIN Members["q5_0"] : k = 1 \/ k = 2 \/ k = 3
    BY Layout_q5_0
  <2> QED
    BY <1>4, <2>1, Layout_q5_0 DEF Has, WithMin
<1>5. CASE call.type = "q5_1"
  <2>1. \A k \in DOMAIN Members["q5_1"] : k = 1 \/ k = 2 \/ k = 3 \/ k = 4
    BY Layout_q5_1
  <2> QED
    BY <1>5, <2>1, Layout_q5_1 DEF Has, WithMin
<1>6. CASE call.type = "q8_0"
  <2>1. \A k \in DOMAIN Members["q8_0"] : k = 1 \/ k = 2
    BY Layout_q8_0
  <2> QED
    BY <1>6, <2>1, Layout_q8_0 DEF Has, WithMin
<1>7. CASE call.type = "q4_K"
  <2>1. \A k \in DOMAIN Members["q4_K"] : k = 1 \/ k = 2 \/ k = 3 \/ k = 4
    BY Layout_q4_K
  <2> QED
    BY <1>7, <2>1, Layout_q4_K DEF Has, WithMin
<1>8. CASE call.type = "q5_K"
  <2>1. \A k \in DOMAIN Members["q5_K"] : k = 1 \/ k = 2 \/ k = 3 \/ k = 4 \/ k = 5
    BY Layout_q5_K
  <2> QED
    BY <1>8, <2>1, Layout_q5_K DEF Has, WithMin
<1>9. CASE call.type = "q6_K"
  <2>1. \A k \in DOMAIN Members["q6_K"] : k = 1 \/ k = 2 \/ k = 3 \/ k = 4
    BY Layout_q6_K
  <2> QED
    BY <1>9, <2>1, Layout_q6_K DEF Has, WithMin
<1> QED
  BY <1>1, <1>2, <1>3, <1>4, <1>5, <1>6, <1>7, <1>8, <1>9, TypesListed

(* What the invariant says of a loop that is not at its end.               *)
LEMMA Underway ==
    ASSUME Unpacking, NEW types, Converting(types), types \subseteq DOMAIN Block
    PROVE  /\ call.type \in types /\ pc = "convert" /\ call \in Calls /\ Convertible
           /\ call.n \in Nat /\ Per(call.type) \in {1, 32, 256}
           /\ call.n \div Per(call.type) \in Nat
           /\ i \in Nat /\ i < call.n \div Per(call.type)
           /\ j \in Stops(call.type) /\ j \in Nat /\ at = Pointers(call.type, j)
           /\ call.type # "f16" => Written
<1>1. /\ call.type \in types /\ pc = "convert" /\ call \in Calls /\ Convertible
      /\ i \in 0 .. call.n \div Per(call.type) /\ i < call.n \div Per(call.type)
      /\ j \in Stops(call.type) /\ at = Pointers(call.type, j)
      /\ call.type # "f16" => Written
  BY DEF Unpacking, Converting
<1>2. call.n \in Nat
  BY <1>1, CallAssumption
<1>3. Per(call.type) \in {1, 32, 256}
  <2>1. call.type \in DOMAIN Block
    BY <1>1
  <2> QED
    BY <2>1, PerIs, TypesListed
<1>4. call.n \div Per(call.type) \in Nat
  BY <1>2, <1>3
<1>5. j \in Nat
  BY <1>1 DEF Stops
<1> QED
  BY <1>1, <1>2, <1>3, <1>4, <1>5

LEMMA BlockStep ==
    ASSUME Unpacking, NEW types, Converting(types), types \subseteq DOMAIN Block \ {"f16"},
           Stops(call.type) = {0}, NextBlock, NEW new, Write(new),
           DOMAIN new = InBlock(0, Per(call.type)),
           \A e \in DOMAIN new :
               new[e] = ElementAt(call.type, e \div Per(call.type), e % Per(call.type))
    PROVE  Unpacking'
<1> DEFINE P == Per(call.type)
           N == call.n \div P
<1>1. /\ call.type \in types /\ pc = "convert" /\ call \in Calls /\ Convertible
      /\ P \in Nat \ {0} /\ N \in Nat /\ i \in Nat /\ i < N /\ j = 0
      /\ at = Pointers(call.type, j) /\ call.type # "f16" /\ Written
  BY Underway
<1>2. call' = call /\ pc' = pc /\ i' = i + 1 /\ j' = j /\ at' = at
  BY DEF NextBlock
<1>3. P' = P /\ N' = N /\ Convertible'
  BY <1>1, <1>2 DEF Convertible, Per
<1>4. Pointers(call.type, j)' = Pointers(call.type, j) /\ Stops(call.type)' = {0}
  BY <1>2 DEF Pointers, Masks, Stops
<1>5. Written'
  <2>1. i \in 0 .. N /\ i' \in Nat /\ j' \in Nat /\ j \in Nat
    BY <1>1, <1>2
  <2>2. (i + 1) * P + 0 = i * P + 0 + P
    BY <1>1
  <2>3. i' * P + j' = i * P + j + P
    BY <1>1, <1>2, <2>2
  <2>4. DOMAIN new = InBlock(j, P)
    BY <1>1
  <2>5. /\ P = Per(call.type) /\ P \in Nat
        /\ \A e \in DOMAIN new : new[e] = ElementAt(call.type, e \div P, e % P)
    BY <1>1
  <2> HIDE DEF P, N
  <2> QED
    BY <1>1, <1>2, <2>1, <2>3, <2>4, <2>5, WrittenGrows
<1>6. i' \in 0 .. N
  BY <1>1, <1>2
<1> QED
  BY <1>1, <1>2, <1>3, <1>4, <1>5, <1>6 DEF Unpacking

LEMMA ChunkStep ==
    ASSUME Unpacking, NEW types, Converting(types), types \subseteq DOMAIN Block \ {"f16"},
           NEW size \in Nat, j + size \in Stops(call.type), j + size > 0,
           NEW pointers, NextChunk(size, pointers), pointers = Pointers(call.type, j + size),
           NEW new, Write(new), DOMAIN new = InBlock(j, size),
           \A e \in DOMAIN new :
               new[e] = ElementAt(call.type, e \div Per(call.type), e % Per(call.type))
    PROVE  Unpacking'
<1> DEFINE P == Per(call.type)
           N == call.n \div P
<1>1. /\ call.type \in types /\ pc = "convert" /\ call \in Calls /\ Convertible
      /\ P \in Nat \ {0} /\ N \in Nat /\ i \in Nat /\ i < N /\ j \in Nat
      /\ call.type # "f16" /\ Written
  BY Underway
<1>2. call' = call /\ pc' = pc /\ i' = i /\ j' = j + size /\ at' = pointers
  BY DEF NextChunk
<1>3. P' = P /\ N' = N /\ Convertible'
  BY <1>1, <1>2 DEF Convertible, Per
<1>4. Pointers(call.type, j)' = pointers /\ Stops(call.type)' = Stops(call.type)
  BY <1>2 DEF Pointers, Masks, Stops
<1>5. Written'
  <2>1. i \in 0 .. N /\ i' \in Nat /\ j' \in Nat
    BY <1>1, <1>2
  <2>2. i * P + (j + size) = i * P + j + size
    BY <1>1
  <2>3. i' * P + j' = i * P + j + size
    BY <1>2, <2>2
  <2>4. /\ P = Per(call.type) /\ P \in Nat
        /\ \A e \in DOMAIN new : new[e] = ElementAt(call.type, e \div P, e % P)
    BY <1>1
  <2> HIDE DEF P, N
  <2> QED
    BY <1>1, <1>2, <2>1, <2>3, <2>4, WrittenGrows
<1>6. i' \in 0 .. N
  BY <1>1, <1>2
<1> QED
  BY <1>1, <1>2, <1>3, <1>4, <1>5, <1>6 DEF Unpacking

(* Element r of block b, counted over the tensor.                          *)
LEMMA InBlockOf ==
    ASSUME NEW P \in {1, 32, 256}, NEW b \in Nat, NEW first \in Nat, NEW count \in Nat,
           first + count <= P, NEW e \in b * P + first .. b * P + first + count - 1
    PROVE  /\ e \in Nat /\ e \div P = b
           /\ e - (b * P + first) \in 0 .. count - 1
           /\ e % P = first + (e - (b * P + first))
<1> DEFINE r == e - b * P
<1>1. CASE P = 1
  BY <1>1
<1>2. CASE P = 32
  BY <1>2
<1>3. CASE P = 256
  BY <1>3
<1> QED
  BY <1>1, <1>2, <1>3

LEMMA CopyStep == Unpacking /\ Copy => Unpacking'
<1> SUFFICES ASSUME Unpacking, Copy PROVE Unpacking'
  OBVIOUS
<1> DEFINE quant == Bits("qs", 0, 0, 8) \o Bits("qs", 1, 0, 8)
                        \o Bits("qs", 2, 0, 8) \o Bits("qs", 3, 0, 8)
           new == [e \in {i} |-> [quant |-> quant]]
<1>1. Converting({"f32"}) /\ Write(new) /\ NextBlock
  BY DEF Copy
<1>2. call.type = "f32" /\ i \in Nat /\ Per(call.type) = 1 /\ Stops(call.type) = {0}
      /\ {"f32"} \subseteq DOMAIN Block \ {"f16"}
  BY <1>1, Underway, TypesListed, PerIs DEF Converting, Unpacking, Stops
<1>3. DOMAIN new = InBlock(0, Per(call.type))
  BY <1>2 DEF InBlock
<1>4. quant = QuantAt("f32", i, 0)
  BY <1>2, HereIs DEF QuantAt
<1>5. ASSUME NEW e \in DOMAIN new
      PROVE  new[e] = ElementAt(call.type, e \div Per(call.type), e % Per(call.type))
  <2>1. e = i /\ e \div 1 = i /\ e % 1 = 0
    BY <1>2
  <2>2. new[e] = [quant |-> quant]
    OBVIOUS
  <2> HIDE DEF quant, new
  <2> QED
    BY <1>2, <1>4, <2>1, <2>2 DEF ElementAt
<1> HIDE DEF new
<1> QED
  BY <1>1, <1>2, <1>3, <1>5, BlockStep

(* The elements of a block of 32, and what they hold.                      *)
LEMMA ElementIs ==
    ASSUME call.type \in DOMAIN Block \ {"f16", "f32"},
           NEW quant, NEW lowest, NEW scale, NEW min, NEW r,
           quant = QuantAt(call.type, i, r), lowest = LowestAt(call.type),
           scale = ScaleAt(call.type, i, r), min = MinAt(call.type, i, r)
    PROVE  Element(quant, lowest, scale, min) = ElementAt(call.type, i, r)
<1>1. Has("m") <=> call.type \in WithMin
  BY MembersNamed
<1>2. Byte("d", 0) = At(call.type, i, "d", 0) /\ Byte("m", 0) = At(call.type, i, "m", 0)
  BY HereIs
<1> QED
  BY <1>1, <1>2 DEF Element, ElementAt

LEMMA Q4Step == Unpacking /\ DeqQ4 => Unpacking'
<1> SUFFICES ASSUME Unpacking, DeqQ4 PROVE Unpacking'
  OBVIOUS
<1> DEFINE content(r) == Element(Nibble("qs", r % 16, r \div 16),
                                 IF call.type = "q4_0" THEN -8 ELSE 0, <<>>, <<>>)
           new == [e \in InBlock(0, 32) |-> content(e % 32)]
<1>1. Converting({"q4_0", "q4_1"}) /\ Write(new) /\ NextBlock
  BY DEF DeqQ4
<1>2. call.type \in {"q4_0", "q4_1"} /\ i \in Nat /\ Per(call.type) = 32
      /\ Stops(call.type) = {0} /\ {"q4_0", "q4_1"} \subseteq DOMAIN Block \ {"f16"}
  BY <1>1, Underway, TypesListed, PerIs DEF Converting, Unpacking, Stops
<1>3. ASSUME NEW r PROVE content(r) = ElementAt(call.type, i, r)
  <2>1. Nibble("qs", r % 16, r \div 16) = QuantAt(call.type, i, r)
    BY <1>2, HereIs DEF Nibble, QuantAt, LowNibble
  <2>2. (IF call.type = "q4_0" THEN -8 ELSE 0) = LowestAt(call.type)
    BY <1>2 DEF LowestAt
  <2>3. ScaleAt(call.type, i, r) = <<>> /\ MinAt(call.type, i, r) = <<>>
    BY <1>2 DEF ScaleAt, MinAt
  <2>4. call.type \in DOMAIN Block \ {"f16", "f32"}
    BY <1>2
  <2> QED
    BY <2>1, <2>2, <2>3, <2>4, ElementIs
<1> HIDE DEF content
<1>4. ASSUME NEW e \in DOMAIN new
      PROVE  new[e] = ElementAt(call.type, e \div Per(call.type), e % Per(call.type))
  <2>1. e \in i * 32 + 0 .. i * 32 + 0 + 32 - 1
    BY <1>2 DEF InBlock
  <2>2. e \div 32 = i
    BY <1>2, <2>1, InBlockOf
  <2> QED
    BY <1>2, <1>3, <2>2
<1>5. DOMAIN new = InBlock(0, Per(call.type))
  BY <1>2
<1> HIDE DEF new
<1> QED
  BY <1>1, <1>2, <1>4, <1>5, BlockStep

LEMMA Q5Step == Unpacking /\ DeqQ5 => Unpacking'
<1> SUFFICES ASSUME Unpacking, DeqQ5 PROVE Unpacking'
  OBVIOUS
<1> DEFINE content(r) == Element(Nibble("qs", r % 16, r \div 16) \o FifthBit(r),
                                 IF call.type = "q5_0" THEN -16 ELSE 0, <<>>, <<>>)
           new == [e \in InBlock(0, 32) |-> content(e % 32)]
<1>1. Converting({"q5_0", "q5_1"}) /\ Write(new) /\ NextBlock
  BY DEF DeqQ5
<1>2. call.type \in {"q5_0", "q5_1"} /\ i \in Nat /\ Per(call.type) = 32
      /\ Stops(call.type) = {0} /\ {"q5_0", "q5_1"} \subseteq DOMAIN Block \ {"f16"}
  BY <1>1, Underway, TypesListed, PerIs DEF Converting, Unpacking, Stops
<1>3. ASSUME NEW r \in 0 .. 31 PROVE content(r) = ElementAt(call.type, i, r)
  <2>1. Nibble("qs", r % 16, r \div 16) = LowNibble(call.type, i, r)
    BY <1>2, HereIs DEF Nibble, LowNibble
  <2>2. FifthBit(r) = QhBit(r)
    <3>1. (r - 16) + 12 + 4 = r
      OBVIOUS
    <3> QED
      BY <3>1 DEF FifthBit
  <2>3. QhBit(r) = BitsAt(call.type, i, "qh", r \div 8, r % 8, 1)
    BY HereIs DEF QhBit
  <2>4. Nibble("qs", r % 16, r \div 16) \o FifthBit(r) = QuantAt(call.type, i, r)
    BY <1>2, <2>1, <2>2, <2>3 DEF QuantAt
  <2>5. (IF call.type = "q5_0" THEN -16 ELSE 0) = LowestAt(call.type)
    BY <1>2 DEF LowestAt
  <2>6. ScaleAt(call.type, i, r) = <<>> /\ MinAt(call.type, i, r) = <<>>
    BY <1>2 DEF ScaleAt, MinAt
  <2>7. call.type \in DOMAIN Block \ {"f16", "f32"}
    BY <1>2
  <2> DEFINE quant == Nibble("qs", r % 16, r \div 16) \o FifthBit(r)
             lowest == IF call.type = "q5_0" THEN -16 ELSE 0
  <2>8. quant = QuantAt(call.type, i, r) /\ lowest = LowestAt(call.type)
    BY <2>4, <2>5
  <2>9. content(r) = Element(quant, lowest, <<>>, <<>>)
    OBVIOUS
  <2> HIDE DEF quant, lowest, content
  <2> QED
    BY <2>6, <2>7, <2>8, <2>9, ElementIs
<1> HIDE DEF content
<1>4. ASSUME NEW e \in DOMAIN new
      PROVE  new[e] = ElementAt(call.type, e \div Per(call.type), e % Per(call.type))
  <2>1. e \in i * 32 + 0 .. i * 32 + 0 + 32 - 1
    BY <1>2 DEF InBlock
  <2>2. e \div 32 = i /\ e % 32 \in 0 .. 31
    BY <1>2, <2>1, InBlockOf
  <2> QED
    BY <1>2, <1>3, <2>2
<1>5. DOMAIN new = InBlock(0, Per(call.type))
  BY <1>2
<1> HIDE DEF new
<1> QED
  BY <1>1, <1>2, <1>4, <1>5, BlockStep

LEMMA Q8Step == Unpacking /\ DeqQ8 => Unpacking'
<1> SUFFICES ASSUME Unpacking, DeqQ8 PROVE Unpacking'
  OBVIOUS
<1> DEFINE content(r) == Element(Bits("qs", r, 0, 8), -128, <<>>, <<>>)
           new == [e \in InBlock(0, 32) |-> content(e % 32)]
<1>1. Converting({"q8_0"}) /\ Write(new) /\ NextBlock
  BY DEF DeqQ8
<1>2. call.type = "q8_0" /\ i \in Nat /\ Per(call.type) = 32
      /\ Stops(call.type) = {0} /\ {"q8_0"} \subseteq DOMAIN Block \ {"f16"}
  BY <1>1, Underway, TypesListed, PerIs DEF Converting, Unpacking, Stops
<1>3. ASSUME NEW r PROVE content(r) = ElementAt(call.type, i, r)
  <2>1. Bits("qs", r, 0, 8) = QuantAt(call.type, i, r)
    BY <1>2, HereIs DEF QuantAt
  <2>2. -128 = LowestAt(call.type)
    BY <1>2, SMT DEF LowestAt
  <2>3. ScaleAt(call.type, i, r) = <<>> /\ MinAt(call.type, i, r) = <<>>
    BY <1>2 DEF ScaleAt, MinAt
  <2>4. call.type \in DOMAIN Block \ {"f16", "f32"}
    BY <1>2
  <2> QED
    BY <2>1, <2>2, <2>3, <2>4, ElementIs
<1> HIDE DEF content
<1>4. ASSUME NEW e \in DOMAIN new
      PROVE  new[e] = ElementAt(call.type, e \div Per(call.type), e % Per(call.type))
  <2>1. e \in i * 32 + 0 .. i * 32 + 0 + 32 - 1
    BY <1>2 DEF InBlock
  <2>2. e \div 32 = i
    BY <1>2, <2>1, InBlockOf
  <2> QED
    BY <1>2, <1>3, <2>2
<1>5. DOMAIN new = InBlock(0, Per(call.type))
  BY <1>2
<1> HIDE DEF new
<1> QED
  BY <1>1, <1>2, <1>4, <1>5, BlockStep

----------------------------------------------------------------------------
(* The blocks of 256.                                                      *)

(* The one bit a mask of q5_K leaves.                                      *)
LEMMA MaskIs ==
    ASSUME NEW k \in 0 .. 7, NEW u, u = 2 ^ k
    PROVE  /\ {n \in 0 .. 7 : 2 ^ n = u} # {}
           /\ (CHOOSE n \in {m \in 0 .. 7 : 2 ^ m = u} : TRUE) = k
<1>1. ASSUME NEW n \in 0 .. 7, 2 ^ n = 2 ^ k PROVE n = k
  <2> DEFINE power(m) == IF m = 0 THEN 1 ELSE IF m = 1 THEN 2 ELSE IF m = 2 THEN 4 ELSE IF m = 3 THEN 8
                         ELSE IF m = 4 THEN 16 ELSE IF m = 5 THEN 32 ELSE IF m = 6 THEN 64 ELSE 128
  <2>1. ASSUME NEW m \in 0 .. 7 PROVE 2 ^ m = power(m)
    <3>1. CASE m = 0
      <4>1. 2 ^ m = 1
        BY <3>1, PowersOfTwo, SMT
      <4> QED
        BY <3>1, <4>1, SMT
    <3>2. CASE m = 1
      <4>1. 2 ^ m = 2
        BY <3>2, PowersOfTwo, SMT
      <4> QED
        BY <3>2, <4>1, SMT
    <3>3. CASE m = 2
      <4>1. 2 ^ m = 4
        BY <3>3, PowersOfTwo, SMT
      <4> QED
        BY <3>3, <4>1, SMT
    <3>4. CASE m = 3
      <4>1. 2 ^ m = 8
        BY <3>4, PowersOfTwo, SMT
      <4> QED
        BY <3>4, <4>1, SMT
    <3>5. CASE m = 4
      <4>1. 2 ^ m = 16
        BY <3>5, PowersOfTwo, SMT
      <4> QED
        BY <3>5, <4>1, SMT
    <3>6. CASE m = 5
      <4>1. 2 ^ m = 32
        BY <3>6, PowersOfTwo, SMT
      <4> QED
        BY <3>6, <4>1, SMT
    <3>7. CASE m = 6
      <4>1. 2 ^ m = 64
        BY <3>7, PowersOfTwo, SMT
      <4> QED
        BY <3>7, <4>1, SMT
    <3>8. CASE m = 7
      <4>1. 2 ^ m = 128
        BY <3>8, PowersOfTwo, SMT
      <4> QED
        BY <3>8, <4>1, SMT
    <3> QED
      BY <3>1, <3>2, <3>3, <3>4, <3>5, <3>6, <3>7, <3>8
  <2>2. power(n) = power(k)
    <3> HIDE DEF power
    <3> QED
      BY <1>1, <2>1
  <2> QED
    BY <2>2
<1>2. {n \in 0 .. 7 : 2 ^ n = u} = {k}
  BY <1>1
<1> QED
  BY <1>2

(* The pointers of q4_K and q5_K in the chunk that begins at j, and the    *)
(* numbers of an element in its block.                                     *)
LEMMA Chunk64At ==
    ASSUME NEW place \in {0, 64, 128, 192}, NEW t \in 0 .. 63, NEW r, r = place + t
    PROVE  /\ r \in 0 .. 255 /\ r % 64 = t /\ r \div 64 = place \div 64
           /\ place \div 2 + (t % 32) = 32 * (r \div 64) + ((r % 64) % 32)
           /\ place \div 32 + t \div 32 = r \div 32
           /\ t \div 32 \in {0, 1}
<1>1. CASE place = 0
  BY <1>1, SMT
<1>2. CASE place = 64
  BY <1>2, SMT
<1>3. CASE place = 128
  BY <1>3, SMT
<1>4. CASE place = 192
  BY <1>4, SMT
<1> QED
  BY <1>1, <1>2, <1>3, <1>4

LEMMA Chunk64Is ==
    ASSUME call.type \in {"q4_K", "q5_K"}, i \in Nat, j \in {0, 64, 128, 192},
           at = Pointers(call.type, j)
    PROVE  /\ DOMAIN Chunk64 = InBlock(j, 64)
           /\ \A e \in DOMAIN Chunk64 :
                  Chunk64[e] = ElementAt(call.type, e \div Per(call.type), e % Per(call.type))
<1>1. Per(call.type) = 256 /\ call.type \in DOMAIN Block \ {"f16", "f32"}
  BY PerIs, TypesListed
<1>2. DOMAIN Chunk64 = InBlock(j, 64)
  BY DEF Chunk64
<1>3. at.q = j \div 2 /\ at.h = 0 /\ at.s = j \div 32
      /\ at.u1 = Masks(call.type, j)[1] /\ at.u2 = Masks(call.type, j)[2]
  BY DEF Pointers
<1>4. ASSUME NEW e \in InBlock(j, 64)
      PROVE  Chunk64[e] = ElementAt(call.type, e \div 256, e % 256)
  <2> DEFINE t == e - (i * 256 + j)
             r == e % 256
             half == t \div 32
             l == t % 32
  <2>1. /\ e \in Nat /\ e \div 256 = i /\ t \in 0 .. 63 /\ r = j + t
    <3>1. e \in i * 256 + j .. i * 256 + j + 64 - 1
      BY <1>1 DEF InBlock
    <3>2. 256 \in {1, 32, 256} /\ j \in Nat /\ 64 \in Nat /\ j + 64 <= 256
      OBVIOUS
    <3> QED
      BY <3>1, <3>2, InBlockOf
  <2>2. /\ r \in 0 .. 255 /\ r % 64 = t /\ r \div 64 = j \div 64
        /\ j \div 2 + l = 32 * (r \div 64) + ((r % 64) % 32)
        /\ j \div 32 + half = r \div 32
        /\ half \in {0, 1}
    <3> HIDE DEF t, r
    <3> QED
      BY <2>1, Chunk64At, SMTT(30)
  <2>3. e % 64 = t
    <3>1. e = i * 256 + j + t
      BY <2>1
    <3>2. j = 0 \/ j = 64 \/ j = 128 \/ j = 192
      OBVIOUS
    <3> HIDE DEF t
    <3> QED
      BY <2>1, <3>1, <3>2
  <2>4. Chunk64[e] = Element(Nibble("qs", at.q + l, half) \o HighBit(l, half), 0,
                             ScaleBits(at.s + half), MinBits(at.s + half))
    BY <2>3 DEF Chunk64
  <2> HIDE DEF t, r
  <2>5. Nibble("qs", at.q + l, half) = ChunkNibble(call.type, i, r)
    <3>1. at.q + l = 32 * (r \div 64) + ((r % 64) % 32) /\ half = (r % 64) \div 32
      BY <1>3, <2>2
    <3> HIDE DEF l, half
    <3>2. Nibble("qs", at.q + l, half) =
              BitsAt(call.type, i, "qs", at.q + l, 4 * half, 4)
      BY HereIs DEF Nibble
    <3> QED
      BY <3>1, <3>2 DEF ChunkNibble
  <2>6. HighBit(l, half) = IF call.type = "q5_K"
                           THEN BitsAt(call.type, i, "qh", (r % 64) % 32, r \div 32, 1)
                           ELSE <<>>
    <3>1. CASE call.type = "q4_K"
      BY <3>1 DEF HighBit
    <3>2. CASE call.type = "q5_K"
      <4> DEFINE u == IF half = 0 THEN at.u1 ELSE at.u2
                 k == r \div 32
      <4>1. k \in 0 .. 7 /\ u = 2 ^ k
        <5>1. j = 0 \/ j = 64 \/ j = 128 \/ j = 192
          OBVIOUS
        <5>2. k = j \div 32 + half
          BY <2>2
        <5> HIDE DEF half, k
        <5>3. ASSUME j = 0 PROVE k \in 0 .. 7 /\ u = 2 ^ k
          <6>1. half = 0 => k = 0 /\ u = 1
            BY <1>3, <3>2, <5>2, <5>3 DEF Masks
          <6>2. half = 1 => k = 1 /\ u = 2
            BY <1>3, <3>2, <5>2, <5>3 DEF Masks
          <6> HIDE DEF u
          <6>3. CASE half = 0
            BY <6>1, <6>3, PowersOfTwo, SMT
          <6>4. CASE half = 1
            BY <6>2, <6>4, PowersOfTwo, SMT
          <6> QED
            BY <2>2, <6>3, <6>4 DEF half
        <5>4. ASSUME j = 64 PROVE k \in 0 .. 7 /\ u = 2 ^ k
          <6>1. half = 0 => k = 2 /\ u = 4
            BY <1>3, <3>2, <5>2, <5>4 DEF Masks
          <6>2. half = 1 => k = 3 /\ u = 8
            BY <1>3, <3>2, <5>2, <5>4 DEF Masks
          <6> HIDE DEF u
          <6>3. CASE half = 0
            BY <6>1, <6>3, PowersOfTwo, SMT
          <6>4. CASE half = 1
            BY <6>2, <6>4, PowersOfTwo, SMT
          <6> QED
            BY <2>2, <6>3, <6>4 DEF half
        <5>5. ASSUME j = 128 PROVE k \in 0 .. 7 /\ u = 2 ^ k
          <6>1. half = 0 => k = 4 /\ u = 16
            BY <1>3, <3>2, <5>2, <5>5 DEF Masks
          <6>2. half = 1 => k = 5 /\ u = 32
            BY <1>3, <3>2, <5>2, <5>5 DEF Masks
          <6> HIDE DEF u
          <6>3. CASE half = 0
            BY <6>1, <6>3, PowersOfTwo, SMT
          <6>4. CASE half = 1
            BY <6>2, <6>4, PowersOfTwo, SMT
          <6> QED
            BY <2>2, <6>3, <6>4 DEF half
        <5>6. ASSUME j = 192 PROVE k \in 0 .. 7 /\ u = 2 ^ k
          <6>1. half = 0 => k = 6 /\ u = 64
            BY <1>3, <3>2, <5>2, <5>6 DEF Masks
          <6>2. half = 1 => k = 7 /\ u = 128
            BY <1>3, <3>2, <5>2, <5>6 DEF Masks
          <6> HIDE DEF u
          <6>3. CASE half = 0
            BY <6>1, <6>3, PowersOfTwo, SMT
          <6>4. CASE half = 1
            BY <6>2, <6>4, PowersOfTwo, SMT
          <6> QED
            BY <2>2, <6>3, <6>4 DEF half
        <5> QED
          BY <5>1, <5>3, <5>4, <5>5, <5>6
      <4>2. /\ {n \in 0 .. 7 : 2 ^ n = u} # {}
            /\ (CHOOSE n \in {m \in 0 .. 7 : 2 ^ m = u} : TRUE) = k
        <5> HIDE DEF u, k
        <5> QED
          BY <4>1, MaskIs
      <4>3. at.h + l = (r % 64) % 32
        BY <1>3, <2>1, <2>2
      <4>4. MaskedBit(l, half) = Bits("qh", at.h + l, k, 1)
        <5> HIDE DEF k
        <5> QED
          BY <4>2 DEF MaskedBit
      <4>5. MaskedBit(l, half) = BitsAt(call.type, i, "qh", at.h + l, k, 1)
        <5> HIDE DEF k, l, half
        <5> QED
          BY <4>4, HereIs
      <4> QED
        BY <3>2, <4>3, <4>5 DEF HighBit
    <3> QED
      BY <3>1, <3>2
  <2>7. Nibble("qs", at.q + l, half) \o HighBit(l, half) = QuantAt(call.type, i, r)
    BY <2>5, <2>6 DEF QuantAt
  <2>8. /\ ScaleBits(at.s + half) = ScaleAt(call.type, i, r)
        /\ MinBits(at.s + half) = MinAt(call.type, i, r)
    <3> DEFINE k == r \div 32
    <3>1. at.s + half = k
      BY <1>3, <2>2
    <3> HIDE DEF k
    <3>2. ScaleBits(k) = PackedScale(call.type, i, k)
      BY HereIs DEF ScaleBits, PackedScale
    <3>3. MinBits(k) = PackedMin(call.type, i, k)
      BY HereIs DEF MinBits, PackedMin
    <3> QED
      BY <3>1, <3>2, <3>3 DEF ScaleAt, MinAt, k
  <2>9. LowestAt(call.type) = 0
    BY DEF LowestAt
  <2> DEFINE quant == Nibble("qs", at.q + l, half) \o HighBit(l, half)
             scale == ScaleBits(at.s + half)
             min == MinBits(at.s + half)
  <2>10. /\ quant = QuantAt(call.type, i, r) /\ scale = ScaleAt(call.type, i, r)
         /\ min = MinAt(call.type, i, r) /\ 0 = LowestAt(call.type)
         /\ Chunk64[e] = Element(quant, 0, scale, min)
    BY <2>4, <2>7, <2>8, <2>9
  <2>11. Chunk64[e] = ElementAt(call.type, i, r)
    <3> HIDE DEF quant, scale, min
    <3> QED
      BY <1>1, <2>10, ElementIs
  <2> QED
    BY <2>1, <2>11 DEF r
<1> QED
  BY <1>1, <1>2, <1>4

(* What advancing the pointers makes of them.                              *)
PointerValues == [q : Int, h : Int, s : Int, u1 : Int, u2 : Int]

LEMMA SamePointers ==
    ASSUME NEW one \in PointerValues, NEW two \in PointerValues,
           one.q = two.q, one.h = two.h, one.s = two.s, one.u1 = two.u1, one.u2 = two.u2
    PROVE  one = two
BY DEF PointerValues

LEMMA PointersAre ==
    ASSUME NEW type, NEW place \in Nat
    PROVE  /\ Pointers(type, place) \in PointerValues
           /\ Masks(type, place)[1] \in Int /\ Masks(type, place)[2] \in Int
<1>1. Masks(type, place)[1] \in Int /\ Masks(type, place)[2] \in Int
  BY DEF Masks
<1>2. place \div 2 \in Int /\ place \div 4 \in Int /\ place \div 16 \in Int
      /\ place \div 32 \in Int
  OBVIOUS
<1> QED
  BY <1>1, <1>2 DEF Pointers, PointerValues

LEMMA UpdatedPointers ==
    ASSUME NEW p \in PointerValues, NEW a \in Int, NEW b \in Int
    PROVE  [p EXCEPT !.q = a, !.s = b] \in PointerValues
BY DEF PointerValues

LEMMA UpdatedHighPointers ==
    ASSUME NEW p \in PointerValues, NEW a \in Int, NEW b \in Int, NEW c \in Int
    PROVE  [p EXCEPT !.q = a, !.h = b, !.s = c] \in PointerValues
BY DEF PointerValues

LEMMA UpdatedMasks ==
    ASSUME NEW p \in PointerValues, NEW a \in Int, NEW b \in Int, NEW c \in Int, NEW d \in Int
    PROVE  [p EXCEPT !.q = a, !.s = b, !.u1 = c, !.u2 = d] \in PointerValues
BY DEF PointerValues

LEMMA Advanced64 ==
    ASSUME at \in PointerValues,
           NEW new, new = [at EXCEPT !.q = @ + 32, !.s = @ + 2]
    PROVE  /\ new \in PointerValues
           /\ new.q = at.q + 32 /\ new.h = at.h /\ new.s = at.s + 2
           /\ new.u1 = at.u1 /\ new.u2 = at.u2
<1>1. at.q + 32 \in Int /\ at.s + 2 \in Int
  BY DEF PointerValues
<1>2. new \in PointerValues
  BY <1>1, UpdatedPointers
<1>3. DOMAIN at = {"q", "h", "s", "u1", "u2"}
  BY DEF PointerValues
<1>4. new.q = at.q + 32
  BY <1>3
<1>5. new.h = at.h
  BY <1>3
<1>6. new.s = at.s + 2
  BY <1>3
<1>7. new.u1 = at.u1
  BY <1>3
<1>8. new.u2 = at.u2
  BY <1>3
<1> QED
  BY <1>2, <1>4, <1>5, <1>6, <1>7, <1>8

LEMMA AdvancedMasks ==
    ASSUME at \in PointerValues,
           NEW new,
           new = [at EXCEPT !.q = @ + 32, !.s = @ + 2, !.u1 = (4 * @) % 256, !.u2 = (4 * @) % 256]
    PROVE  /\ new \in PointerValues
           /\ new.q = at.q + 32 /\ new.h = at.h /\ new.s = at.s + 2
           /\ new.u1 = (4 * at.u1) % 256 /\ new.u2 = (4 * at.u2) % 256
<1>1. /\ at.q + 32 \in Int /\ at.s + 2 \in Int /\ (4 * at.u1) % 256 \in Int
      /\ (4 * at.u2) % 256 \in Int
  BY DEF PointerValues
<1>2. new \in PointerValues
  BY <1>1, UpdatedMasks, ZenonT(40)
<1>3. DOMAIN at = {"q", "h", "s", "u1", "u2"}
  BY DEF PointerValues
<1>4. new.q = at.q + 32
  BY <1>3
<1>5. new.h = at.h
  BY <1>3
<1>6. new.s = at.s + 2
  BY <1>3
<1>7. new.u1 = (4 * at.u1) % 256
  BY <1>3
<1>8. new.u2 = (4 * at.u2) % 256
  BY <1>3
<1> QED
  BY <1>2, <1>4, <1>5, <1>6, <1>7, <1>8

LEMMA Advanced128 ==
    ASSUME at \in PointerValues,
           NEW new, new = [at EXCEPT !.q = @ + 64, !.h = @ + 32, !.s = @ + 8]
    PROVE  /\ new \in PointerValues
           /\ new.q = at.q + 64 /\ new.h = at.h + 32 /\ new.s = at.s + 8
           /\ new.u1 = at.u1 /\ new.u2 = at.u2
<1>1. at.q + 64 \in Int /\ at.h + 32 \in Int /\ at.s + 8 \in Int
  BY DEF PointerValues
<1>2. new \in PointerValues
  BY <1>1, UpdatedHighPointers
<1>3. DOMAIN at = {"q", "h", "s", "u1", "u2"}
  BY DEF PointerValues
<1>4. new.q = at.q + 64
  BY <1>3
<1>5. new.h = at.h + 32
  BY <1>3
<1>6. new.s = at.s + 8
  BY <1>3
<1>7. new.u1 = at.u1
  BY <1>3
<1>8. new.u2 = at.u2
  BY <1>3
<1> QED
  BY <1>2, <1>4, <1>5, <1>6, <1>7, <1>8

LEMMA Q4KStep == Unpacking /\ DeqQ4K => Unpacking'
<1> SUFFICES ASSUME Unpacking, DeqQ4K PROVE Unpacking'
  OBVIOUS
<1> DEFINE pointers == [at EXCEPT !.q = @ + 32, !.s = @ + 2]
<1>1. Converting({"q4_K"}) /\ j < 256 /\ Write(Chunk64) /\ NextChunk(64, pointers)
  BY DEF DeqQ4K, InChunk
<1>2. {"q4_K"} \subseteq DOMAIN Block \ {"f16"}
  BY TypesListed
<1>3. /\ call.type = "q4_K" /\ i \in Nat /\ j \in Stops(call.type)
      /\ at = Pointers(call.type, j)
  BY <1>1, <1>2, Underway
<1>4. j \in {0, 64, 128, 192}
  BY <1>1, <1>3 DEF Stops
<1>5. j + 64 \in Stops(call.type) /\ j + 64 > 0
  BY <1>3, <1>4 DEF Stops
<1>6. pointers = Pointers(call.type, j + 64)
  <2>1. (j + 64) \div 2 = j \div 2 + 32 /\ (j + 64) \div 32 = j \div 32 + 2
    BY <1>4
  <2>2. Masks(call.type, j + 64) = Masks(call.type, j)
    BY <1>3 DEF Masks
  <2> DEFINE next == Pointers(call.type, j + 64)
  <2>3. at \in PointerValues /\ next \in PointerValues
    <3>1. j \in Nat /\ j + 64 \in Nat
      BY <1>4
    <3> QED
      BY <1>3, <3>1, PointersAre
  <2>4. /\ at.q = j \div 2 /\ at.h = 0 /\ at.s = j \div 32
        /\ at.u1 = Masks(call.type, j)[1] /\ at.u2 = Masks(call.type, j)[2]
    BY <1>3 DEF Pointers
  <2>5. /\ next.q = (j + 64) \div 2 /\ next.h = 0 /\ next.s = (j + 64) \div 32
        /\ next.u1 = Masks(call.type, j + 64)[1] /\ next.u2 = Masks(call.type, j + 64)[2]
    BY <1>3 DEF Pointers
  <2> DEFINE new == pointers
  <2>6. new = pointers
    OBVIOUS
  <2> HIDE DEF next, new
  <2>7. new \in PointerValues /\ new.q = next.q /\ new.h = next.h /\ new.s = next.s
        /\ new.u1 = next.u1 /\ new.u2 = next.u2
    BY <2>1, <2>2, <2>3, <2>4, <2>5, <2>6, Advanced64
  <2> QED
    BY <2>3, <2>6, <2>7, SamePointers DEF next
<1>7. /\ DOMAIN Chunk64 = InBlock(j, 64)
      /\ \A e \in DOMAIN Chunk64 :
             Chunk64[e] = ElementAt(call.type, e \div Per(call.type), e % Per(call.type))
  BY <1>3, <1>4, Chunk64Is
<1> DEFINE new == Chunk64
<1> HIDE DEF new, pointers
<1>8. /\ Write(new) /\ DOMAIN new = InBlock(j, 64) /\ NextChunk(64, pointers)
      /\ \A e \in DOMAIN new :
             new[e] = ElementAt(call.type, e \div Per(call.type), e % Per(call.type))
  BY <1>1, <1>7 DEF new
<1> QED
  BY <1>1, <1>2, <1>5, <1>6, <1>8, ChunkStep

LEMMA Q5KStep == Unpacking /\ DeqQ5K => Unpacking'
<1> SUFFICES ASSUME Unpacking, DeqQ5K PROVE Unpacking'
  OBVIOUS
<1> DEFINE pointers == [at EXCEPT !.q = @ + 32, !.s = @ + 2,
                                  !.u1 = (4 * @) % 256, !.u2 = (4 * @) % 256]
<1>1. Converting({"q5_K"}) /\ j < 256 /\ Write(Chunk64) /\ NextChunk(64, pointers)
  BY DEF DeqQ5K, InChunk
<1>2. {"q5_K"} \subseteq DOMAIN Block \ {"f16"}
  BY TypesListed
<1>3. /\ call.type = "q5_K" /\ i \in Nat /\ j \in Stops(call.type)
      /\ at = Pointers(call.type, j)
  BY <1>1, <1>2, Underway
<1>4. j \in {0, 64, 128, 192}
  BY <1>1, <1>3 DEF Stops
<1>5. j + 64 \in Stops(call.type) /\ j + 64 > 0
  BY <1>3, <1>4 DEF Stops
<1>6. pointers = Pointers(call.type, j + 64)
  <2>1. (j + 64) \div 2 = j \div 2 + 32 /\ (j + 64) \div 32 = j \div 32 + 2
    BY <1>4
  <2>2. /\ Masks(call.type, j + 64)[1] = (4 * Masks(call.type, j)[1]) % 256
        /\ Masks(call.type, j + 64)[2] = (4 * Masks(call.type, j)[2]) % 256
    <3>1. CASE j = 0
      BY <1>3, <3>1 DEF Masks
    <3>2. CASE j = 64
      BY <1>3, <3>2 DEF Masks
    <3>3. CASE j = 128
      BY <1>3, <3>3 DEF Masks
    <3>4. CASE j = 192
      BY <1>3, <3>4 DEF Masks
    <3> QED
      BY <1>4, <3>1, <3>2, <3>3, <3>4
  <2> DEFINE next == Pointers(call.type, j + 64)
  <2>3. at \in PointerValues /\ next \in PointerValues
    <3>1. j \in Nat /\ j + 64 \in Nat
      BY <1>4
    <3> QED
      BY <1>3, <3>1, PointersAre
  <2>4. /\ at.q = j \div 2 /\ at.h = 0 /\ at.s = j \div 32
        /\ at.u1 = Masks(call.type, j)[1] /\ at.u2 = Masks(call.type, j)[2]
    BY <1>3 DEF Pointers
  <2>5. /\ next.q = (j + 64) \div 2 /\ next.h = 0 /\ next.s = (j + 64) \div 32
        /\ next.u1 = Masks(call.type, j + 64)[1] /\ next.u2 = Masks(call.type, j + 64)[2]
    BY <1>3 DEF Pointers
  <2> DEFINE new == pointers
  <2>6. new = pointers
    OBVIOUS
  <2> HIDE DEF next, new
  <2>7. new \in PointerValues /\ new.q = next.q /\ new.h = next.h /\ new.s = next.s
        /\ new.u1 = next.u1 /\ new.u2 = next.u2
    BY <2>1, <2>2, <2>3, <2>4, <2>5, <2>6, AdvancedMasks
  <2> QED
    BY <2>3, <2>6, <2>7, SamePointers DEF next
<1>7. /\ DOMAIN Chunk64 = InBlock(j, 64)
      /\ \A e \in DOMAIN Chunk64 :
             Chunk64[e] = ElementAt(call.type, e \div Per(call.type), e % Per(call.type))
  BY <1>3, <1>4, Chunk64Is
<1> DEFINE new == Chunk64
<1> HIDE DEF new, pointers
<1>8. /\ Write(new) /\ DOMAIN new = InBlock(j, 64) /\ NextChunk(64, pointers)
      /\ \A e \in DOMAIN new :
             new[e] = ElementAt(call.type, e \div Per(call.type), e % Per(call.type))
  BY <1>1, <1>7 DEF new
<1> QED
  BY <1>1, <1>2, <1>5, <1>6, <1>8, ChunkStep

(* The same of q6_K, whose chunks have 128 elements.                       *)
LEMMA Chunk128At ==
    ASSUME NEW place \in {0, 128}, NEW t \in 0 .. 127, NEW r, r = place + t
    PROVE  /\ r \in 0 .. 255 /\ r % 128 = t /\ r \div 128 = place \div 128
           /\ place \div 2 = 64 * (r \div 128) /\ place \div 4 = 32 * (r \div 128)
           /\ place \div 16 + ((t % 32) \div 16) + 2 * (t \div 32) = r \div 16
<1>1. CASE place = 0
  BY <1>1, SMT
<1>2. CASE place = 128
  BY <1>2, SMT
<1> QED
  BY <1>1, <1>2

LEMMA Chunk128Is ==
    ASSUME call.type = "q6_K", i \in Nat, j \in {0, 128}, at = Pointers(call.type, j)
    PROVE  /\ DOMAIN Chunk128 = InBlock(j, 128)
           /\ \A e \in DOMAIN Chunk128 :
                  Chunk128[e] = ElementAt(call.type, e \div Per(call.type), e % Per(call.type))
<1>1. Per(call.type) = 256 /\ call.type \in DOMAIN Block \ {"f16", "f32"}
  BY PerIs, TypesListed
<1>2. DOMAIN Chunk128 = InBlock(j, 128)
  BY DEF Chunk128
<1>3. at.q = j \div 2 /\ at.h = j \div 4 /\ at.s = j \div 16
  BY DEF Pointers
<1>4. ASSUME NEW e \in InBlock(j, 128)
      PROVE  Chunk128[e] = ElementAt(call.type, e \div 256, e % 256)
  <2> DEFINE t == e - (i * 256 + j)
             r == e % 256
             k == t \div 32
             l == t % 32
  <2>1. /\ e \in Nat /\ e \div 256 = i /\ t \in 0 .. 127 /\ r = j + t
    <3>1. e \in i * 256 + j .. i * 256 + j + 128 - 1
      BY <1>1 DEF InBlock
    <3>2. 256 \in {1, 32, 256} /\ j \in Nat /\ 128 \in Nat /\ j + 128 <= 256
      OBVIOUS
    <3> QED
      BY <3>1, <3>2, InBlockOf
  <2>2. /\ r \in 0 .. 255 /\ r % 128 = t
        /\ j \div 2 = 64 * (r \div 128) /\ j \div 4 = 32 * (r \div 128)
        /\ j \div 16 + (l \div 16) + 2 * k = r \div 16
    <3> HIDE DEF t, r
    <3> QED
      BY <2>1, Chunk128At, SMTT(30)
  <2>3. e % 128 = t
    <3>1. e = i * 256 + j + t
      BY <2>1
    <3>2. j = 0 \/ j = 128
      OBVIOUS
    <3> HIDE DEF t
    <3> QED
      BY <2>1, <3>1, <3>2
  <2> DEFINE quant == Nibble("ql", at.q + l + 32 * (k % 2), k \div 2)
                          \o Bits("qh", at.h + l, 2 * k, 2)
             scale == Bits("scales", at.s + (l \div 16) + 2 * k, 0, 8)
  <2>4. Chunk128[e] = Element(quant, -32, scale, <<>>)
    BY <2>3 DEF Chunk128
  <2> HIDE DEF t, r
  <2>5. /\ at.q + l + 32 * (k % 2) =
               64 * (r \div 128) + ((r % 128) % 32) + 32 * (((r % 128) \div 32) % 2)
        /\ at.h + l = 32 * (r \div 128) + ((r % 128) % 32)
        /\ at.s + (l \div 16) + 2 * k = r \div 16
        /\ k = (r % 128) \div 32
    BY <1>3, <2>2
  <2>6. /\ quant = QuantAt(call.type, i, r) /\ scale = ScaleAt(call.type, i, r)
        /\ <<>> = MinAt(call.type, i, r) /\ -32 = LowestAt(call.type)
    <3> DEFINE low == at.q + l + 32 * (k % 2)
               high == at.h + l
               part == at.s + (l \div 16) + 2 * k
    <3> HIDE DEF low, high, part, k
    <3>1. /\ Nibble("ql", low, k \div 2) =
                 BitsAt(call.type, i, "ql", low, 4 * (k \div 2), 4)
          /\ Bits("qh", high, 2 * k, 2) = BitsAt(call.type, i, "qh", high, 2 * k, 2)
          /\ Bits("scales", part, 0, 8) = BitsAt(call.type, i, "scales", part, 0, 8)
      BY HereIs DEF Nibble
    <3>2. quant = QuantAt(call.type, i, r)
      BY <2>5, <3>1 DEF QuantAt, low, high
    <3>3. scale = ScaleAt(call.type, i, r)
      BY <2>5, <3>1 DEF ScaleAt, part
    <3>4. <<>> = MinAt(call.type, i, r) /\ -32 = LowestAt(call.type)
      BY DEF MinAt, LowestAt
    <3> QED
      BY <3>2, <3>3, <3>4
  <2>7. Chunk128[e] = ElementAt(call.type, i, r)
    <3> HIDE DEF quant, scale
    <3> QED
      BY <1>1, <2>4, <2>6, ElementIs
  <2> QED
    BY <2>1, <2>7 DEF r
<1> QED
  BY <1>1, <1>2, <1>4

LEMMA Q6KStep == Unpacking /\ DeqQ6K => Unpacking'
<1> SUFFICES ASSUME Unpacking, DeqQ6K PROVE Unpacking'
  OBVIOUS
<1> DEFINE pointers == [at EXCEPT !.q = @ + 64, !.h = @ + 32, !.s = @ + 8]
<1>1. Converting({"q6_K"}) /\ j < 256 /\ Write(Chunk128) /\ NextChunk(128, pointers)
  BY DEF DeqQ6K, InChunk
<1>2. {"q6_K"} \subseteq DOMAIN Block \ {"f16"}
  BY TypesListed
<1>3. /\ call.type = "q6_K" /\ i \in Nat /\ j \in Stops(call.type)
      /\ at = Pointers(call.type, j)
  BY <1>1, <1>2, Underway
<1>4. j \in {0, 128}
  BY <1>1, <1>3 DEF Stops
<1>5. j + 128 \in Stops(call.type) /\ j + 128 > 0
  BY <1>3, <1>4 DEF Stops
<1>6. pointers = Pointers(call.type, j + 128)
  <2>1. (j + 128) \div 2 = j \div 2 + 64 /\ (j + 128) \div 4 = j \div 4 + 32
        /\ (j + 128) \div 16 = j \div 16 + 8
    BY <1>4
  <2>2. Masks(call.type, j + 128) = Masks(call.type, j)
    BY <1>3 DEF Masks
  <2> DEFINE next == Pointers(call.type, j + 128)
  <2>3. at \in PointerValues /\ next \in PointerValues
    <3>1. j \in Nat /\ j + 128 \in Nat
      BY <1>4
    <3> QED
      BY <1>3, <3>1, PointersAre
  <2>4. /\ at.q = j \div 2 /\ at.h = j \div 4 /\ at.s = j \div 16
        /\ at.u1 = Masks(call.type, j)[1] /\ at.u2 = Masks(call.type, j)[2]
    BY <1>3 DEF Pointers
  <2>5. /\ next.q = (j + 128) \div 2 /\ next.h = (j + 128) \div 4 /\ next.s = (j + 128) \div 16
        /\ next.u1 = Masks(call.type, j + 128)[1] /\ next.u2 = Masks(call.type, j + 128)[2]
    BY <1>3 DEF Pointers
  <2> DEFINE new == pointers
  <2>6. new = pointers
    OBVIOUS
  <2> HIDE DEF next, new
  <2>7. new \in PointerValues /\ new.q = next.q /\ new.h = next.h /\ new.s = next.s
        /\ new.u1 = next.u1 /\ new.u2 = next.u2
    BY <2>1, <2>2, <2>3, <2>4, <2>5, <2>6, Advanced128
  <2> QED
    BY <2>3, <2>6, <2>7, SamePointers DEF next
<1>7. /\ DOMAIN Chunk128 = InBlock(j, 128)
      /\ \A e \in DOMAIN Chunk128 :
             Chunk128[e] = ElementAt(call.type, e \div Per(call.type), e % Per(call.type))
  BY <1>3, <1>4, Chunk128Is
<1> DEFINE new == Chunk128
<1> HIDE DEF new, pointers
<1>8. /\ Write(new) /\ DOMAIN new = InBlock(j, 128) /\ NextChunk(128, pointers)
      /\ \A e \in DOMAIN new :
             new[e] = ElementAt(call.type, e \div Per(call.type), e % Per(call.type))
  BY <1>1, <1>7 DEF new
<1> QED
  BY <1>1, <1>2, <1>5, <1>6, <1>8, ChunkStep

LEMMA EndStep == Unpacking /\ EndSuperBlock => Unpacking'
<1> SUFFICES ASSUME Unpacking, EndSuperBlock PROVE Unpacking'
  OBVIOUS
<1> DEFINE N == call.n \div Per(call.type)
<1>1. Converting({"q4_K", "q5_K", "q6_K"}) /\ j = 256
      /\ i' = i + 1 /\ j' = 0 /\ at' = Start /\ call' = call /\ pc' = pc /\ y' = y
  BY DEF EndSuperBlock
<1>2. {"q4_K", "q5_K", "q6_K"} \subseteq DOMAIN Block
  BY TypesListed
<1>3. /\ call.type \in {"q4_K", "q5_K", "q6_K"} /\ pc = "convert" /\ call \in Calls /\ Convertible
      /\ i \in Nat /\ i < N /\ N \in Nat /\ (call.type # "f16" => Written)
  BY <1>1, <1>2, Underway
<1>4. Per(call.type) = 256 /\ Per(call.type)' = 256 /\ N' = N /\ Convertible'
  BY <1>1, <1>3, PerIs DEF Convertible, Per
<1>5. Written'
  <2>1. (i + 1) * 256 + 0 - 1 = i * 256 + 256 - 1
    BY <1>3
  <2> QED
    BY <1>1, <1>3, <1>4, <2>1 DEF Written
<1>6. (j \in Stops(call.type))' /\ (at = Pointers(call.type, j))'
  <2>1. Masks(call.type, 0) = <<1, 2>> /\ 0 \div 2 = 0 /\ 0 \div 4 = 0 /\ 0 \div 16 = 0
        /\ 0 \div 32 = 0
    BY DEF Masks
  <2>2. Pointers(call.type, 0) = Start
    BY <2>1 DEF Pointers, Start
  <2>3. 0 \in Stops(call.type)
    BY <1>3 DEF Stops
  <2> QED
    BY <1>1, <2>2, <2>3 DEF Stops, Pointers, Masks
<1>7. i' \in 0 .. N
  BY <1>1, <1>3
<1> QED
  BY <1>1, <1>3, <1>4, <1>5, <1>6, <1>7 DEF Unpacking

LEMMA UnpackingInit == Init => Unpacking
BY DEF Init, Unpacking

LEMMA BeginStep == Unpacking /\ Begin => Unpacking'
<1> SUFFICES ASSUME Unpacking, Begin PROVE Unpacking'
  OBVIOUS
<1>1. pc = "begin" /\ Convertible /\ pc' = "convert" /\ call' = call /\ i' = i /\ j' = j
      /\ at' = at /\ y' = y /\ call \in Calls /\ i = 0 /\ j = 0 /\ at = Start /\ y = <<>>
  BY DEF Begin, Unpacking
<1>2. call.n \in Nat /\ call.type \in DOMAIN Block
  BY <1>1, CallAssumption DEF Convertible
<1>3. Per(call.type) \in {1, 32, 256}
  BY <1>2, TypesListed, PerIs
<1>4. call.n \div Per(call.type) \in Nat
  BY <1>2, <1>3
<1>5. Pointers(call.type, 0) = Start /\ 0 \in Stops(call.type)
  <2>1. Masks(call.type, 0) = <<1, 2>> /\ 0 \div 2 = 0 /\ 0 \div 4 = 0 /\ 0 \div 16 = 0
        /\ 0 \div 32 = 0
    BY DEF Masks
  <2> QED
    BY <2>1 DEF Pointers, Start, Stops
<1>6. Written
  BY <1>1, <1>3 DEF Written
<1>7. Convertible' /\ Written' /\ Per(call.type)' = Per(call.type)
      /\ Stops(call.type)' = Stops(call.type)
      /\ Pointers(call.type, j)' = Pointers(call.type, j)
  BY <1>1, <1>6 DEF Convertible, Written, Per, Stops, Pointers, Masks, ElementAt
<1> QED
  BY <1>1, <1>4, <1>5, <1>7 DEF Unpacking

LEMMA RestStep == Unpacking /\ (Refuse \/ Return \/ UNCHANGED vars) => Unpacking'
<1> SUFFICES ASSUME Unpacking, Refuse \/ Return \/ UNCHANGED vars PROVE Unpacking'
  OBVIOUS
<1>1. call' = call /\ i' = i /\ j' = j /\ at' = at /\ y' = y
  BY DEF Refuse, Return, vars
<1>2. /\ Convertible' <=> Convertible
      /\ Written' <=> Written
      /\ Per(call.type)' = Per(call.type)
      /\ Stops(call.type)' = Stops(call.type)
      /\ Pointers(call.type, j)' = Pointers(call.type, j)
  BY <1>1 DEF Convertible, Written, Per, Stops, Pointers, Masks, ElementAt
<1>3. CASE Refuse
  BY <1>1, <1>2, <1>3 DEF Refuse, Unpacking
<1>4. CASE Return
  BY <1>1, <1>2, <1>4 DEF Return, Unpacking
<1>5. CASE UNCHANGED vars
  BY <1>1, <1>2, <1>5 DEF vars, Unpacking
<1> QED
  BY <1>3, <1>4, <1>5

LEMMA HalfStep == Unpacking /\ ConvertHalf => Unpacking'
<1> SUFFICES ASSUME Unpacking, ConvertHalf PROVE Unpacking'
  OBVIOUS
<1>1. Converting({"f16"}) /\ i' = i + 1 /\ call' = call /\ pc' = pc /\ j' = j /\ at' = at
  BY DEF ConvertHalf, NextBlock
<1>2. {"f16"} \subseteq DOMAIN Block
  BY TypesListed
<1> DEFINE N == call.n \div Per(call.type)
<1>3. /\ call.type = "f16" /\ pc = "convert" /\ call \in Calls /\ Convertible
      /\ i \in Nat /\ i < N /\ N \in Nat /\ j \in Stops(call.type)
      /\ at = Pointers(call.type, j)
  BY <1>1, <1>2, Underway
<1>4. j = 0
  BY <1>3 DEF Stops
<1>5. /\ Convertible' /\ N' = N
      /\ Stops(call.type)' = Stops(call.type)
      /\ Pointers(call.type, j)' = Pointers(call.type, j)
  BY <1>1, <1>3 DEF Convertible, Per, Stops, Pointers, Masks
<1>6. i' \in 0 .. N
  BY <1>1, <1>3
<1> QED
  BY <1>1, <1>3, <1>4, <1>5, <1>6 DEF Unpacking

LEMMA UnpackingStep == Unpacking /\ [Next]_vars => Unpacking'
BY CopyStep, HalfStep, Q4Step, Q5Step, Q8Step, Q4KStep, Q5KStep, Q6KStep, EndStep,
   BeginStep, RestStep DEF Next

(* The loops of quant_to_f32 are where their counters say, and everything  *)
(* before that place is unpacked.                                          *)
THEOREM UnpackingHolds == Spec => []Unpacking
BY UnpackingInit, UnpackingStep, PTL DEF Spec

----------------------------------------------------------------------------
(***************************************************************************)
(* What the parts of all elements cover.                                   *)
(***************************************************************************)
LEMMA BitsAtTyped ==
    ASSUME NEW type, NEW b, NEW member, NEW index, NEW first \in Nat, NEW count \in Nat
    PROVE  BitsAt(type, b, member, index, first, count)
               \in Seq({At(type, b, member, index)} \X Nat)
<1> DEFINE byte == At(type, b, member, index)
           bits == [k \in 1 .. count |-> <<byte, first + k - 1>>]
<1>1. BitsAt(type, b, member, index, first, count) = bits
  BY DEF BitsAt
<1> HIDE DEF byte
<1>2. \A k \in 1 .. count : first + k - 1 \in Nat
  OBVIOUS
<1>3. bits \in Seq({byte} \X Nat) /\ Len(bits) = count /\ DOMAIN bits = 1 .. count
  BY <1>2
<1> HIDE DEF bits
<1> QED
  BY <1>1, <1>3 DEF byte

LEMMA BitsAtLength ==
    ASSUME NEW type, NEW b, NEW member, NEW index, NEW first \in Nat, NEW count \in Nat
    PROVE  Len(BitsAt(type, b, member, index, first, count)) = count
<1> DEFINE byte == At(type, b, member, index)
           bits == [k \in 1 .. count |-> <<byte, first + k - 1>>]
<1>1. BitsAt(type, b, member, index, first, count) = bits
  BY DEF BitsAt
<1> HIDE DEF byte
<1>2. \A k \in 1 .. count : first + k - 1 \in Nat
  OBVIOUS
<1>3. bits \in Seq({byte} \X Nat) /\ Len(bits) = count /\ DOMAIN bits = 1 .. count
  BY <1>2
<1> HIDE DEF bits
<1> QED
  BY <1>1, <1>3 DEF byte

(* The bits from the first on, count of them, of byte x, and bits moved by *)
(* base bytes.                                                             *)
Spot(x, first, count) == {x} \X (first .. first + count - 1)
Moved(base, bits) == {<<base + p[1], p[2]>> : p \in bits}

Origin(type, b) == b * Block[type][2]

LEMMA BitsAtIs ==
    ASSUME NEW type, NEW b, NEW member, NEW index, NEW first \in Nat, NEW count \in Nat
    PROVE  BitsIn(BitsAt(type, b, member, index, first, count)) =
               Spot(At(type, b, member, index), first, count)
<1> DEFINE byte == At(type, b, member, index)
           bits == [k \in 1 .. count |-> <<byte, first + k - 1>>]
<1>1. BitsAt(type, b, member, index, first, count) = bits
  BY DEF BitsAt
<1> HIDE DEF byte
<1>2. \A k \in 1 .. count : first + k - 1 \in Nat
  OBVIOUS
<1>3. bits \in Seq({byte} \X Nat) /\ Len(bits) = count /\ DOMAIN bits = 1 .. count
  BY <1>2
<1>4. BitsIn(bits) = {byte} \X (first .. first + count - 1)
  <2>1. \A k \in 1 .. count : bits[k] = <<byte, first + k - 1>>
    OBVIOUS
  <2>2. ASSUME NEW c \in first .. first + count - 1
        PROVE  <<byte, c>> \in BitsIn(bits)
    <3>1. c - first + 1 \in 1 .. count /\ first + (c - first + 1) - 1 = c
      OBVIOUS
    <3> HIDE DEF bits
    <3> QED
      BY <1>3, <2>1, <3>1 DEF BitsIn
  <2>3. ASSUME NEW p \in BitsIn(bits)
        PROVE  p \in {byte} \X (first .. first + count - 1)
    <3>1. PICK k \in 1 .. count : p = bits[k]
      BY <1>3 DEF BitsIn
    <3> QED
      BY <2>1, <3>1
  <2> QED
    BY <2>2, <2>3
<1> HIDE DEF bits
<1> QED
  BY <1>1, <1>4 DEF byte, Spot

LEMMA LengthsJoined ==
    ASSUME NEW S, NEW T, NEW s \in Seq(S), NEW t \in Seq(T)
    PROVE  s \o t \in Seq(S \cup T) /\ Len(s \o t) = Len(s) + Len(t)
<1>1. s \in Seq(S \cup T) /\ t \in Seq(S \cup T)
  OBVIOUS
<1> QED
  BY <1>1

LEMMA BitsJoined ==
    ASSUME NEW S, NEW T, NEW s \in Seq(S), NEW t \in Seq(T)
    PROVE  BitsIn(s \o t) = BitsIn(s) \cup BitsIn(t)
<1>1. s \in Seq(S \cup T) /\ t \in Seq(S \cup T) /\ Len(s) \in Nat /\ Len(t) \in Nat
  OBVIOUS
<1>2. s \o t \in Seq(S \cup T) /\ Len(s \o t) = Len(s) + Len(t)
  BY <1>1
<1>3. /\ \A k \in 1 .. Len(s) : (s \o t)[k] = s[k]
      /\ \A k \in 1 .. Len(t) : (s \o t)[Len(s) + k] = t[k]
  BY <1>1
<1>4. ASSUME NEW k \in 1 .. Len(s) + Len(t)
      PROVE  k \in 1 .. Len(s) \/ (k - Len(s) \in 1 .. Len(t) /\ Len(s) + (k - Len(s)) = k)
  BY <1>1
<1>5. /\ DOMAIN s = 1 .. Len(s) /\ DOMAIN t = 1 .. Len(t)
      /\ DOMAIN (s \o t) = 1 .. Len(s) + Len(t)
  BY <1>1, <1>2
<1>6. ASSUME NEW k \in 1 .. Len(t) PROVE Len(s) + k \in 1 .. Len(s) + Len(t)
  BY <1>1
<1>7. BitsIn(s \o t) \subseteq BitsIn(s) \cup BitsIn(t)
  <2> SUFFICES ASSUME NEW k \in 1 .. Len(s) + Len(t)
               PROVE  (s \o t)[k] \in BitsIn(s) \cup BitsIn(t)
    BY <1>5 DEF BitsIn
  <2> QED
    BY <1>3, <1>4, <1>5 DEF BitsIn
<1>8. BitsIn(s) \subseteq BitsIn(s \o t)
  <2> SUFFICES ASSUME NEW k \in 1 .. Len(s) PROVE s[k] \in BitsIn(s \o t)
    BY <1>5 DEF BitsIn
  <2>1. k \in 1 .. Len(s) + Len(t)
    BY <1>1
  <2> QED
    BY <1>3, <1>5, <2>1 DEF BitsIn
<1>9. BitsIn(t) \subseteq BitsIn(s \o t)
  <2> SUFFICES ASSUME NEW k \in 1 .. Len(t) PROVE t[k] \in BitsIn(s \o t)
    BY <1>5 DEF BitsIn
  <2> QED
    BY <1>3, <1>5, <1>6 DEF BitsIn
<1> QED
  BY <1>7, <1>8, <1>9

LEMMA MovedSpot ==
    ASSUME NEW base \in Nat, NEW x \in Nat, NEW first \in Nat, NEW count \in Nat
    PROVE  Moved(base, Spot(x, first, count)) = Spot(base + x, first, count)
<1> DEFINE places == first .. first + count - 1
           S == {x} \X places
           T == {base + x} \X places
<1>1. Spot(x, first, count) = S /\ Spot(base + x, first, count) = T
  BY DEF Spot
<1> HIDE DEF places
<1>2. ASSUME NEW p \in S PROVE <<base + p[1], p[2]>> \in T
  OBVIOUS
<1>3. ASSUME NEW q \in T PROVE \E p \in S : q = <<base + p[1], p[2]>>
  <2>1. <<x, q[2]>> \in S /\ q = <<base + x, q[2]>>
    BY <1>3
  <2> QED
    BY <2>1
<1> HIDE DEF S, T
<1>4. Moved(base, S) = T
  BY <1>2, <1>3 DEF Moved
<1> QED
  BY <1>1, <1>4

LEMMA MovedBoth ==
    ASSUME NEW base, NEW S, NEW T
    PROVE  Moved(base, S \cup T) = Moved(base, S) \cup Moved(base, T)
BY DEF Moved

LEMMA ProductIsNat == ASSUME NEW a \in Nat, NEW b \in Nat PROVE a * b \in Nat
OBVIOUS

(* A part of an element of block b, and two that follow each other.        *)
LEMMA PartAt ==
    ASSUME NEW type, NEW b \in Nat, NEW member, NEW index \in Nat,
           NEW first \in Nat, NEW count \in Nat,
           Block[type][2] \in Nat, Offset(type, member) \in Nat
    PROVE  BitsIn(BitsAt(type, b, member, index, first, count)) =
               Moved(Origin(type, b), Spot(Offset(type, member) + index, first, count))
<1> DEFINE base == Origin(type, b)
           x == Offset(type, member) + index
<1>1. base \in Nat
  BY ProductIsNat DEF Origin
<1>2. x \in Nat
  OBVIOUS
<1>3. At(type, b, member, index) = base + x
  <2>1. base + Offset(type, member) + index = base + x
    BY <1>1
  <2> QED
    BY <2>1 DEF At, Origin
<1>4. BitsIn(BitsAt(type, b, member, index, first, count)) = Spot(base + x, first, count)
  BY <1>3, BitsAtIs
<1> HIDE DEF base, x
<1>5. Moved(base, Spot(x, first, count)) = Spot(base + x, first, count)
  BY <1>1, <1>2, MovedSpot
<1> QED
  BY <1>4, <1>5 DEF base, x

LEMMA PartsJoined ==
    ASSUME NEW type, NEW b,
           NEW m1, NEW i1, NEW f1 \in Nat, NEW n1 \in Nat,
           NEW m2, NEW i2, NEW f2 \in Nat, NEW n2 \in Nat
    PROVE  BitsIn(BitsAt(type, b, m1, i1, f1, n1) \o BitsAt(type, b, m2, i2, f2, n2)) =
               BitsIn(BitsAt(type, b, m1, i1, f1, n1)) \cup BitsIn(BitsAt(type, b, m2, i2, f2, n2))
<1> DEFINE one == BitsAt(type, b, m1, i1, f1, n1)
           two == BitsAt(type, b, m2, i2, f2, n2)
           S == {At(type, b, m1, i1)} \X Nat
           T == {At(type, b, m2, i2)} \X Nat
<1>1. one \in Seq(S)
  BY BitsAtTyped
<1>2. two \in Seq(T)
  BY BitsAtTyped
<1> HIDE DEF one, two, S, T
<1>3. BitsIn(one \o two) = BitsIn(one) \cup BitsIn(two)
  BY <1>1, <1>2, BitsJoined
<1> QED
  BY <1>3 DEF one, two

LEMMA PartsLength ==
    ASSUME NEW type, NEW b,
           NEW m1, NEW i1, NEW f1 \in Nat, NEW n1 \in Nat,
           NEW m2, NEW i2, NEW f2 \in Nat, NEW n2 \in Nat
    PROVE  Len(BitsAt(type, b, m1, i1, f1, n1) \o BitsAt(type, b, m2, i2, f2, n2)) = n1 + n2
<1> DEFINE one == BitsAt(type, b, m1, i1, f1, n1)
           two == BitsAt(type, b, m2, i2, f2, n2)
           S == {At(type, b, m1, i1)} \X Nat
           T == {At(type, b, m2, i2)} \X Nat
<1>1. Len(one) = n1
  BY BitsAtLength
<1>2. Len(two) = n2
  BY BitsAtLength
<1>3. one \in Seq(S)
  BY BitsAtTyped
<1>4. two \in Seq(T)
  BY BitsAtTyped
<1> HIDE DEF one, two, S, T
<1>5. Len(one \o two) = Len(one) + Len(two)
  BY <1>3, <1>4, LengthsJoined
<1> QED
  BY <1>1, <1>2, <1>5 DEF one, two

----------------------------------------------------------------------------
(***************************************************************************)
(* The bits of an element, as places in its block, and that the elements   *)
(* of a block use every bit of some of its bytes.                          *)
(***************************************************************************)
Own(type, r) ==
    CASE type = "f32" ->
             Spot(0 + 0, 0, 8)
                 \cup Spot(0 + 1, 0, 8)
                 \cup Spot(0 + 2, 0, 8)
                 \cup Spot(0 + 3, 0, 8)
      [] type = "q4_0" ->
             Spot(2 + (r % 16), 4 * (r \div 16), 4)
      [] type = "q4_1" ->
             Spot(4 + (r % 16), 4 * (r \div 16), 4)
      [] type = "q5_0" ->
             Spot(6 + (r % 16), 4 * (r \div 16), 4)
                 \cup Spot(2 + (r \div 8), r % 8, 1)
      [] type = "q5_1" ->
             Spot(8 + (r % 16), 4 * (r \div 16), 4)
                 \cup Spot(4 + (r \div 8), r % 8, 1)
      [] type = "q8_0" ->
             Spot(2 + r, 0, 8)
      [] type = "q4_K" ->
             Spot(16 + (32 * (r \div 64) + ((r % 64) % 32)), 4 * ((r % 64) \div 32), 4)
      [] type = "q5_K" ->
             Spot(48 + (32 * (r \div 64) + ((r % 64) % 32)), 4 * ((r % 64) \div 32), 4)
                 \cup Spot(16 + ((r % 64) % 32), r \div 32, 1)
      [] type = "q6_K" ->
             Spot(0 + (64 * (r \div 128) + ((r % 128) % 32) + 32 * (((r % 128) \div 32) % 2)),
                  4 * (((r % 128) \div 32) \div 2), 4)
                 \cup Spot(128 + (32 * (r \div 128) + ((r % 128) % 32)), 2 * ((r % 128) \div 32), 2)

LEMMA SpotHas ==
    ASSUME NEW x, NEW first \in Nat, NEW count \in Nat, NEW c \in Nat,
           first <= c, c <= first + count - 1
    PROVE  <<x, c>> \in Spot(x, first, count)
<1>1. c \in first .. first + count - 1
  OBVIOUS
<1> QED
  BY <1>1 DEF Spot

LEMMA SpotFits ==
    ASSUME NEW lo \in Nat, NEW hi \in Nat, NEW x \in lo .. hi,
           NEW first \in Nat, NEW count \in Nat, first + count <= 8
    PROVE  Spot(x, first, count) \subseteq (lo .. hi) \X (0 .. 7)
<1>1. first .. first + count - 1 \subseteq 0 .. 7
  OBVIOUS
<1> QED
  BY <1>1 DEF Spot

(* The elements 0 to last of a block have their width, their bits are in   *)
(* the bytes lo to hi of the block, and every bit of these is in one.      *)
AsWide(type, last) ==
    \A b \in Nat, r \in 0 .. last : Len(QuantAt(type, b, r)) = Width[type]

Placed(type, last) ==
    \A b \in Nat, r \in 0 .. last :
        BitsIn(QuantAt(type, b, r)) = Moved(Origin(type, b), Own(type, r))

Fits(type, last, lo, hi) == \A r \in 0 .. last : Own(type, r)
        \subseteq (lo .. hi) \X (0 .. 7)

Fills(type, last, lo, hi) ==
    \A x \in lo .. hi, c \in 0 .. 7 : \E r \in 0 .. last : <<x, c>> \in Own(type, r)

LEMMA Parts_q4_0 == AsWide("q4_0", 31) /\ Placed("q4_0", 31)
<1> SUFFICES ASSUME NEW b \in Nat, NEW r \in 0 .. 31
             PROVE  /\ Len(QuantAt("q4_0", b, r)) = Width["q4_0"]
                    /\ BitsIn(QuantAt("q4_0", b, r)) = Moved(Origin("q4_0", b), Own("q4_0", r))
  BY DEF AsWide, Placed
<1> DEFINE index1 == r % 16
           first1 == 4 * (r \div 16)
           count1 == 4
<1>1. /\ index1 \in Nat /\ first1 \in Nat /\ count1 \in Nat
  OBVIOUS
<1>2. QuantAt("q4_0", b, r) =
          BitsAt("q4_0", b, "qs", index1, first1, count1)
  BY DEF QuantAt, LowNibble, ChunkNibble
<1>3. Own("q4_0", r) = Spot(2 + index1, first1, count1)
  BY DEF Own
<1>4. Block["q4_0"][2] \in Nat /\ Offset("q4_0", "qs") = 2 /\ Offset("q4_0", "qs") \in Nat
  BY Layout_q4_0
<1>5. Width["q4_0"] = count1
  BY DEF Width
<1> HIDE DEF index1, first1, count1
<1>6. Len(BitsAt("q4_0", b, "qs", index1, first1, count1)) = count1
  BY <1>1, BitsAtLength
<1>7. BitsIn(BitsAt("q4_0", b, "qs", index1, first1, count1)) =
          Moved(Origin("q4_0", b), Spot(Offset("q4_0", "qs") + index1, first1, count1))
  BY <1>1, <1>4, PartAt
<1>8. Spot(Offset("q4_0", "qs") + index1, first1, count1)
      = Own("q4_0", r)
  BY <1>3, <1>4
<1> QED
  BY <1>2, <1>5, <1>6, <1>7, <1>8

LEMMA Fits_q4_0 == Fits("q4_0", 31, 2, 17)
<1> SUFFICES ASSUME NEW r \in 0 .. 31
             PROVE  Own("q4_0", r) \subseteq (2 .. 17) \X (0 .. 7)
  BY DEF Fits
<1>1. Spot(2 + (r % 16), 4 * (r \div 16), 4) \subseteq (2 .. 17) \X (0 .. 7)
  <2> DEFINE x == 2 + (r % 16)
             first == 4 * (r \div 16)
  <2>1. x \in 2 .. 17 /\ first \in Nat /\ first + 4 <= 8
    OBVIOUS
  <2> HIDE DEF x, first
  <2>2. Spot(x, first, 4) \subseteq (2 .. 17) \X (0 .. 7)
    BY <2>1, SpotFits
  <2> QED
    BY <2>2 DEF x, first
<1> QED
  BY <1>1 DEF Own

LEMMA Fills_q4_0 == Fills("q4_0", 31, 2, 17)
<1> SUFFICES ASSUME NEW x \in 2 .. 17, NEW c \in 0 .. 7
             PROVE  \E r \in 0 .. 31 : <<x, c>> \in Own("q4_0", r)
  BY DEF Fills
<1>1. CASE x \in 2 .. 17
  <2> DEFINE n == x - 2
             r == n + 16 * (c \div 4)
             place == 2 + (r % 16)
             first == 4 * (r \div 16)
  <2>1. n \in 0 .. 15 /\ x = 2 + n
    BY <1>1
  <2> HIDE DEF n
  <2>2. r \in 0 .. 31 /\ place = x /\ first \in Nat /\ first <= c /\ c <= first + 4 - 1
    BY <2>1
  <2>3. Spot(place, first, 4) \subseteq Own("q4_0", r)
    BY DEF Own
  <2> HIDE DEF r, place, first
  <2>4. <<x, c>> \in Spot(place, first, 4)
    BY <2>2, SpotHas
  <2> QED
    BY <2>2, <2>3, <2>4
<1> QED
  BY <1>1

LEMMA Parts_q4_1 == AsWide("q4_1", 31) /\ Placed("q4_1", 31)
<1> SUFFICES ASSUME NEW b \in Nat, NEW r \in 0 .. 31
             PROVE  /\ Len(QuantAt("q4_1", b, r)) = Width["q4_1"]
                    /\ BitsIn(QuantAt("q4_1", b, r)) = Moved(Origin("q4_1", b), Own("q4_1", r))
  BY DEF AsWide, Placed
<1> DEFINE index1 == r % 16
           first1 == 4 * (r \div 16)
           count1 == 4
<1>1. /\ index1 \in Nat /\ first1 \in Nat /\ count1 \in Nat
  OBVIOUS
<1>2. QuantAt("q4_1", b, r) =
          BitsAt("q4_1", b, "qs", index1, first1, count1)
  BY DEF QuantAt, LowNibble, ChunkNibble
<1>3. Own("q4_1", r) = Spot(4 + index1, first1, count1)
  BY DEF Own
<1>4. Block["q4_1"][2] \in Nat /\ Offset("q4_1", "qs") = 4 /\ Offset("q4_1", "qs") \in Nat
  BY Layout_q4_1
<1>5. Width["q4_1"] = count1
  BY DEF Width
<1> HIDE DEF index1, first1, count1
<1>6. Len(BitsAt("q4_1", b, "qs", index1, first1, count1)) = count1
  BY <1>1, BitsAtLength
<1>7. BitsIn(BitsAt("q4_1", b, "qs", index1, first1, count1)) =
          Moved(Origin("q4_1", b), Spot(Offset("q4_1", "qs") + index1, first1, count1))
  BY <1>1, <1>4, PartAt
<1>8. Spot(Offset("q4_1", "qs") + index1, first1, count1)
      = Own("q4_1", r)
  BY <1>3, <1>4
<1> QED
  BY <1>2, <1>5, <1>6, <1>7, <1>8

LEMMA Fits_q4_1 == Fits("q4_1", 31, 4, 19)
<1> SUFFICES ASSUME NEW r \in 0 .. 31
             PROVE  Own("q4_1", r) \subseteq (4 .. 19) \X (0 .. 7)
  BY DEF Fits
<1>1. Spot(4 + (r % 16), 4 * (r \div 16), 4) \subseteq (4 .. 19) \X (0 .. 7)
  <2> DEFINE x == 4 + (r % 16)
             first == 4 * (r \div 16)
  <2>1. x \in 4 .. 19 /\ first \in Nat /\ first + 4 <= 8
    OBVIOUS
  <2> HIDE DEF x, first
  <2>2. Spot(x, first, 4) \subseteq (4 .. 19) \X (0 .. 7)
    BY <2>1, SpotFits
  <2> QED
    BY <2>2 DEF x, first
<1> QED
  BY <1>1 DEF Own

LEMMA Fills_q4_1 == Fills("q4_1", 31, 4, 19)
<1> SUFFICES ASSUME NEW x \in 4 .. 19, NEW c \in 0 .. 7
             PROVE  \E r \in 0 .. 31 : <<x, c>> \in Own("q4_1", r)
  BY DEF Fills
<1>1. CASE x \in 4 .. 19
  <2> DEFINE n == x - 4
             r == n + 16 * (c \div 4)
             place == 4 + (r % 16)
             first == 4 * (r \div 16)
  <2>1. n \in 0 .. 15 /\ x = 4 + n
    BY <1>1
  <2> HIDE DEF n
  <2>2. r \in 0 .. 31 /\ place = x /\ first \in Nat /\ first <= c /\ c <= first + 4 - 1
    BY <2>1
  <2>3. Spot(place, first, 4) \subseteq Own("q4_1", r)
    BY DEF Own
  <2> HIDE DEF r, place, first
  <2>4. <<x, c>> \in Spot(place, first, 4)
    BY <2>2, SpotHas
  <2> QED
    BY <2>2, <2>3, <2>4
<1> QED
  BY <1>1

LEMMA Parts_q5_0 == AsWide("q5_0", 31) /\ Placed("q5_0", 31)
<1> SUFFICES ASSUME NEW b \in Nat, NEW r \in 0 .. 31
             PROVE  /\ Len(QuantAt("q5_0", b, r)) = Width["q5_0"]
                    /\ BitsIn(QuantAt("q5_0", b, r)) = Moved(Origin("q5_0", b), Own("q5_0", r))
  BY DEF AsWide, Placed
<1> DEFINE index1 == r % 16
           first1 == 4 * (r \div 16)
           count1 == 4
           index2 == r \div 8
           first2 == r % 8
           count2 == 1
<1>1. /\ index1 \in Nat /\ first1 \in Nat /\ count1 \in Nat
      /\ index2 \in Nat /\ first2 \in Nat /\ count2 \in Nat
  OBVIOUS
<1>2. QuantAt("q5_0", b, r) =
          BitsAt("q5_0", b, "qs", index1, first1, count1)
               \o BitsAt("q5_0", b, "qh", index2, first2, count2)
  BY DEF QuantAt, LowNibble, ChunkNibble
<1>3. Own("q5_0", r) = Spot(6 + index1, first1, count1)
          \cup Spot(2 + index2, first2, count2)
  BY DEF Own
<1>4. /\ Block["q5_0"][2] \in Nat /\ Offset("q5_0", "qs") = 6
      /\ Offset("q5_0", "qs") \in Nat /\ Offset("q5_0", "qh") = 2
      /\ Offset("q5_0", "qh") \in Nat
  BY Layout_q5_0
<1>5. Width["q5_0"] = count1 + count2
  BY DEF Width
<1> HIDE DEF index1, first1, count1, index2, first2, count2
<1>6. Len(BitsAt("q5_0", b, "qs", index1, first1, count1)
               \o BitsAt("q5_0", b, "qh", index2, first2, count2)) = count1 + count2
  BY <1>1, PartsLength
<1>7. BitsIn(BitsAt("q5_0", b, "qs", index1, first1, count1)) =
          Moved(Origin("q5_0", b), Spot(Offset("q5_0", "qs") + index1, first1, count1))
  <2>1. Block["q5_0"][2] \in Nat /\ Offset("q5_0", "qs") \in Nat
    BY <1>4
  <2>2. index1 \in Nat /\ first1 \in Nat /\ count1 \in Nat
    BY <1>1
  <2> QED
    BY <2>1, <2>2, PartAt
<1>8. BitsIn(BitsAt("q5_0", b, "qh", index2, first2, count2)) =
          Moved(Origin("q5_0", b), Spot(Offset("q5_0", "qh") + index2, first2, count2))
  <2>1. Block["q5_0"][2] \in Nat /\ Offset("q5_0", "qh") \in Nat
    BY <1>4
  <2>2. index2 \in Nat /\ first2 \in Nat /\ count2 \in Nat
    BY <1>1
  <2> QED
    BY <2>1, <2>2, PartAt
<1>9. BitsIn(BitsAt("q5_0", b, "qs", index1, first1, count1)
               \o BitsAt("q5_0", b, "qh", index2, first2, count2)) =
          BitsIn(BitsAt("q5_0", b, "qs", index1, first1, count1))
              \cup BitsIn(BitsAt("q5_0", b, "qh", index2, first2, count2))
  BY <1>1, PartsJoined
<1>10. BitsIn(BitsAt("q5_0", b, "qs", index1, first1, count1)
               \o BitsAt("q5_0", b, "qh", index2, first2, count2)) =
          Moved(Origin("q5_0", b), Spot(Offset("q5_0", "qs") + index1, first1, count1)
              \cup Spot(Offset("q5_0", "qh") + index2, first2, count2))
  <2> DEFINE S == Spot(Offset("q5_0", "qs") + index1, first1, count1)
             T == Spot(Offset("q5_0", "qh") + index2, first2, count2)
             origin == Origin("q5_0", b)
  <2>1. BitsIn(BitsAt("q5_0", b, "qs", index1, first1, count1)
               \o BitsAt("q5_0", b, "qh", index2, first2, count2))
             = Moved(origin, S) \cup Moved(origin, T)
    BY <1>7, <1>8, <1>9
  <2> HIDE DEF S, T, origin
  <2>2. Moved(origin, S) \cup Moved(origin, T) = Moved(origin, S \cup T)
    BY MovedBoth
  <2>3. BitsIn(BitsAt("q5_0", b, "qs", index1, first1, count1)
               \o BitsAt("q5_0", b, "qh", index2, first2, count2)) = Moved(origin, S \cup T)
    BY <2>1, <2>2
  <2> QED
    BY <2>3 DEF S, T, origin
<1>11. Spot(Offset("q5_0", "qs") + index1, first1, count1)
              \cup Spot(Offset("q5_0", "qh") + index2, first2, count2)
      = Own("q5_0", r)
  BY <1>3, <1>4
<1> QED
  BY <1>2, <1>5, <1>6, <1>10, <1>11

LEMMA Fits_q5_0 == Fits("q5_0", 31, 2, 21)
<1> SUFFICES ASSUME NEW r \in 0 .. 31
             PROVE  Own("q5_0", r) \subseteq (2 .. 21) \X (0 .. 7)
  BY DEF Fits
<1>1. Spot(6 + (r % 16), 4 * (r \div 16), 4) \subseteq (2 .. 21) \X (0 .. 7)
  <2> DEFINE x == 6 + (r % 16)
             first == 4 * (r \div 16)
  <2>1. x \in 2 .. 21 /\ first \in Nat /\ first + 4 <= 8
    OBVIOUS
  <2> HIDE DEF x, first
  <2>2. Spot(x, first, 4) \subseteq (2 .. 21) \X (0 .. 7)
    BY <2>1, SpotFits
  <2> QED
    BY <2>2 DEF x, first
<1>2. Spot(2 + (r \div 8), r % 8, 1) \subseteq (2 .. 21) \X (0 .. 7)
  <2> DEFINE x == 2 + (r \div 8)
             first == r % 8
  <2>1. x \in 2 .. 21 /\ first \in Nat /\ first + 1 <= 8
    OBVIOUS
  <2> HIDE DEF x, first
  <2>2. Spot(x, first, 1) \subseteq (2 .. 21) \X (0 .. 7)
    BY <2>1, SpotFits
  <2> QED
    BY <2>2 DEF x, first
<1> QED
  BY <1>1, <1>2 DEF Own

LEMMA Fills_q5_0 == Fills("q5_0", 31, 2, 21)
<1> SUFFICES ASSUME NEW x \in 2 .. 21, NEW c \in 0 .. 7
             PROVE  \E r \in 0 .. 31 : <<x, c>> \in Own("q5_0", r)
  BY DEF Fills
<1>1. CASE x \in 6 .. 21
  <2> DEFINE n == x - 6
             r == n + 16 * (c \div 4)
             place == 6 + (r % 16)
             first == 4 * (r \div 16)
  <2>1. n \in 0 .. 15 /\ x = 6 + n
    BY <1>1
  <2> HIDE DEF n
  <2>2. r \in 0 .. 31 /\ place = x /\ first \in Nat /\ first <= c /\ c <= first + 4 - 1
    BY <2>1
  <2>3. Spot(place, first, 4) \subseteq Own("q5_0", r)
    BY DEF Own
  <2> HIDE DEF r, place, first
  <2>4. <<x, c>> \in Spot(place, first, 4)
    BY <2>2, SpotHas
  <2> QED
    BY <2>2, <2>3, <2>4
<1>2. CASE x \in 2 .. 5
  <2> DEFINE n == x - 2
             r == 8 * n + c
             place == 2 + (r \div 8)
             first == r % 8
  <2>1. n \in 0 .. 3 /\ x = 2 + n
    BY <1>2
  <2> HIDE DEF n
  <2>2. r \in 0 .. 31 /\ place = x /\ first \in Nat /\ first <= c /\ c <= first + 1 - 1
    BY <2>1
  <2>3. Spot(place, first, 1) \subseteq Own("q5_0", r)
    BY DEF Own
  <2> HIDE DEF r, place, first
  <2>4. <<x, c>> \in Spot(place, first, 1)
    BY <2>2, SpotHas
  <2> QED
    BY <2>2, <2>3, <2>4
<1> QED
  BY <1>1, <1>2

LEMMA Parts_q5_1 == AsWide("q5_1", 31) /\ Placed("q5_1", 31)
<1> SUFFICES ASSUME NEW b \in Nat, NEW r \in 0 .. 31
             PROVE  /\ Len(QuantAt("q5_1", b, r)) = Width["q5_1"]
                    /\ BitsIn(QuantAt("q5_1", b, r)) = Moved(Origin("q5_1", b), Own("q5_1", r))
  BY DEF AsWide, Placed
<1> DEFINE index1 == r % 16
           first1 == 4 * (r \div 16)
           count1 == 4
           index2 == r \div 8
           first2 == r % 8
           count2 == 1
<1>1. /\ index1 \in Nat /\ first1 \in Nat /\ count1 \in Nat
      /\ index2 \in Nat /\ first2 \in Nat /\ count2 \in Nat
  OBVIOUS
<1>2. QuantAt("q5_1", b, r) =
          BitsAt("q5_1", b, "qs", index1, first1, count1)
               \o BitsAt("q5_1", b, "qh", index2, first2, count2)
  BY DEF QuantAt, LowNibble, ChunkNibble
<1>3. Own("q5_1", r) = Spot(8 + index1, first1, count1)
          \cup Spot(4 + index2, first2, count2)
  BY DEF Own
<1>4. /\ Block["q5_1"][2] \in Nat /\ Offset("q5_1", "qs") = 8
      /\ Offset("q5_1", "qs") \in Nat /\ Offset("q5_1", "qh") = 4
      /\ Offset("q5_1", "qh") \in Nat
  BY Layout_q5_1
<1>5. Width["q5_1"] = count1 + count2
  BY DEF Width
<1> HIDE DEF index1, first1, count1, index2, first2, count2
<1>6. Len(BitsAt("q5_1", b, "qs", index1, first1, count1)
               \o BitsAt("q5_1", b, "qh", index2, first2, count2)) = count1 + count2
  BY <1>1, PartsLength
<1>7. BitsIn(BitsAt("q5_1", b, "qs", index1, first1, count1)) =
          Moved(Origin("q5_1", b), Spot(Offset("q5_1", "qs") + index1, first1, count1))
  <2>1. Block["q5_1"][2] \in Nat /\ Offset("q5_1", "qs") \in Nat
    BY <1>4
  <2>2. index1 \in Nat /\ first1 \in Nat /\ count1 \in Nat
    BY <1>1
  <2> QED
    BY <2>1, <2>2, PartAt
<1>8. BitsIn(BitsAt("q5_1", b, "qh", index2, first2, count2)) =
          Moved(Origin("q5_1", b), Spot(Offset("q5_1", "qh") + index2, first2, count2))
  <2>1. Block["q5_1"][2] \in Nat /\ Offset("q5_1", "qh") \in Nat
    BY <1>4
  <2>2. index2 \in Nat /\ first2 \in Nat /\ count2 \in Nat
    BY <1>1
  <2> QED
    BY <2>1, <2>2, PartAt
<1>9. BitsIn(BitsAt("q5_1", b, "qs", index1, first1, count1)
               \o BitsAt("q5_1", b, "qh", index2, first2, count2)) =
          BitsIn(BitsAt("q5_1", b, "qs", index1, first1, count1))
              \cup BitsIn(BitsAt("q5_1", b, "qh", index2, first2, count2))
  BY <1>1, PartsJoined
<1>10. BitsIn(BitsAt("q5_1", b, "qs", index1, first1, count1)
               \o BitsAt("q5_1", b, "qh", index2, first2, count2)) =
          Moved(Origin("q5_1", b), Spot(Offset("q5_1", "qs") + index1, first1, count1)
              \cup Spot(Offset("q5_1", "qh") + index2, first2, count2))
  <2> DEFINE S == Spot(Offset("q5_1", "qs") + index1, first1, count1)
             T == Spot(Offset("q5_1", "qh") + index2, first2, count2)
             origin == Origin("q5_1", b)
  <2>1. BitsIn(BitsAt("q5_1", b, "qs", index1, first1, count1)
               \o BitsAt("q5_1", b, "qh", index2, first2, count2))
             = Moved(origin, S) \cup Moved(origin, T)
    BY <1>7, <1>8, <1>9
  <2> HIDE DEF S, T, origin
  <2>2. Moved(origin, S) \cup Moved(origin, T) = Moved(origin, S \cup T)
    BY MovedBoth
  <2>3. BitsIn(BitsAt("q5_1", b, "qs", index1, first1, count1)
               \o BitsAt("q5_1", b, "qh", index2, first2, count2)) = Moved(origin, S \cup T)
    BY <2>1, <2>2
  <2> QED
    BY <2>3 DEF S, T, origin
<1>11. Spot(Offset("q5_1", "qs") + index1, first1, count1)
              \cup Spot(Offset("q5_1", "qh") + index2, first2, count2)
      = Own("q5_1", r)
  BY <1>3, <1>4
<1> QED
  BY <1>2, <1>5, <1>6, <1>10, <1>11

LEMMA Fits_q5_1 == Fits("q5_1", 31, 4, 23)
<1> SUFFICES ASSUME NEW r \in 0 .. 31
             PROVE  Own("q5_1", r) \subseteq (4 .. 23) \X (0 .. 7)
  BY DEF Fits
<1>1. Spot(8 + (r % 16), 4 * (r \div 16), 4) \subseteq (4 .. 23) \X (0 .. 7)
  <2> DEFINE x == 8 + (r % 16)
             first == 4 * (r \div 16)
  <2>1. x \in 4 .. 23 /\ first \in Nat /\ first + 4 <= 8
    OBVIOUS
  <2> HIDE DEF x, first
  <2>2. Spot(x, first, 4) \subseteq (4 .. 23) \X (0 .. 7)
    BY <2>1, SpotFits
  <2> QED
    BY <2>2 DEF x, first
<1>2. Spot(4 + (r \div 8), r % 8, 1) \subseteq (4 .. 23) \X (0 .. 7)
  <2> DEFINE x == 4 + (r \div 8)
             first == r % 8
  <2>1. x \in 4 .. 23 /\ first \in Nat /\ first + 1 <= 8
    OBVIOUS
  <2> HIDE DEF x, first
  <2>2. Spot(x, first, 1) \subseteq (4 .. 23) \X (0 .. 7)
    BY <2>1, SpotFits
  <2> QED
    BY <2>2 DEF x, first
<1> QED
  BY <1>1, <1>2 DEF Own

LEMMA Fills_q5_1 == Fills("q5_1", 31, 4, 23)
<1> SUFFICES ASSUME NEW x \in 4 .. 23, NEW c \in 0 .. 7
             PROVE  \E r \in 0 .. 31 : <<x, c>> \in Own("q5_1", r)
  BY DEF Fills
<1>1. CASE x \in 8 .. 23
  <2> DEFINE n == x - 8
             r == n + 16 * (c \div 4)
             place == 8 + (r % 16)
             first == 4 * (r \div 16)
  <2>1. n \in 0 .. 15 /\ x = 8 + n
    BY <1>1
  <2> HIDE DEF n
  <2>2. r \in 0 .. 31 /\ place = x /\ first \in Nat /\ first <= c /\ c <= first + 4 - 1
    BY <2>1
  <2>3. Spot(place, first, 4) \subseteq Own("q5_1", r)
    BY DEF Own
  <2> HIDE DEF r, place, first
  <2>4. <<x, c>> \in Spot(place, first, 4)
    BY <2>2, SpotHas
  <2> QED
    BY <2>2, <2>3, <2>4
<1>2. CASE x \in 4 .. 7
  <2> DEFINE n == x - 4
             r == 8 * n + c
             place == 4 + (r \div 8)
             first == r % 8
  <2>1. n \in 0 .. 3 /\ x = 4 + n
    BY <1>2
  <2> HIDE DEF n
  <2>2. r \in 0 .. 31 /\ place = x /\ first \in Nat /\ first <= c /\ c <= first + 1 - 1
    BY <2>1
  <2>3. Spot(place, first, 1) \subseteq Own("q5_1", r)
    BY DEF Own
  <2> HIDE DEF r, place, first
  <2>4. <<x, c>> \in Spot(place, first, 1)
    BY <2>2, SpotHas
  <2> QED
    BY <2>2, <2>3, <2>4
<1> QED
  BY <1>1, <1>2

LEMMA Parts_q8_0 == AsWide("q8_0", 31) /\ Placed("q8_0", 31)
<1> SUFFICES ASSUME NEW b \in Nat, NEW r \in 0 .. 31
             PROVE  /\ Len(QuantAt("q8_0", b, r)) = Width["q8_0"]
                    /\ BitsIn(QuantAt("q8_0", b, r)) = Moved(Origin("q8_0", b), Own("q8_0", r))
  BY DEF AsWide, Placed
<1> DEFINE index1 == r
           first1 == 0
           count1 == 8
<1>1. /\ index1 \in Nat /\ first1 \in Nat /\ count1 \in Nat
  OBVIOUS
<1>2. QuantAt("q8_0", b, r) =
          BitsAt("q8_0", b, "qs", index1, first1, count1)
  BY DEF QuantAt, LowNibble, ChunkNibble
<1>3. Own("q8_0", r) = Spot(2 + index1, first1, count1)
  BY DEF Own
<1>4. Block["q8_0"][2] \in Nat /\ Offset("q8_0", "qs") = 2 /\ Offset("q8_0", "qs") \in Nat
  BY Layout_q8_0
<1>5. Width["q8_0"] = count1
  BY DEF Width
<1> HIDE DEF index1, first1, count1
<1>6. Len(BitsAt("q8_0", b, "qs", index1, first1, count1)) = count1
  BY <1>1, BitsAtLength
<1>7. BitsIn(BitsAt("q8_0", b, "qs", index1, first1, count1)) =
          Moved(Origin("q8_0", b), Spot(Offset("q8_0", "qs") + index1, first1, count1))
  BY <1>1, <1>4, PartAt
<1>8. Spot(Offset("q8_0", "qs") + index1, first1, count1)
      = Own("q8_0", r)
  BY <1>3, <1>4
<1> QED
  BY <1>2, <1>5, <1>6, <1>7, <1>8

LEMMA Fits_q8_0 == Fits("q8_0", 31, 2, 33)
<1> SUFFICES ASSUME NEW r \in 0 .. 31
             PROVE  Own("q8_0", r) \subseteq (2 .. 33) \X (0 .. 7)
  BY DEF Fits
<1>1. Spot(2 + r, 0, 8) \subseteq (2 .. 33) \X (0 .. 7)
  <2> DEFINE x == 2 + r
             first == 0
  <2>1. x \in 2 .. 33 /\ first \in Nat /\ first + 8 <= 8
    OBVIOUS
  <2> HIDE DEF x, first
  <2>2. Spot(x, first, 8) \subseteq (2 .. 33) \X (0 .. 7)
    BY <2>1, SpotFits
  <2> QED
    BY <2>2 DEF x, first
<1> QED
  BY <1>1 DEF Own

LEMMA Fills_q8_0 == Fills("q8_0", 31, 2, 33)
<1> SUFFICES ASSUME NEW x \in 2 .. 33, NEW c \in 0 .. 7
             PROVE  \E r \in 0 .. 31 : <<x, c>> \in Own("q8_0", r)
  BY DEF Fills
<1>1. CASE x \in 2 .. 33
  <2> DEFINE n == x - 2
             r == n
             place == 2 + r
             first == 0
  <2>1. n \in 0 .. 31 /\ x = 2 + n
    BY <1>1
  <2> HIDE DEF n
  <2>2. r \in 0 .. 31 /\ place = x /\ first \in Nat /\ first <= c /\ c <= first + 8 - 1
    BY <2>1
  <2>3. Spot(place, first, 8) \subseteq Own("q8_0", r)
    BY DEF Own
  <2> HIDE DEF r, place, first
  <2>4. <<x, c>> \in Spot(place, first, 8)
    BY <2>2, SpotHas
  <2> QED
    BY <2>2, <2>3, <2>4
<1> QED
  BY <1>1

LEMMA Parts_q4_K == AsWide("q4_K", 255) /\ Placed("q4_K", 255)
<1> SUFFICES ASSUME NEW b \in Nat, NEW r \in 0 .. 255
             PROVE  /\ Len(QuantAt("q4_K", b, r)) = Width["q4_K"]
                    /\ BitsIn(QuantAt("q4_K", b, r)) = Moved(Origin("q4_K", b), Own("q4_K", r))
  BY DEF AsWide, Placed
<1> DEFINE index1 == 32 * (r \div 64) + ((r % 64) % 32)
           first1 == 4 * ((r % 64) \div 32)
           count1 == 4
<1>1. /\ index1 \in Nat /\ first1 \in Nat /\ count1 \in Nat
  OBVIOUS
<1>2. QuantAt("q4_K", b, r) =
          BitsAt("q4_K", b, "qs", index1, first1, count1) \o <<>>
  BY DEF QuantAt, LowNibble, ChunkNibble
<1>3. Own("q4_K", r) = Spot(16 + index1, first1, count1)
  BY DEF Own
<1>4. Block["q4_K"][2] \in Nat /\ Offset("q4_K", "qs") = 16 /\ Offset("q4_K", "qs") \in Nat
  BY Layout_q4_K
<1>5. Width["q4_K"] = count1
  BY DEF Width
<1> HIDE DEF index1, first1, count1
<1>6. BitsAt("q4_K", b, "qs", index1, first1, count1) \o <<>>
        = BitsAt("q4_K", b, "qs", index1, first1, count1)
  <2>1. BitsAt("q4_K", b, "qs", index1, first1, count1)
          \in Seq({At("q4_K", b, "qs", index1)} \X Nat)
    BY <1>1, BitsAtTyped
  <2> QED
    BY <2>1
<1>7. Len(BitsAt("q4_K", b, "qs", index1, first1, count1)) = count1
  BY <1>1, BitsAtLength
<1>8. BitsIn(BitsAt("q4_K", b, "qs", index1, first1, count1)) =
          Moved(Origin("q4_K", b), Spot(Offset("q4_K", "qs") + index1, first1, count1))
  BY <1>1, <1>4, PartAt
<1>9. Spot(Offset("q4_K", "qs") + index1, first1, count1)
      = Own("q4_K", r)
  BY <1>3, <1>4
<1> QED
  BY <1>2, <1>5, <1>6, <1>7, <1>8, <1>9

LEMMA Fits_q4_K == Fits("q4_K", 255, 16, 143)
<1> SUFFICES ASSUME NEW r \in 0 .. 255
             PROVE  Own("q4_K", r) \subseteq (16 .. 143) \X (0 .. 7)
  BY DEF Fits
<1>1. Spot(16 + (32 * (r \div 64) + ((r % 64) % 32)), 4 * ((r % 64) \div 32), 4)
        \subseteq (16 .. 143) \X (0 .. 7)
  <2> DEFINE x == 16 + (32 * (r \div 64) + ((r % 64) % 32))
             first == 4 * ((r % 64) \div 32)
  <2>1. x \in 16 .. 143 /\ first \in Nat /\ first + 4 <= 8
    OBVIOUS
  <2> HIDE DEF x, first
  <2>2. Spot(x, first, 4) \subseteq (16 .. 143) \X (0 .. 7)
    BY <2>1, SpotFits
  <2> QED
    BY <2>2 DEF x, first
<1> QED
  BY <1>1 DEF Own

LEMMA Fills_q4_K == Fills("q4_K", 255, 16, 143)
<1> SUFFICES ASSUME NEW x \in 16 .. 143, NEW c \in 0 .. 7
             PROVE  \E r \in 0 .. 255 : <<x, c>> \in Own("q4_K", r)
  BY DEF Fills
<1>1. CASE x \in 16 .. 143
  <2> DEFINE n == x - 16
             r == 64 * (n \div 32) + 32 * (c \div 4) + (n % 32)
             place == 16 + (32 * (r \div 64) + ((r % 64) % 32))
             first == 4 * ((r % 64) \div 32)
  <2>1. n \in 0 .. 127 /\ x = 16 + n
    BY <1>1
  <2> HIDE DEF n
  <2>2. r \in 0 .. 255 /\ place = x /\ first \in Nat /\ first <= c /\ c <= first + 4 - 1
    BY <2>1
  <2>3. Spot(place, first, 4) \subseteq Own("q4_K", r)
    BY DEF Own
  <2> HIDE DEF r, place, first
  <2>4. <<x, c>> \in Spot(place, first, 4)
    BY <2>2, SpotHas
  <2> QED
    BY <2>2, <2>3, <2>4
<1> QED
  BY <1>1

LEMMA Parts_q5_K == AsWide("q5_K", 255) /\ Placed("q5_K", 255)
<1> SUFFICES ASSUME NEW b \in Nat, NEW r \in 0 .. 255
             PROVE  /\ Len(QuantAt("q5_K", b, r)) = Width["q5_K"]
                    /\ BitsIn(QuantAt("q5_K", b, r)) = Moved(Origin("q5_K", b), Own("q5_K", r))
  BY DEF AsWide, Placed
<1> DEFINE index1 == 32 * (r \div 64) + ((r % 64) % 32)
           first1 == 4 * ((r % 64) \div 32)
           count1 == 4
           index2 == (r % 64) % 32
           first2 == r \div 32
           count2 == 1
<1>1. /\ index1 \in Nat /\ first1 \in Nat /\ count1 \in Nat
      /\ index2 \in Nat /\ first2 \in Nat /\ count2 \in Nat
  OBVIOUS
<1>2. QuantAt("q5_K", b, r) =
          BitsAt("q5_K", b, "qs", index1, first1, count1)
               \o BitsAt("q5_K", b, "qh", index2, first2, count2)
  BY DEF QuantAt, LowNibble, ChunkNibble
<1>3. Own("q5_K", r) = Spot(48 + index1, first1, count1)
          \cup Spot(16 + index2, first2, count2)
  BY DEF Own
<1>4. /\ Block["q5_K"][2] \in Nat /\ Offset("q5_K", "qs") = 48
      /\ Offset("q5_K", "qs") \in Nat /\ Offset("q5_K", "qh") = 16
      /\ Offset("q5_K", "qh") \in Nat
  BY Layout_q5_K
<1>5. Width["q5_K"] = count1 + count2
  BY DEF Width
<1> HIDE DEF index1, first1, count1, index2, first2, count2
<1>6. Len(BitsAt("q5_K", b, "qs", index1, first1, count1)
               \o BitsAt("q5_K", b, "qh", index2, first2, count2)) = count1 + count2
  BY <1>1, PartsLength
<1>7. BitsIn(BitsAt("q5_K", b, "qs", index1, first1, count1)) =
          Moved(Origin("q5_K", b), Spot(Offset("q5_K", "qs") + index1, first1, count1))
  <2>1. Block["q5_K"][2] \in Nat /\ Offset("q5_K", "qs") \in Nat
    BY <1>4
  <2>2. index1 \in Nat /\ first1 \in Nat /\ count1 \in Nat
    BY <1>1
  <2> QED
    BY <2>1, <2>2, PartAt
<1>8. BitsIn(BitsAt("q5_K", b, "qh", index2, first2, count2)) =
          Moved(Origin("q5_K", b), Spot(Offset("q5_K", "qh") + index2, first2, count2))
  <2>1. Block["q5_K"][2] \in Nat /\ Offset("q5_K", "qh") \in Nat
    BY <1>4
  <2>2. index2 \in Nat /\ first2 \in Nat /\ count2 \in Nat
    BY <1>1
  <2> QED
    BY <2>1, <2>2, PartAt
<1>9. BitsIn(BitsAt("q5_K", b, "qs", index1, first1, count1)
               \o BitsAt("q5_K", b, "qh", index2, first2, count2)) =
          BitsIn(BitsAt("q5_K", b, "qs", index1, first1, count1))
              \cup BitsIn(BitsAt("q5_K", b, "qh", index2, first2, count2))
  BY <1>1, PartsJoined
<1>10. BitsIn(BitsAt("q5_K", b, "qs", index1, first1, count1)
               \o BitsAt("q5_K", b, "qh", index2, first2, count2)) =
          Moved(Origin("q5_K", b), Spot(Offset("q5_K", "qs") + index1, first1, count1)
              \cup Spot(Offset("q5_K", "qh") + index2, first2, count2))
  <2> DEFINE S == Spot(Offset("q5_K", "qs") + index1, first1, count1)
             T == Spot(Offset("q5_K", "qh") + index2, first2, count2)
             origin == Origin("q5_K", b)
  <2>1. BitsIn(BitsAt("q5_K", b, "qs", index1, first1, count1)
               \o BitsAt("q5_K", b, "qh", index2, first2, count2))
             = Moved(origin, S) \cup Moved(origin, T)
    BY <1>7, <1>8, <1>9
  <2> HIDE DEF S, T, origin
  <2>2. Moved(origin, S) \cup Moved(origin, T) = Moved(origin, S \cup T)
    BY MovedBoth
  <2>3. BitsIn(BitsAt("q5_K", b, "qs", index1, first1, count1)
               \o BitsAt("q5_K", b, "qh", index2, first2, count2)) = Moved(origin, S \cup T)
    BY <2>1, <2>2
  <2> QED
    BY <2>3 DEF S, T, origin
<1>11. Spot(Offset("q5_K", "qs") + index1, first1, count1)
              \cup Spot(Offset("q5_K", "qh") + index2, first2, count2)
      = Own("q5_K", r)
  BY <1>3, <1>4
<1> QED
  BY <1>2, <1>5, <1>6, <1>10, <1>11

LEMMA Fits_q5_K == Fits("q5_K", 255, 16, 175)
<1> SUFFICES ASSUME NEW r \in 0 .. 255
             PROVE  Own("q5_K", r) \subseteq (16 .. 175) \X (0 .. 7)
  BY DEF Fits
<1>1. Spot(48 + (32 * (r \div 64) + ((r % 64) % 32)), 4 * ((r % 64) \div 32), 4)
        \subseteq (16 .. 175) \X (0 .. 7)
  <2> DEFINE x == 48 + (32 * (r \div 64) + ((r % 64) % 32))
             first == 4 * ((r % 64) \div 32)
  <2>1. x \in 16 .. 175 /\ first \in Nat /\ first + 4 <= 8
    OBVIOUS
  <2> HIDE DEF x, first
  <2>2. Spot(x, first, 4) \subseteq (16 .. 175) \X (0 .. 7)
    BY <2>1, SpotFits
  <2> QED
    BY <2>2 DEF x, first
<1>2. Spot(16 + ((r % 64) % 32), r \div 32, 1) \subseteq (16 .. 175) \X (0 .. 7)
  <2> DEFINE x == 16 + ((r % 64) % 32)
             first == r \div 32
  <2>1. x \in 16 .. 175 /\ first \in Nat /\ first + 1 <= 8
    OBVIOUS
  <2> HIDE DEF x, first
  <2>2. Spot(x, first, 1) \subseteq (16 .. 175) \X (0 .. 7)
    BY <2>1, SpotFits
  <2> QED
    BY <2>2 DEF x, first
<1> QED
  BY <1>1, <1>2 DEF Own

LEMMA Fills_q5_K == Fills("q5_K", 255, 16, 175)
<1> SUFFICES ASSUME NEW x \in 16 .. 175, NEW c \in 0 .. 7
             PROVE  \E r \in 0 .. 255 : <<x, c>> \in Own("q5_K", r)
  BY DEF Fills
<1>1. CASE x \in 48 .. 175
  <2> DEFINE n == x - 48
             r == 64 * (n \div 32) + 32 * (c \div 4) + (n % 32)
             place == 48 + (32 * (r \div 64) + ((r % 64) % 32))
             first == 4 * ((r % 64) \div 32)
  <2>1. n \in 0 .. 127 /\ x = 48 + n
    BY <1>1
  <2> HIDE DEF n
  <2>2. r \in 0 .. 255 /\ place = x /\ first \in Nat /\ first <= c /\ c <= first + 4 - 1
    BY <2>1
  <2>3. Spot(place, first, 4) \subseteq Own("q5_K", r)
    BY DEF Own
  <2> HIDE DEF r, place, first
  <2>4. <<x, c>> \in Spot(place, first, 4)
    BY <2>2, SpotHas
  <2> QED
    BY <2>2, <2>3, <2>4
<1>2. CASE x \in 16 .. 47
  <2> DEFINE n == x - 16
             r == 32 * c + n
             place == 16 + ((r % 64) % 32)
             first == r \div 32
  <2>1. n \in 0 .. 31 /\ x = 16 + n
    BY <1>2
  <2> HIDE DEF n
  <2>2. r \in 0 .. 255 /\ place = x /\ first \in Nat /\ first <= c /\ c <= first + 1 - 1
    BY <2>1
  <2>3. Spot(place, first, 1) \subseteq Own("q5_K", r)
    BY DEF Own
  <2> HIDE DEF r, place, first
  <2>4. <<x, c>> \in Spot(place, first, 1)
    BY <2>2, SpotHas
  <2> QED
    BY <2>2, <2>3, <2>4
<1> QED
  BY <1>1, <1>2

LEMMA Parts_q6_K == AsWide("q6_K", 255) /\ Placed("q6_K", 255)
<1> SUFFICES ASSUME NEW b \in Nat, NEW r \in 0 .. 255
             PROVE  /\ Len(QuantAt("q6_K", b, r)) = Width["q6_K"]
                    /\ BitsIn(QuantAt("q6_K", b, r)) = Moved(Origin("q6_K", b), Own("q6_K", r))
  BY DEF AsWide, Placed
<1> DEFINE index1 == 64 * (r \div 128) + ((r % 128) % 32) + 32 * (((r % 128) \div 32) % 2)
           first1 == 4 * (((r % 128) \div 32) \div 2)
           count1 == 4
           index2 == 32 * (r \div 128) + ((r % 128) % 32)
           first2 == 2 * ((r % 128) \div 32)
           count2 == 2
<1>1. /\ index1 \in Nat /\ first1 \in Nat /\ count1 \in Nat
      /\ index2 \in Nat /\ first2 \in Nat /\ count2 \in Nat
  OBVIOUS
<1>2. QuantAt("q6_K", b, r) =
          BitsAt("q6_K", b, "ql", index1, first1, count1)
               \o BitsAt("q6_K", b, "qh", index2, first2, count2)
  BY DEF QuantAt, LowNibble, ChunkNibble
<1>3. Own("q6_K", r) = Spot(0 + index1, first1, count1)
          \cup Spot(128 + index2, first2, count2)
  BY DEF Own
<1>4. /\ Block["q6_K"][2] \in Nat /\ Offset("q6_K", "ql") = 0
      /\ Offset("q6_K", "ql") \in Nat /\ Offset("q6_K", "qh") = 128
      /\ Offset("q6_K", "qh") \in Nat
  BY Layout_q6_K
<1>5. Width["q6_K"] = count1 + count2
  BY DEF Width
<1> HIDE DEF index1, first1, count1, index2, first2, count2
<1>6. Len(BitsAt("q6_K", b, "ql", index1, first1, count1)
               \o BitsAt("q6_K", b, "qh", index2, first2, count2)) = count1 + count2
  BY <1>1, PartsLength
<1>7. BitsIn(BitsAt("q6_K", b, "ql", index1, first1, count1)) =
          Moved(Origin("q6_K", b), Spot(Offset("q6_K", "ql") + index1, first1, count1))
  <2>1. Block["q6_K"][2] \in Nat /\ Offset("q6_K", "ql") \in Nat
    BY <1>4
  <2>2. index1 \in Nat /\ first1 \in Nat /\ count1 \in Nat
    BY <1>1
  <2> QED
    BY <2>1, <2>2, PartAt
<1>8. BitsIn(BitsAt("q6_K", b, "qh", index2, first2, count2)) =
          Moved(Origin("q6_K", b), Spot(Offset("q6_K", "qh") + index2, first2, count2))
  <2>1. Block["q6_K"][2] \in Nat /\ Offset("q6_K", "qh") \in Nat
    BY <1>4
  <2>2. index2 \in Nat /\ first2 \in Nat /\ count2 \in Nat
    BY <1>1
  <2> QED
    BY <2>1, <2>2, PartAt
<1>9. BitsIn(BitsAt("q6_K", b, "ql", index1, first1, count1)
               \o BitsAt("q6_K", b, "qh", index2, first2, count2)) =
          BitsIn(BitsAt("q6_K", b, "ql", index1, first1, count1))
              \cup BitsIn(BitsAt("q6_K", b, "qh", index2, first2, count2))
  BY <1>1, PartsJoined
<1>10. BitsIn(BitsAt("q6_K", b, "ql", index1, first1, count1)
               \o BitsAt("q6_K", b, "qh", index2, first2, count2)) =
          Moved(Origin("q6_K", b), Spot(Offset("q6_K", "ql") + index1, first1, count1)
              \cup Spot(Offset("q6_K", "qh") + index2, first2, count2))
  <2> DEFINE S == Spot(Offset("q6_K", "ql") + index1, first1, count1)
             T == Spot(Offset("q6_K", "qh") + index2, first2, count2)
             origin == Origin("q6_K", b)
  <2>1. BitsIn(BitsAt("q6_K", b, "ql", index1, first1, count1)
               \o BitsAt("q6_K", b, "qh", index2, first2, count2))
             = Moved(origin, S) \cup Moved(origin, T)
    BY <1>7, <1>8, <1>9
  <2> HIDE DEF S, T, origin
  <2>2. Moved(origin, S) \cup Moved(origin, T) = Moved(origin, S \cup T)
    BY MovedBoth
  <2>3. BitsIn(BitsAt("q6_K", b, "ql", index1, first1, count1)
               \o BitsAt("q6_K", b, "qh", index2, first2, count2)) = Moved(origin, S \cup T)
    BY <2>1, <2>2
  <2> QED
    BY <2>3 DEF S, T, origin
<1>11. Spot(Offset("q6_K", "ql") + index1, first1, count1)
              \cup Spot(Offset("q6_K", "qh") + index2, first2, count2)
      = Own("q6_K", r)
  BY <1>3, <1>4
<1> QED
  BY <1>2, <1>5, <1>6, <1>10, <1>11

LEMMA Fits_q6_K == Fits("q6_K", 255, 0, 191)
<1> SUFFICES ASSUME NEW r \in 0 .. 255
             PROVE  Own("q6_K", r) \subseteq (0 .. 191) \X (0 .. 7)
  BY DEF Fits
<1>1. Spot(0 + (64 * (r \div 128) + ((r % 128) % 32) + 32 * (((r % 128) \div 32) % 2)),
           4 * (((r % 128) \div 32) \div 2), 4)
        \subseteq (0 .. 191) \X (0 .. 7)
  <2> DEFINE x == 0 + (64 * (r \div 128) + ((r % 128) % 32) + 32 * (((r % 128) \div 32) % 2))
             first == 4 * (((r % 128) \div 32) \div 2)
  <2>1. x \in 0 .. 191 /\ first \in Nat /\ first + 4 <= 8
    OBVIOUS
  <2> HIDE DEF x, first
  <2>2. Spot(x, first, 4) \subseteq (0 .. 191) \X (0 .. 7)
    BY <2>1, SpotFits, ZenonT(40)
  <2> QED
    BY <2>2 DEF x, first
<1>2. Spot(128 + (32 * (r \div 128) + ((r % 128) % 32)), 2 * ((r % 128) \div 32), 2)
        \subseteq (0 .. 191) \X (0 .. 7)
  <2> DEFINE x == 128 + (32 * (r \div 128) + ((r % 128) % 32))
             first == 2 * ((r % 128) \div 32)
  <2>1. x \in 0 .. 191 /\ first \in Nat /\ first + 2 <= 8
    OBVIOUS
  <2> HIDE DEF x, first
  <2>2. Spot(x, first, 2) \subseteq (0 .. 191) \X (0 .. 7)
    BY <2>1, SpotFits
  <2> QED
    BY <2>2 DEF x, first
<1> QED
  BY <1>1, <1>2 DEF Own

LEMMA Fills_q6_K == Fills("q6_K", 255, 0, 191)
<1> SUFFICES ASSUME NEW x \in 0 .. 191, NEW c \in 0 .. 7
             PROVE  \E r \in 0 .. 255 : <<x, c>> \in Own("q6_K", r)
  BY DEF Fills
<1>1. CASE x \in 0 .. 127
  <2> DEFINE n == x - 0
             r == 128 * (n \div 64) + 32 * (((n % 64) \div 32) + 2 * (c \div 4)) + (n % 32)
             place == 0 + (64 * (r \div 128) + ((r % 128) % 32) + 32 * (((r % 128) \div 32) % 2))
             first == 4 * (((r % 128) \div 32) \div 2)
  <2>1. n \in 0 .. 127 /\ x = 0 + n
    BY <1>1
  <2> HIDE DEF n
  <2>2. r \in 0 .. 255 /\ place = x /\ first \in Nat /\ first <= c /\ c <= first + 4 - 1
    BY <2>1
  <2>3. Spot(place, first, 4) \subseteq Own("q6_K", r)
    BY DEF Own
  <2> HIDE DEF r, place, first
  <2>4. <<x, c>> \in Spot(place, first, 4)
    BY <2>2, SpotHas
  <2> QED
    BY <2>2, <2>3, <2>4
<1>2. CASE x \in 128 .. 191
  <2> DEFINE n == x - 128
             r == 128 * (n \div 32) + 32 * (c \div 2) + (n % 32)
             place == 128 + (32 * (r \div 128) + ((r % 128) % 32))
             first == 2 * ((r % 128) \div 32)
  <2>1. n \in 0 .. 63 /\ x = 128 + n
    BY <1>2
  <2> HIDE DEF n
  <2>2. r \in 0 .. 255 /\ place = x /\ first \in Nat /\ first <= c /\ c <= first + 2 - 1
    BY <2>1
  <2>3. Spot(place, first, 2) \subseteq Own("q6_K", r)
    BY DEF Own
  <2> HIDE DEF r, place, first
  <2>4. <<x, c>> \in Spot(place, first, 2)
    BY <2>2, SpotHas
  <2> QED
    BY <2>2, <2>3, <2>4
<1> QED
  BY <1>1, <1>2

LEMMA Byte_f32 ==
    ASSUME NEW b \in Nat, NEW n \in 0 .. 3
    PROVE  /\ Len(BitsAt("f32", b, "qs", n, 0, 8)) = 8
           /\ BitsIn(BitsAt("f32", b, "qs", n, 0, 8)) = Moved(Origin("f32", b), Spot(0 + n, 0, 8))
           /\ BitsAt("f32", b, "qs", n, 0, 8) \in Seq({At("f32", b, "qs", n)} \X Nat)
<1> DEFINE first == 0
           count == 8
           bits == BitsAt("f32", b, "qs", n, first, count)
<1>1. n \in Nat /\ first \in Nat /\ count \in Nat
  OBVIOUS
<1>2. Block["f32"][2] \in Nat /\ Offset("f32", "qs") \in Nat /\ Offset("f32", "qs") = 0
  BY Layout_f32
<1> HIDE DEF first, count
<1>3. Len(bits) = count
  BY <1>1, BitsAtLength
<1>4. BitsIn(bits) = Moved(Origin("f32", b), Spot(Offset("f32", "qs") + n, first, count))
  BY <1>1, <1>2, PartAt
<1>5. bits \in Seq({At("f32", b, "qs", n)} \X Nat)
  BY <1>1, BitsAtTyped
<1> QED
  BY <1>2, <1>3, <1>4, <1>5 DEF first, count

LEMMA Parts_f32 == AsWide("f32", 0) /\ Placed("f32", 0)
<1> SUFFICES ASSUME NEW b \in Nat, NEW r \in 0 .. 0
             PROVE  /\ Len(QuantAt("f32", b, r)) = Width["f32"]
                    /\ BitsIn(QuantAt("f32", b, r)) = Moved(Origin("f32", b), Own("f32", r))
  BY DEF AsWide, Placed
<1> DEFINE byte(n) == BitsAt("f32", b, "qs", n, 0, 8)
           spot(n) == Spot(0 + n, 0, 8)
           typed(n) == {At("f32", b, "qs", n)} \X Nat
           origin == Origin("f32", b)
<1>1. QuantAt("f32", b, r) = byte(0) \o byte(1) \o byte(2) \o byte(3)
  BY DEF QuantAt
<1>2. Own("f32", r) = spot(0) \cup spot(1) \cup spot(2) \cup spot(3)
  BY DEF Own
<1>3. Width["f32"] = 32
  BY DEF Width
<1>4. /\ Len(byte(0)) = 8 /\ BitsIn(byte(0)) = Moved(origin, spot(0)) /\ byte(0)
        \in Seq(typed(0))
      /\ Len(byte(1)) = 8 /\ BitsIn(byte(1)) = Moved(origin, spot(1))
      /\ byte(1) \in Seq(typed(1))
      /\ Len(byte(2)) = 8 /\ BitsIn(byte(2)) = Moved(origin, spot(2))
      /\ byte(2) \in Seq(typed(2))
      /\ Len(byte(3)) = 8 /\ BitsIn(byte(3)) = Moved(origin, spot(3))
      /\ byte(3) \in Seq(typed(3))
  <2>1. ASSUME NEW n \in 0 .. 3
        PROVE  /\ Len(byte(n)) = 8 /\ BitsIn(byte(n)) = Moved(origin, spot(n))
               /\ byte(n) \in Seq(typed(n))
    BY Byte_f32
  <2> HIDE DEF byte, spot, typed, origin
  <2> QED
    BY <2>1
<1>5. Len(byte(0)) = 8 /\ Len(byte(1)) = 8 /\ Len(byte(2)) = 8 /\ Len(byte(3)) = 8
  BY <1>4
<1>6. byte(2) \in Seq(typed(2)) /\ byte(3) \in Seq(typed(3))
  BY <1>4
<1> HIDE DEF byte, spot, typed, origin
<1> DEFINE two == byte(0) \o byte(1)
           three == two \o byte(2)
           four == three \o byte(3)
<1>7. two \in Seq(typed(0) \cup typed(1)) /\ Len(two) = Len(byte(0)) + Len(byte(1))
  BY <1>4, LengthsJoined
<1>8. BitsIn(two) = BitsIn(byte(0)) \cup BitsIn(byte(1))
  BY <1>4, BitsJoined
<1> HIDE DEF two
<1>9. /\ three \in Seq((typed(0) \cup typed(1)) \cup typed(2))
      /\ Len(three) = Len(two) + Len(byte(2))
  <2> DEFINE both == typed(0) \cup typed(1)
             third == typed(2)
             last == byte(2)
  <2>1. two \in Seq(both) /\ last \in Seq(third)
    BY <1>7, <1>6
  <2> HIDE DEF both, third, last
  <2>2. two \o last \in Seq(both \cup third) /\ Len(two \o last) = Len(two) + Len(last)
    BY <2>1, LengthsJoined
  <2> QED
    BY <2>2 DEF both, third, last
<1>10. BitsIn(three) = BitsIn(two) \cup BitsIn(byte(2))
  BY <1>4, <1>7, BitsJoined
<1> HIDE DEF three
<1>11. Len(four) = Len(three) + Len(byte(3))
  BY <1>4, <1>9, LengthsJoined
<1>12. BitsIn(four) = BitsIn(three) \cup BitsIn(byte(3))
  BY <1>4, <1>9, BitsJoined
<1> HIDE DEF four
<1>13. QuantAt("f32", b, r) = four
  BY <1>1 DEF four, three, two
<1>14. Len(four) = 32
  <2>1. Len(two) = Len(byte(0)) + Len(byte(1))
    BY <1>7
  <2>2. Len(three) = Len(two) + Len(byte(2))
    BY <1>9
  <2>3. Len(four) = Len(three) + Len(byte(3))
    BY <1>11
  <2> DEFINE n2 == Len(two)
             n3 == Len(three)
             n4 == Len(four)
  <2>4. n2 = 8 + 8 /\ n3 = n2 + 8 /\ n4 = n3 + 8
    BY <1>5, <2>1, <2>2, <2>3
  <2> HIDE DEF n2, n3, n4
  <2>5. n4 = 32
    BY <2>4
  <2> QED
    BY <2>5 DEF n4
<1>15. BitsIn(four) = Moved(origin, spot(0) \cup spot(1) \cup spot(2) \cup spot(3))
  <2>1. BitsIn(four) = Moved(origin, spot(0)) \cup Moved(origin, spot(1))
                           \cup Moved(origin, spot(2)) \cup Moved(origin, spot(3))
    BY <1>4, <1>8, <1>10, <1>12
  <2>2. Moved(origin, spot(0)) \cup Moved(origin, spot(1)) = Moved(origin, spot(0) \cup spot(1))
    BY MovedBoth
  <2>3. Moved(origin, spot(0) \cup spot(1)) \cup Moved(origin, spot(2))
            = Moved(origin, spot(0) \cup spot(1) \cup spot(2))
    BY MovedBoth
  <2>4. Moved(origin, spot(0) \cup spot(1) \cup spot(2)) \cup Moved(origin, spot(3))
            = Moved(origin, spot(0) \cup spot(1) \cup spot(2) \cup spot(3))
    BY MovedBoth
  <2> QED
    BY <2>1, <2>2, <2>3, <2>4
<1> QED
  BY <1>2, <1>3, <1>13, <1>14, <1>15 DEF origin

LEMMA Fits_f32 == Fits("f32", 0, 0, 3)
<1> SUFFICES ASSUME NEW r \in 0 .. 0 PROVE Own("f32", r) \subseteq (0 .. 3) \X (0 .. 7)
  BY DEF Fits
<1>1. ASSUME NEW n \in 0 .. 3 PROVE Spot(0 + n, 0, 8) \subseteq (0 .. 3) \X (0 .. 7)
  <2> DEFINE x == 0 + n
             first == 0
             count == 8
  <2>1. x \in 0 .. 3 /\ first \in Nat /\ count \in Nat /\ first + count <= 8
    OBVIOUS
  <2> HIDE DEF x, first, count
  <2>2. Spot(x, first, count) \subseteq (0 .. 3) \X (0 .. 7)
    BY <2>1, SpotFits
  <2> QED
    BY <2>2 DEF x, first, count
<1> QED
  BY <1>1 DEF Own

LEMMA Fills_f32 == Fills("f32", 0, 0, 3)
<1> SUFFICES ASSUME NEW x \in 0 .. 3, NEW c \in 0 .. 7
             PROVE  <<x, c>> \in Own("f32", 0)
  BY DEF Fills
<1>1. Own("f32", 0) = Spot(0 + 0, 0, 8) \cup Spot(0 + 1, 0, 8) \cup Spot(0 + 2, 0, 8)
                          \cup Spot(0 + 3, 0, 8)
  BY DEF Own
<1>2. x = 0 + 0 \/ x = 0 + 1 \/ x = 0 + 2 \/ x = 0 + 3
  OBVIOUS
<1>3. <<x, c>> \in Spot(x, 0, 8)
  <2> DEFINE first == 0
             count == 8
  <2>1. first \in Nat /\ count \in Nat /\ first <= c /\ c <= first + count - 1
    OBVIOUS
  <2> HIDE DEF first, count
  <2>2. <<x, c>> \in Spot(x, first, count)
    BY <2>1, SpotHas
  <2> QED
    BY <2>2 DEF first, count
<1> QED
  BY <1>1, <1>2, <1>3
(* The bytes from lo to hi of every block.                                 *)
Region(size, blocks, lo, hi) ==
    {p \in Nat \X (0 .. 7) : \E b \in 0 .. blocks - 1, x \in lo .. hi : p[1] = b * size + x}

(* The parts of a block that make up its bytes lo to hi.                   *)
Holding(members) == {m \in DOMAIN Members[call.type] : Members[call.type][m][1] \in members}

Spans(members, lo, hi) ==
    /\ \A k \in Holding(members) :
           Before(call.type, k) \in Nat /\ Members[call.type][k][2] \in Nat
    /\ \A x \in Nat : x \in lo .. hi <=>
           \E k \in Holding(members) :
               x \in Before(call.type, k) .. Before(call.type, k) + Members[call.type][k][2] - 1

LEMMA RegionIs ==
    ASSUME NEW members, NEW lo \in Nat, NEW hi \in Nat, Spans(members, lo, hi),
           Block[call.type][2] \in Nat, call.n \div Per(call.type) \in Nat
    PROVE  BitsOf(members) = Region(Block[call.type][2], call.n \div Per(call.type), lo, hi)
<1> DEFINE B == Block[call.type][2]
           N == call.n \div Per(call.type)
           K == Holding(members)
           from(b, k) == b * B + Before(call.type, k)
           area(b, k) == from(b, k) .. from(b, k) + Members[call.type][k][2] - 1
           bytes == UNION {area(b, k) : b \in 0 .. N - 1, k \in K}
<1>1. /\ B \in Nat /\ N \in Nat
      /\ \A k \in K : Before(call.type, k) \in Nat /\ Members[call.type][k][2] \in Nat
      /\ \A x \in Nat : x \in lo .. hi <=>
             \E k \in K : x \in Before(call.type, k)
                                  .. Before(call.type, k) + Members[call.type][k][2] - 1
  BY DEF Spans
<1>2. BitsOf(members) = bytes \X (0 .. 7)
  BY DEF BitsOf, Holding
<1> HIDE DEF B, N, K
<1>3. \A q : q \in bytes <=> \E b \in 0 .. N - 1, k \in K : q \in area(b, k)
  <2> HIDE DEF area
  <2> QED
    OBVIOUS
<1> HIDE DEF bytes
<1>4. ASSUME NEW b \in 0 .. N - 1, NEW k \in K
      PROVE  /\ b * B \in Nat /\ Before(call.type, k) \in Nat
             /\ Members[call.type][k][2] \in Nat
  <2>1. b * B \in Nat
    <3>1. b \in Nat /\ B \in Nat
      BY <1>1
    <3> QED
      BY <3>1, ProductIsNat
  <2> QED
    BY <1>1, <2>1
<1>5. ASSUME NEW q \in bytes
      PROVE  q \in Nat /\ \E b \in 0 .. N - 1, x \in lo .. hi : q = b * B + x
  <2>1. PICK b \in 0 .. N - 1, k \in K : q \in area(b, k)
    BY <1>5, <1>3
  <2>2. b * B \in Nat /\ Before(call.type, k) \in Nat /\ Members[call.type][k][2] \in Nat
    BY <1>4
  <2>3. q \in Nat /\ q - b * B \in Nat /\ q = b * B + (q - b * B)
        /\ q - b * B \in Before(call.type, k)
                             .. Before(call.type, k) + Members[call.type][k][2] - 1
    BY <2>1, <2>2
  <2>4. q - b * B \in lo .. hi
    BY <1>1, <2>3
  <2> QED
    BY <2>3, <2>4
<1>6. ASSUME NEW b \in 0 .. N - 1, NEW x \in lo .. hi PROVE b * B + x \in bytes
  <2>1. PICK k \in K : x \in Before(call.type, k)
                                 .. Before(call.type, k) + Members[call.type][k][2] - 1
    BY <1>1
  <2>2. b * B \in Nat /\ Before(call.type, k) \in Nat /\ Members[call.type][k][2] \in Nat
    BY <1>4
  <2>3. b * B + x \in area(b, k)
    BY <2>1, <2>2
  <2> HIDE DEF area
  <2> QED
    BY <1>3, <2>3
<1> QED
  <2>1. bytes \X (0 .. 7) = Region(B, N, lo, hi)
    BY <1>5, <1>6 DEF Region
  <2> QED
    BY <1>2, <2>1 DEF B, N

(* All that is written when the conversion returns.                        *)
Finished ==
    LET P == Per(call.type)
        N == call.n \div P
    IN  /\ P \in {1, 32, 256} /\ N \in Nat /\ call.n \in Nat
        /\ DOMAIN y = 0 .. call.n - 1
        /\ \A e \in DOMAIN y : /\ e \div P \in 0 .. N - 1 /\ e % P \in 0 .. P - 1
                               /\ y[e] = ElementAt(call.type, e \div P, e % P)
        /\ \A b \in 0 .. N - 1, r \in 0 .. P - 1 :
               /\ b * P + r \in DOMAIN y
               /\ y[b * P + r] = ElementAt(call.type, b, r)

LEMMA FinishedAtReturn ==
    Unpacking /\ pc = "done" /\ call.type # "f16" => Finished
<1> SUFFICES ASSUME Unpacking, pc = "done", call.type # "f16" PROVE Finished
  OBVIOUS
<1> DEFINE P == Per(call.type)
           N == call.n \div P
<1>1. /\ call \in Calls /\ Convertible /\ i = N /\ j = 0 /\ Written
  <2>1. j \in Stops(call.type) /\ (j > 0 => i < N) /\ i = N /\ i \in 0 .. N
    BY DEF Unpacking
  <2>2. j \in Nat
    BY <2>1 DEF Stops
  <2> HIDE DEF N
  <2>3. N \in Nat
    <3>1. call.n \in Nat /\ call.type \in DOMAIN Block
      BY CallAssumption DEF Unpacking, Convertible
    <3>2. P \in {1, 32, 256}
      BY <3>1, PerIs, TypesListed
    <3> QED
      BY <3>1, <3>2 DEF N
  <2> QED
    BY <2>1, <2>2, <2>3 DEF Unpacking, N
<1>2. call.n \in Nat /\ call.type \in DOMAIN Block /\ call.n % P = 0
  BY <1>1, CallAssumption DEF Convertible
<1>3. P \in {1, 32, 256}
  BY <1>2, PerIs, TypesListed
<1>4. N \in Nat /\ N * P = call.n
  BY <1>2, <1>3
<1>5. DOMAIN y = 0 .. call.n - 1
  <2>1. i * P + j - 1 = call.n - 1
    BY <1>1, <1>2, <1>4
  <2> QED
    BY <1>1, <2>1 DEF Written
<1>6. \A e \in DOMAIN y : y[e] = ElementAt(call.type, e \div P, e % P)
  BY <1>1 DEF Written
<1> DEFINE n == call.n
<1>7. n \in Nat
  BY <1>2
<1> HIDE DEF P, N, n
<1>8. \A e \in 0 .. n - 1 : e \div P \in 0 .. N - 1 /\ e % P \in 0 .. P - 1
  <2> SUFFICES ASSUME NEW e \in 0 .. n - 1 PROVE e \div P \in 0 .. N - 1 /\ e % P \in 0 .. P - 1
    OBVIOUS
  <2>1. e < N * P /\ e \in Nat
    BY <1>4, <1>7 DEF n
  <2>2. CASE P = 1
    BY <1>4, <2>1, <2>2
  <2>3. CASE P = 32
    BY <1>4, <2>1, <2>3
  <2>4. CASE P = 256
    BY <1>4, <2>1, <2>4
  <2> QED
    BY <1>3, <2>2, <2>3, <2>4
<1>9. ASSUME NEW b \in 0 .. N - 1, NEW r \in 0 .. P - 1
      PROVE  /\ b * P + r \in 0 .. n - 1 /\ (b * P + r) \div P = b /\ (b * P + r) % P = r
  <2>1. n = N * P
    BY <1>4 DEF n
  <2>2. CASE P = 1
    BY <1>4, <2>1, <2>2
  <2>3. CASE P = 32
    BY <1>4, <2>1, <2>3
  <2>4. CASE P = 256
    BY <1>4, <2>1, <2>4
  <2> QED
    BY <1>3, <2>2, <2>3, <2>4
<1>10. \A b \in 0 .. N - 1, r \in 0 .. P - 1 :
           b * P + r \in DOMAIN y /\ y[b * P + r] = ElementAt(call.type, b, r)
  BY <1>5, <1>6, <1>9 DEF n
<1> QED
  BY <1>3, <1>4, <1>5, <1>6, <1>7, <1>8, <1>10 DEF Finished, P, N, n

(* If the elements of a block cover the bytes from lo to hi of the block,  *)
(* those of the tensor cover them of every block.                          *)
LEMMA Covered ==
    ASSUME Finished, NEW last \in Nat, last = Per(call.type) - 1,
           Block[call.type][2] \in Nat, NEW lo \in Nat, NEW hi \in Nat,
           AsWide(call.type, last), Placed(call.type, last),
           Fits(call.type, last, lo, hi), Fills(call.type, last, lo, hi),
           Spans({"qs", "ql", "qh"}, lo, hi)
    PROVE  EveryBitOnce
<1> DEFINE B == Block[call.type][2]
           P == Per(call.type)
           N == call.n \div P
           all == UNION {BitsIn(y[e].quant) : e \in DOMAIN y}
<1>1. /\ N \in Nat /\ DOMAIN y = 0 .. call.n - 1
      /\ \A e \in DOMAIN y : /\ e \div P \in 0 .. N - 1 /\ e % P \in 0 .. last
                             /\ y[e] = ElementAt(call.type, e \div P, e % P)
      /\ \A b \in 0 .. N - 1, r \in 0 .. last :
             /\ b * P + r \in DOMAIN y
             /\ y[b * P + r] = ElementAt(call.type, b, r)
  BY DEF Finished
<1>2. ASSUME NEW b, NEW r
      PROVE  ElementAt(call.type, b, r).quant = QuantAt(call.type, b, r)
  BY DEF ElementAt
<1>3. BitsOf({"qs", "ql", "qh"}) = Region(B, N, lo, hi)
  BY <1>1, RegionIs
<1>4. B \in Nat
  OBVIOUS
<1> HIDE DEF P, N, B
<1>5. ASSUME NEW e \in DOMAIN y PROVE Len(y[e].quant) = Width[call.type]
  <2>1. /\ e \div P \in Nat /\ e % P \in 0 .. last
        /\ y[e] = ElementAt(call.type, e \div P, e % P)
    BY <1>1, <1>5
  <2> QED
    BY <1>2, <2>1 DEF AsWide
<1>6. ASSUME NEW b \in Nat PROVE Origin(call.type, b) = b * B /\ b * B \in Nat
  BY <1>4, ProductIsNat DEF Origin, B
<1>7. ASSUME NEW p \in all PROVE p \in Region(B, N, lo, hi)
  <2>1. PICK e \in DOMAIN y : p \in BitsIn(y[e].quant)
    BY <1>7
  <2> DEFINE b == e \div P
             r == e % P
  <2>2. b \in 0 .. N - 1 /\ r \in 0 .. last /\ y[e].quant = QuantAt(call.type, b, r)
    BY <1>1, <1>2
  <2> HIDE DEF b, r
  <2>3. b \in Nat
    BY <1>1, <2>2
  <2>4. p \in Moved(Origin(call.type, b), Own(call.type, r))
    BY <2>1, <2>2, <2>3 DEF Placed
  <2>5. PICK q \in Own(call.type, r) : p = <<Origin(call.type, b) + q[1], q[2]>>
    BY <2>4 DEF Moved
  <2>6. q[1] \in lo .. hi /\ q[2] \in 0 .. 7
    <3>1. q \in (lo .. hi) \X (0 .. 7)
      BY <2>2 DEF Fits
    <3> QED
      BY <3>1
  <2> DEFINE from == b * B
             x == q[1]
             c == q[2]
  <2>7. from \in Nat /\ p = <<from + x, c>> /\ x \in lo .. hi /\ c \in 0 .. 7
    BY <1>6, <2>3, <2>5, <2>6
  <2>8. b \in 0 .. N - 1
    BY <2>2
  <2> HIDE DEF x, c
  <2>9. p[1] = b * B + x
    BY <2>7
  <2> HIDE DEF from
  <2>10. p \in Nat \X (0 .. 7)
    BY <2>7
  <2> QED
    BY <2>7, <2>8, <2>9, <2>10 DEF Region
<1>8. ASSUME NEW p \in Region(B, N, lo, hi) PROVE p \in all
  <2>1. PICK b \in 0 .. N - 1, x \in lo .. hi : p[1] = b * B + x
    BY <1>8 DEF Region
  <2>2. p \in Nat \X (0 .. 7) /\ b \in Nat
    BY <1>1, <1>8, <2>1 DEF Region
  <2> DEFINE c == p[2]
  <2>3. c \in 0 .. 7 /\ p = <<Origin(call.type, b) + x, c>>
    BY <1>6, <2>1, <2>2
  <2> HIDE DEF c
  <2>4. PICK r \in 0 .. last : <<x, c>> \in Own(call.type, r)
    BY <2>3 DEF Fills
  <2>5. p \in Moved(Origin(call.type, b), Own(call.type, r))
    BY <2>3, <2>4 DEF Moved
  <2>6. p \in BitsIn(QuantAt(call.type, b, r))
    BY <2>2, <2>5 DEF Placed
  <2>7. b * P + r \in DOMAIN y /\ y[b * P + r].quant = QuantAt(call.type, b, r)
    BY <1>1, <1>2
  <2> DEFINE e == b * P + r
  <2>8. e \in DOMAIN y /\ p \in BitsIn(y[e].quant)
    BY <2>6, <2>7
  <2> HIDE DEF e
  <2> QED
    BY <2>8
<1> HIDE DEF all
<1>9. all = Region(B, N, lo, hi)
  BY <1>7, <1>8
<1> QED
  BY <1>1, <1>5, <1>9, <1>3 DEF EveryBitOnce, all

(* The layouts of the bytes the elements of each type cover.               *)
LEMMA EveryBit_f32 == Finished /\ call.type = "f32" => EveryBitOnce
<1> SUFFICES ASSUME Finished, call.type = "f32" PROVE EveryBitOnce
  OBVIOUS
<1> DEFINE members == {"qs", "ql", "qh"}
           K == Holding(members)
           last == 0
           lo == 0
           hi == 3
<1>1. /\ Block[call.type][2] \in Nat /\ last = Per(call.type) - 1
      /\ last \in Nat /\ lo \in Nat /\ hi \in Nat
  BY Layout_f32
<1>2. K = {1}
  <2>1. \A m \in DOMAIN Members["f32"] : m \in {1}
    BY Layout_f32
  <2> QED
    BY <2>1, Layout_f32 DEF Holding
<1>3. /\ Before(call.type, 1) = 0 /\ Members[call.type][1][2] = 4
  BY Layout_f32
<1>4. Spans(members, lo, hi)
  <2>1. \A k \in K : Before(call.type, k) \in Nat /\ Members[call.type][k][2] \in Nat
    <3> HIDE DEF K
    <3> QED
      BY <1>2, <1>3
  <2>2. \A x \in Nat : x \in lo .. hi <=>
            \E k \in K : x \in Before(call.type, k)
                                  .. Before(call.type, k) + Members[call.type][k][2] - 1
    <3> HIDE DEF K
    <3> QED
      BY <1>2, <1>3
  <2> QED
    BY <2>1, <2>2 DEF Spans
<1>5. /\ AsWide(call.type, last) /\ Placed(call.type, last)
      /\ Fits(call.type, last, lo, hi) /\ Fills(call.type, last, lo, hi)
  BY Parts_f32, Fits_f32, Fills_f32
<1> HIDE DEF last, lo, hi
<1> QED
  BY <1>1, <1>4, <1>5, Covered DEF members

LEMMA EveryBit_q4_0 == Finished /\ call.type = "q4_0" => EveryBitOnce
<1> SUFFICES ASSUME Finished, call.type = "q4_0" PROVE EveryBitOnce
  OBVIOUS
<1> DEFINE members == {"qs", "ql", "qh"}
           K == Holding(members)
           last == 31
           lo == 2
           hi == 17
<1>1. /\ Block[call.type][2] \in Nat /\ last = Per(call.type) - 1
      /\ last \in Nat /\ lo \in Nat /\ hi \in Nat
  BY Layout_q4_0
<1>2. K = {2}
  <2>1. \A m \in DOMAIN Members["q4_0"] : m \in {1, 2}
    BY Layout_q4_0
  <2> QED
    BY <2>1, Layout_q4_0 DEF Holding
<1>3. /\ Before(call.type, 2) = 2 /\ Members[call.type][2][2] = 16
  BY Layout_q4_0
<1>4. Spans(members, lo, hi)
  <2>1. \A k \in K : Before(call.type, k) \in Nat /\ Members[call.type][k][2] \in Nat
    <3> HIDE DEF K
    <3> QED
      BY <1>2, <1>3
  <2>2. \A x \in Nat : x \in lo .. hi <=>
            \E k \in K : x \in Before(call.type, k)
                                  .. Before(call.type, k) + Members[call.type][k][2] - 1
    <3> HIDE DEF K
    <3> QED
      BY <1>2, <1>3
  <2> QED
    BY <2>1, <2>2 DEF Spans
<1>5. /\ AsWide(call.type, last) /\ Placed(call.type, last)
      /\ Fits(call.type, last, lo, hi) /\ Fills(call.type, last, lo, hi)
  BY Parts_q4_0, Fits_q4_0, Fills_q4_0
<1> HIDE DEF last, lo, hi
<1> QED
  BY <1>1, <1>4, <1>5, Covered DEF members

LEMMA EveryBit_q4_1 == Finished /\ call.type = "q4_1" => EveryBitOnce
<1> SUFFICES ASSUME Finished, call.type = "q4_1" PROVE EveryBitOnce
  OBVIOUS
<1> DEFINE members == {"qs", "ql", "qh"}
           K == Holding(members)
           last == 31
           lo == 4
           hi == 19
<1>1. /\ Block[call.type][2] \in Nat /\ last = Per(call.type) - 1
      /\ last \in Nat /\ lo \in Nat /\ hi \in Nat
  BY Layout_q4_1
<1>2. K = {3}
  <2>1. \A m \in DOMAIN Members["q4_1"] : m \in {1, 2, 3}
    BY Layout_q4_1
  <2> QED
    BY <2>1, Layout_q4_1 DEF Holding
<1>3. /\ Before(call.type, 3) = 4 /\ Members[call.type][3][2] = 16
  BY Layout_q4_1
<1>4. Spans(members, lo, hi)
  <2>1. \A k \in K : Before(call.type, k) \in Nat /\ Members[call.type][k][2] \in Nat
    <3> HIDE DEF K
    <3> QED
      BY <1>2, <1>3
  <2>2. \A x \in Nat : x \in lo .. hi <=>
            \E k \in K : x \in Before(call.type, k)
                                  .. Before(call.type, k) + Members[call.type][k][2] - 1
    <3> HIDE DEF K
    <3> QED
      BY <1>2, <1>3
  <2> QED
    BY <2>1, <2>2 DEF Spans
<1>5. /\ AsWide(call.type, last) /\ Placed(call.type, last)
      /\ Fits(call.type, last, lo, hi) /\ Fills(call.type, last, lo, hi)
  BY Parts_q4_1, Fits_q4_1, Fills_q4_1
<1> HIDE DEF last, lo, hi
<1> QED
  BY <1>1, <1>4, <1>5, Covered DEF members

LEMMA EveryBit_q5_0 == Finished /\ call.type = "q5_0" => EveryBitOnce
<1> SUFFICES ASSUME Finished, call.type = "q5_0" PROVE EveryBitOnce
  OBVIOUS
<1> DEFINE members == {"qs", "ql", "qh"}
           K == Holding(members)
           last == 31
           lo == 2
           hi == 21
<1>1. /\ Block[call.type][2] \in Nat /\ last = Per(call.type) - 1
      /\ last \in Nat /\ lo \in Nat /\ hi \in Nat
  BY Layout_q5_0
<1>2. K = {2, 3}
  <2>1. \A m \in DOMAIN Members["q5_0"] : m \in {1, 2, 3}
    BY Layout_q5_0
  <2> QED
    BY <2>1, Layout_q5_0 DEF Holding
<1>3. /\ Before(call.type, 2) = 2 /\ Members[call.type][2][2] = 4
      /\ Before(call.type, 3) = 6 /\ Members[call.type][3][2] = 16
  BY Layout_q5_0
<1>4. Spans(members, lo, hi)
  <2>1. \A k \in K : Before(call.type, k) \in Nat /\ Members[call.type][k][2] \in Nat
    <3> HIDE DEF K
    <3> QED
      BY <1>2, <1>3
  <2>2. \A x \in Nat : x \in lo .. hi <=>
            \E k \in K : x \in Before(call.type, k)
                                  .. Before(call.type, k) + Members[call.type][k][2] - 1
    <3> HIDE DEF K
    <3> QED
      BY <1>2, <1>3
  <2> QED
    BY <2>1, <2>2 DEF Spans
<1>5. /\ AsWide(call.type, last) /\ Placed(call.type, last)
      /\ Fits(call.type, last, lo, hi) /\ Fills(call.type, last, lo, hi)
  BY Parts_q5_0, Fits_q5_0, Fills_q5_0
<1> HIDE DEF last, lo, hi
<1> QED
  BY <1>1, <1>4, <1>5, Covered DEF members

LEMMA EveryBit_q5_1 == Finished /\ call.type = "q5_1" => EveryBitOnce
<1> SUFFICES ASSUME Finished, call.type = "q5_1" PROVE EveryBitOnce
  OBVIOUS
<1> DEFINE members == {"qs", "ql", "qh"}
           K == Holding(members)
           last == 31
           lo == 4
           hi == 23
<1>1. /\ Block[call.type][2] \in Nat /\ last = Per(call.type) - 1
      /\ last \in Nat /\ lo \in Nat /\ hi \in Nat
  BY Layout_q5_1
<1>2. K = {3, 4}
  <2>1. \A m \in DOMAIN Members["q5_1"] : m \in {1, 2, 3, 4}
    BY Layout_q5_1
  <2> QED
    BY <2>1, Layout_q5_1 DEF Holding
<1>3. /\ Before(call.type, 3) = 4 /\ Members[call.type][3][2] = 4
      /\ Before(call.type, 4) = 8 /\ Members[call.type][4][2] = 16
  BY Layout_q5_1
<1>4. Spans(members, lo, hi)
  <2>1. \A k \in K : Before(call.type, k) \in Nat /\ Members[call.type][k][2] \in Nat
    <3> HIDE DEF K
    <3> QED
      BY <1>2, <1>3
  <2>2. \A x \in Nat : x \in lo .. hi <=>
            \E k \in K : x \in Before(call.type, k)
                                  .. Before(call.type, k) + Members[call.type][k][2] - 1
    <3> HIDE DEF K
    <3> QED
      BY <1>2, <1>3
  <2> QED
    BY <2>1, <2>2 DEF Spans
<1>5. /\ AsWide(call.type, last) /\ Placed(call.type, last)
      /\ Fits(call.type, last, lo, hi) /\ Fills(call.type, last, lo, hi)
  BY Parts_q5_1, Fits_q5_1, Fills_q5_1
<1> HIDE DEF last, lo, hi
<1> QED
  BY <1>1, <1>4, <1>5, Covered DEF members

LEMMA EveryBit_q8_0 == Finished /\ call.type = "q8_0" => EveryBitOnce
<1> SUFFICES ASSUME Finished, call.type = "q8_0" PROVE EveryBitOnce
  OBVIOUS
<1> DEFINE members == {"qs", "ql", "qh"}
           K == Holding(members)
           last == 31
           lo == 2
           hi == 33
<1>1. /\ Block[call.type][2] \in Nat /\ last = Per(call.type) - 1
      /\ last \in Nat /\ lo \in Nat /\ hi \in Nat
  BY Layout_q8_0
<1>2. K = {2}
  <2>1. \A m \in DOMAIN Members["q8_0"] : m \in {1, 2}
    BY Layout_q8_0
  <2> QED
    BY <2>1, Layout_q8_0 DEF Holding
<1>3. /\ Before(call.type, 2) = 2 /\ Members[call.type][2][2] = 32
  BY Layout_q8_0
<1>4. Spans(members, lo, hi)
  <2>1. \A k \in K : Before(call.type, k) \in Nat /\ Members[call.type][k][2] \in Nat
    <3> HIDE DEF K
    <3> QED
      BY <1>2, <1>3
  <2>2. \A x \in Nat : x \in lo .. hi <=>
            \E k \in K : x \in Before(call.type, k)
                                  .. Before(call.type, k) + Members[call.type][k][2] - 1
    <3> HIDE DEF K
    <3> QED
      BY <1>2, <1>3
  <2> QED
    BY <2>1, <2>2 DEF Spans
<1>5. /\ AsWide(call.type, last) /\ Placed(call.type, last)
      /\ Fits(call.type, last, lo, hi) /\ Fills(call.type, last, lo, hi)
  BY Parts_q8_0, Fits_q8_0, Fills_q8_0
<1> HIDE DEF last, lo, hi
<1> QED
  BY <1>1, <1>4, <1>5, Covered DEF members

LEMMA EveryBit_q4_K == Finished /\ call.type = "q4_K" => EveryBitOnce
<1> SUFFICES ASSUME Finished, call.type = "q4_K" PROVE EveryBitOnce
  OBVIOUS
<1> DEFINE members == {"qs", "ql", "qh"}
           K == Holding(members)
           last == 255
           lo == 16
           hi == 143
<1>1. /\ Block[call.type][2] \in Nat /\ last = Per(call.type) - 1
      /\ last \in Nat /\ lo \in Nat /\ hi \in Nat
  BY Layout_q4_K
<1>2. K = {4}
  <2>1. \A m \in DOMAIN Members["q4_K"] : m \in {1, 2, 3, 4}
    BY Layout_q4_K
  <2> QED
    BY <2>1, Layout_q4_K DEF Holding
<1>3. /\ Before(call.type, 4) = 16 /\ Members[call.type][4][2] = 128
  BY Layout_q4_K
<1>4. Spans(members, lo, hi)
  <2>1. \A k \in K : Before(call.type, k) \in Nat /\ Members[call.type][k][2] \in Nat
    <3> HIDE DEF K
    <3> QED
      BY <1>2, <1>3
  <2>2. \A x \in Nat : x \in lo .. hi <=>
            \E k \in K : x \in Before(call.type, k)
                                  .. Before(call.type, k) + Members[call.type][k][2] - 1
    <3> HIDE DEF K
    <3> QED
      BY <1>2, <1>3
  <2> QED
    BY <2>1, <2>2 DEF Spans
<1>5. /\ AsWide(call.type, last) /\ Placed(call.type, last)
      /\ Fits(call.type, last, lo, hi) /\ Fills(call.type, last, lo, hi)
  BY Parts_q4_K, Fits_q4_K, Fills_q4_K
<1> HIDE DEF last, lo, hi
<1> QED
  BY <1>1, <1>4, <1>5, Covered DEF members

LEMMA EveryBit_q5_K == Finished /\ call.type = "q5_K" => EveryBitOnce
<1> SUFFICES ASSUME Finished, call.type = "q5_K" PROVE EveryBitOnce
  OBVIOUS
<1> DEFINE members == {"qs", "ql", "qh"}
           K == Holding(members)
           last == 255
           lo == 16
           hi == 175
<1>1. /\ Block[call.type][2] \in Nat /\ last = Per(call.type) - 1
      /\ last \in Nat /\ lo \in Nat /\ hi \in Nat
  BY Layout_q5_K
<1>2. K = {4, 5}
  <2>1. \A m \in DOMAIN Members["q5_K"] : m \in {1, 2, 3, 4, 5}
    BY Layout_q5_K
  <2> QED
    BY <2>1, Layout_q5_K DEF Holding
<1>3. /\ Before(call.type, 4) = 16 /\ Members[call.type][4][2] = 32
      /\ Before(call.type, 5) = 48 /\ Members[call.type][5][2] = 128
  BY Layout_q5_K
<1>4. Spans(members, lo, hi)
  <2>1. \A k \in K : Before(call.type, k) \in Nat /\ Members[call.type][k][2] \in Nat
    <3> HIDE DEF K
    <3> QED
      BY <1>2, <1>3
  <2>2. \A x \in Nat : x \in lo .. hi <=>
            \E k \in K : x \in Before(call.type, k)
                                  .. Before(call.type, k) + Members[call.type][k][2] - 1
    <3> HIDE DEF K
    <3> QED
      BY <1>2, <1>3
  <2> QED
    BY <2>1, <2>2 DEF Spans
<1>5. /\ AsWide(call.type, last) /\ Placed(call.type, last)
      /\ Fits(call.type, last, lo, hi) /\ Fills(call.type, last, lo, hi)
  BY Parts_q5_K, Fits_q5_K, Fills_q5_K
<1> HIDE DEF last, lo, hi
<1> QED
  BY <1>1, <1>4, <1>5, Covered DEF members

LEMMA EveryBit_q6_K == Finished /\ call.type = "q6_K" => EveryBitOnce
<1> SUFFICES ASSUME Finished, call.type = "q6_K" PROVE EveryBitOnce
  OBVIOUS
<1> DEFINE members == {"qs", "ql", "qh"}
           K == Holding(members)
           last == 255
           lo == 0
           hi == 191
<1>1. /\ Block[call.type][2] \in Nat /\ last = Per(call.type) - 1
      /\ last \in Nat /\ lo \in Nat /\ hi \in Nat
  BY Layout_q6_K
<1>2. K = {1, 2}
  <2>1. \A m \in DOMAIN Members["q6_K"] : m \in {1, 2, 3, 4}
    BY Layout_q6_K
  <2> QED
    BY <2>1, Layout_q6_K DEF Holding
<1>3. /\ Before(call.type, 1) = 0 /\ Members[call.type][1][2] = 128
      /\ Before(call.type, 2) = 128 /\ Members[call.type][2][2] = 64
  BY Layout_q6_K
<1>4. Spans(members, lo, hi)
  <2>1. \A k \in K : Before(call.type, k) \in Nat /\ Members[call.type][k][2] \in Nat
    <3> HIDE DEF K
    <3> QED
      BY <1>2, <1>3
  <2>2. \A x \in Nat : x \in lo .. hi <=>
            \E k \in K : x \in Before(call.type, k)
                                  .. Before(call.type, k) + Members[call.type][k][2] - 1
    <3> HIDE DEF K
    <3> QED
      BY <1>2, <1>3
  <2> QED
    BY <2>1, <2>2 DEF Spans
<1>5. /\ AsWide(call.type, last) /\ Placed(call.type, last)
      /\ Fits(call.type, last, lo, hi) /\ Fills(call.type, last, lo, hi)
  BY Parts_q6_K, Fits_q6_K, Fills_q6_K
<1> HIDE DEF last, lo, hi
<1> QED
  BY <1>1, <1>4, <1>5, Covered DEF members
----------------------------------------------------------------------------
(***************************************************************************)
(* What an element is scaled by.                                           *)
(***************************************************************************)
LEMMA LowestIs ==
    ASSUME call.type \in DOMAIN Block \ {"f16", "f32"}
    PROVE  LowestAt(call.type) = IF Has("m") THEN 0 ELSE -(2 ^ (Width[call.type] - 1))
<1>1. 2 ^ 3 = 8 /\ 2 ^ 4 = 16 /\ 2 ^ 5 = 32 /\ 2 ^ 7 = 128
  BY PowersOfTwo
<1>2. Has("m") <=> call.type \in WithMin
  BY MembersNamed
<1>3. CASE call.type = "q4_0"
  <2>1. Width[call.type] - 1 = 3 /\ LowestAt(call.type) = -8 /\ ~Has("m")
    BY <1>2, <1>3 DEF Width, LowestAt, WithMin
  <2> QED
    BY <1>1, <2>1, ZenonT(40)
<1>4. CASE call.type = "q5_0"
  <2>1. Width[call.type] - 1 = 4 /\ LowestAt(call.type) = -16 /\ ~Has("m")
    BY <1>2, <1>4 DEF Width, LowestAt, WithMin
  <2> QED
    BY <1>1, <2>1, ZenonT(40)
<1>5. CASE call.type = "q8_0"
  <2>1. Width[call.type] - 1 = 7 /\ LowestAt(call.type) = -128 /\ ~Has("m")
    BY <1>2, <1>5 DEF Width, LowestAt, WithMin
  <2> QED
    BY <1>1, <2>1, ZenonT(40)
<1>6. CASE call.type = "q6_K"
  <2>1. Width[call.type] - 1 = 5 /\ LowestAt(call.type) = -32 /\ ~Has("m")
    BY <1>2, <1>6 DEF Width, LowestAt, WithMin
  <2> QED
    BY <1>1, <2>1, ZenonT(40)
<1>7. CASE call.type \in WithMin
  BY <1>2, <1>7 DEF LowestAt, WithMin
<1> QED
  BY <1>3, <1>4, <1>5, <1>6, <1>7, TypesListed DEF WithMin

LEMMA AtOrigin ==
    ASSUME NEW type, NEW b \in Nat, NEW member,
           Block[type][2] \in Nat, Offset(type, member) \in Nat
    PROVE  At(type, b, member, 0) = b * Block[type][2] + Offset(type, member)
<1> DEFINE base == b * Block[type][2]
<1>1. base \in Nat
  BY ProductIsNat
<1>2. base + Offset(type, member) + 0 = base + Offset(type, member)
  BY <1>1
<1> QED
  BY <1>2 DEF At

LEMMA OffsetsOfD ==
    ASSUME call.type \in DOMAIN Block \ {"f16", "f32"}
    PROVE  /\ Block[call.type][2] \in Nat /\ Offset(call.type, "d") \in Nat
           /\ call.type \in WithMin => Offset(call.type, "m") \in Nat
<1>1. CASE call.type = "q4_0"
  BY <1>1, Layout_q4_0 DEF WithMin
<1>2. CASE call.type = "q4_1"
  BY <1>2, Layout_q4_1
<1>3. CASE call.type = "q5_0"
  BY <1>3, Layout_q5_0 DEF WithMin
<1>4. CASE call.type = "q5_1"
  BY <1>4, Layout_q5_1
<1>5. CASE call.type = "q8_0"
  BY <1>5, Layout_q8_0 DEF WithMin
<1>6. CASE call.type = "q4_K"
  BY <1>6, Layout_q4_K
<1>7. CASE call.type = "q5_K"
  BY <1>7, Layout_q5_K
<1>8. CASE call.type = "q6_K"
  BY <1>8, Layout_q6_K DEF WithMin
<1> QED
  BY <1>1, <1>2, <1>3, <1>4, <1>5, <1>6, <1>7, <1>8, TypesListed

LEMMA OwnBlockAtReturn ==
    Finished /\ call.type \in DOMAIN Block \ {"f16", "f32"} => OwnBlock
<1> SUFFICES ASSUME Finished, call.type \in DOMAIN Block \ {"f16", "f32"}, NEW e \in DOMAIN y
             PROVE  LET from == (e \div Per(call.type)) * Block[call.type][2]
                    IN  /\ y[e].d = from + Offset(call.type, "d")
                        /\ y[e].m = IF Has("m") THEN from + Offset(call.type, "m") ELSE -1
                        /\ y[e].lowest = IF Has("m") THEN 0
                                         ELSE -(2 ^ (Width[call.type] - 1))
  BY DEF OwnBlock
<1> DEFINE b == e \div Per(call.type)
           r == e % Per(call.type)
           element == ElementAt(call.type, b, r)
<1>1. b \in Nat /\ y[e] = element
  BY DEF Finished
<1>2. /\ element.d = At(call.type, b, "d", 0)
      /\ element.m = IF call.type \in WithMin THEN At(call.type, b, "m", 0) ELSE -1
      /\ element.lowest = LowestAt(call.type)
  <2> HIDE DEF b, r
  <2> QED
    BY DEF ElementAt
<1>3. Has("m") <=> call.type \in WithMin
  BY MembersNamed
<1> HIDE DEF b, r
<1>4. At(call.type, b, "d", 0) = b * Block[call.type][2] + Offset(call.type, "d")
  BY <1>1, AtOrigin, OffsetsOfD
<1>5. call.type \in WithMin =>
          At(call.type, b, "m", 0) = b * Block[call.type][2] + Offset(call.type, "m")
  BY <1>1, AtOrigin, OffsetsOfD
<1> HIDE DEF element
<1>6. /\ y[e].d = b * Block[call.type][2] + Offset(call.type, "d")
      /\ y[e].m = IF Has("m") THEN b * Block[call.type][2] + Offset(call.type, "m") ELSE -1
  BY <1>1, <1>2, <1>3, <1>4, <1>5
<1>7. y[e].lowest = LowestAt(call.type)
  BY <1>1, <1>2
<1> QED
  BY <1>6, <1>7, LowestIs DEF b

----------------------------------------------------------------------------
(***************************************************************************)
(* The scales and minima of a block of 256, group by group.                *)
(***************************************************************************)
Groups(type) == IF type = "q6_K" THEN 16 ELSE 8

ScaleOf(type, b, g) ==
    IF type = "q6_K" THEN BitsAt(type, b, "scales", g, 0, 8) ELSE PackedScale(type, b, g)
MinOf(type, b, g) == IF type = "q6_K" THEN <<>> ELSE PackedMin(type, b, g)

(* Their bits in the block.                                                *)
ScaleSpots(g) ==
    IF g < 4 THEN Spot(4 + g, 0, 6) ELSE Spot(4 + (g + 4), 0, 4) \cup Spot(4 + (g - 4), 6, 2)
MinSpots(g) ==
    IF g < 4 THEN Spot(4 + (g + 4), 0, 6) ELSE Spot(4 + (g + 4), 4, 4) \cup Spot(4 + g, 6, 2)
OwnScale(type, g) ==
    IF type = "q6_K" THEN Spot(192 + g, 0, 8) ELSE ScaleSpots(g) \cup MinSpots(g)

LEMMA GroupsOf ==
    ASSUME call.type \in DOMAIN Group
    PROVE  /\ call.type \in {"q4_K", "q5_K", "q6_K"}
           /\ Per(call.type) = 256
           /\ Group[call.type] \in {16, 32} /\ Groups(call.type) * Group[call.type] = 256
           /\ Groups(call.type) \in {8, 16}
           /\ Has("m") <=> call.type # "q6_K"
<1>1. call.type \in {"q4_K", "q5_K", "q6_K"}
  BY DEF Group
<1>2. call.type \in DOMAIN Block \ {"f16"}
  BY <1>1, TypesListed
<1>3. Has("m") <=> call.type # "q6_K"
  BY <1>1, <1>2, MembersNamed DEF WithMin
<1>4. Per(call.type) = 256
  BY <1>1, PerIs
<1>5. /\ Group[call.type] = (IF call.type = "q6_K" THEN 16 ELSE 32)
      /\ Groups(call.type) = (IF call.type = "q6_K" THEN 16 ELSE 8)
  BY <1>1 DEF Group, Groups
<1> QED
  BY <1>1, <1>3, <1>4, <1>5

(* An element e is scaled by its group in its block.                       *)
GroupIn(e) == (e % 256) \div Group[call.type]

LEMMA ScaledByGroup ==
    ASSUME Finished, call.type \in DOMAIN Group, NEW e \in DOMAIN y
    PROVE  /\ e \in Nat /\ call.n \in Nat /\ e \div 256 \in 0 .. call.n \div 256 - 1
           /\ GroupIn(e) \in 0 .. Groups(call.type) - 1
           /\ y[e].scale = ScaleOf(call.type, e \div 256, GroupIn(e))
           /\ y[e].min = MinOf(call.type, e \div 256, GroupIn(e))
<1> DEFINE b == e \div 256
           r == e % 256
           g == GroupIn(e)
<1>1. Per(call.type) = 256 /\ call.type \in {"q4_K", "q5_K", "q6_K"}
  BY GroupsOf
<1>2. /\ DOMAIN y = 0 .. call.n - 1 /\ b \in 0 .. call.n \div 256 - 1 /\ r \in 0 .. 255
      /\ y[e] = ElementAt(call.type, b, r)
  BY <1>1, SMTT(30) DEF Finished
<1>3. e \in Nat /\ call.n \in Nat
  BY <1>2 DEF Finished
<1>4. g = IF call.type = "q6_K" THEN r \div 16 ELSE r \div 32
  BY <1>1 DEF GroupIn, Group
<1>5. g \in 0 .. Groups(call.type) - 1
  BY <1>1, <1>2, <1>4 DEF Groups
<1> HIDE DEF b, r, g
<1>6. /\ ElementAt(call.type, b, r).scale = ScaleAt(call.type, b, r)
      /\ ElementAt(call.type, b, r).min = MinAt(call.type, b, r)
  BY <1>1 DEF ElementAt
<1>7. ScaleAt(call.type, b, r) = ScaleOf(call.type, b, g)
  BY <1>1, <1>4 DEF ScaleAt, ScaleOf
<1>8. MinAt(call.type, b, r) = MinOf(call.type, b, g)
  BY <1>1, <1>4 DEF MinAt, MinOf
<1>9. y[e].scale = ScaleOf(call.type, b, g) /\ y[e].min = MinOf(call.type, b, g)
  BY <1>2, <1>6, <1>7, <1>8
<1> QED
  BY <1>2, <1>3, <1>5, <1>9 DEF b, g

(* The first element of a group.                                           *)
FirstIn(e) == (e \div Group[call.type]) * Group[call.type]

LEMMA FirstOfGroup ==
    ASSUME Finished, call.type \in DOMAIN Group, NEW e \in DOMAIN y
    PROVE  /\ FirstIn(e) \in DOMAIN y /\ FirstIn(e) \div 256 = e \div 256
           /\ GroupIn(FirstIn(e)) = GroupIn(e)
<1>1. Group[call.type] \in {16, 32} /\ DOMAIN y = 0 .. call.n - 1
  BY GroupsOf DEF Finished
<1>2. e \in Nat /\ call.n \in Nat /\ e < call.n
  <2>1. e \in Nat /\ call.n \in Nat
    BY ScaledByGroup
  <2> QED
    BY <1>1, <2>1
<1>3. CASE Group[call.type] = 16
  <2> DEFINE f == (e \div 16) * 16
  <2>1. /\ f \in Nat /\ f <= e /\ f \div 256 = e \div 256
        /\ (f % 256) \div 16 = (e % 256) \div 16
    BY <1>2
  <2>2. FirstIn(e) = f
    BY <1>3 DEF FirstIn
  <2> HIDE DEF f
  <2>3. f \in DOMAIN y
    BY <1>1, <1>2, <2>1
  <2> QED
    BY <1>3, <2>1, <2>2, <2>3 DEF GroupIn
<1>4. CASE Group[call.type] = 32
  <2> DEFINE f == (e \div 32) * 32
  <2>1. /\ f \in Nat /\ f <= e /\ f \div 256 = e \div 256
        /\ (f % 256) \div 32 = (e % 256) \div 32
    BY <1>2
  <2>2. FirstIn(e) = f
    BY <1>4 DEF FirstIn
  <2> HIDE DEF f
  <2>3. f \in DOMAIN y
    BY <1>1, <1>2, <2>1
  <2> QED
    BY <1>4, <2>1, <2>2, <2>3 DEF GroupIn
<1> QED
  BY <1>1, <1>3, <1>4

LEMMA GroupHasFirst ==
    ASSUME Finished, call.type \in DOMAIN Group,
           NEW b \in 0 .. call.n \div 256 - 1, NEW g \in 0 .. Groups(call.type) - 1
    PROVE  \E e \in DOMAIN y : e = FirstIn(e) /\ e \div 256 = b /\ GroupIn(e) = g
<1> DEFINE G == Group[call.type]
           N == call.n \div 256
           r == g * G
           e == b * 256 + r
<1>1. /\ Per(call.type) = 256
      /\ (G = 16 /\ Groups(call.type) = 16) \/ (G = 32 /\ Groups(call.type) = 8)
  <2>1. G \in {16, 32} /\ Groups(call.type) \in {8, 16} /\ Groups(call.type) * G = 256
        /\ Per(call.type) = 256
    BY GroupsOf
  <2> HIDE DEF G
  <2> QED
    BY <2>1
<1>2. /\ N \in Nat
      /\ \A c \in 0 .. N - 1, s \in 0 .. 255 : c * 256 + s \in DOMAIN y
  BY <1>1 DEF Finished
<1>3. b \in Nat /\ g \in Nat
  BY <1>2, <1>1
<1>4. r \in 0 .. 255 /\ (r \div G) = g /\ (r \div G) * G = r
  <2>1. CASE G = 16 /\ Groups(call.type) = 16
    <3>1. g \in 0 .. 15
      BY <2>1
    <3>2. g * 16 \in 0 .. 255 /\ (g * 16) \div 16 = g
      BY <3>1
    <3> QED
      BY <2>1, <3>2
  <2>2. CASE G = 32 /\ Groups(call.type) = 8
    <3>1. g \in 0 .. 7
      BY <2>2
    <3>2. g * 32 \in 0 .. 255 /\ (g * 32) \div 32 = g
      BY <3>1
    <3> QED
      BY <2>2, <3>2
  <2> QED
    BY <1>1, <2>1, <2>2
<1> HIDE DEF N, r
<1>5. e \in DOMAIN y
  BY <1>2, <1>4 DEF N
<1>6. e \div 256 = b /\ e % 256 = r
  BY <1>3, <1>4
<1>7. (e \div G) * G = e
  <2>1. CASE G = 16
    <3>1. r % 16 = 0
      BY <1>4, <2>1
    <3>2. (e \div 16) * 16 = e
      BY <1>3, <1>4, <3>1
    <3> QED
      BY <2>1, <3>2
  <2>2. CASE G = 32
    <3>1. r % 32 = 0
      BY <1>4, <2>2
    <3>2. (e \div 32) * 32 = e
      BY <1>3, <1>4, <3>1
    <3> QED
      BY <2>2, <3>2
  <2> QED
    BY <1>1, <2>1, <2>2
<1> HIDE DEF e
<1>8. FirstIn(e) = e /\ GroupIn(e) = g
  BY <1>4, <1>6, <1>7 DEF FirstIn, GroupIn
<1> QED
  BY <1>5, <1>6, <1>8

(* One stretch of the packed scales, and two that are joined.              *)
OneOrMore(bits, length, origin, spots) ==
    /\ \E S : bits \in Seq(S)
    /\ Len(bits) = length
    /\ BitsIn(bits) = Moved(origin, spots)

LEMMA Stretch ==
    ASSUME NEW type \in {"q4_K", "q5_K"}, NEW b \in Nat, NEW index \in Nat,
           NEW first \in Nat, NEW count \in Nat
    PROVE  OneOrMore(BitsAt(type, b, "scales", index, first, count), count, Origin(type, b),
                     Spot(4 + index, first, count))
<1> DEFINE bits == BitsAt(type, b, "scales", index, first, count)
<1>1. Block[type][2] \in Nat /\ Offset(type, "scales") \in Nat /\ Offset(type, "scales") = 4
  <2>1. CASE type = "q4_K"
    BY <2>1, Layout_q4_K
  <2>2. CASE type = "q5_K"
    BY <2>2, Layout_q5_K
  <2> QED
    BY <2>1, <2>2
<1>2. bits \in Seq({At(type, b, "scales", index)} \X Nat)
  BY BitsAtTyped
<1>3. Len(bits) = count
  BY BitsAtLength
<1>4. BitsIn(bits) = Moved(Origin(type, b), Spot(Offset(type, "scales") + index, first, count))
  BY <1>1, PartAt
<1> HIDE DEF bits
<1>5. BitsIn(bits) = Moved(Origin(type, b), Spot(4 + index, first, count))
  BY <1>1, <1>4
<1>6. \E S : bits \in Seq(S)
  BY <1>2
<1> QED
  BY <1>3, <1>5, <1>6 DEF OneOrMore, bits

LEMMA StretchesJoined ==
    ASSUME NEW s, NEW m \in Nat, NEW t, NEW n \in Nat, NEW origin, NEW here, NEW there,
           OneOrMore(s, m, origin, here), OneOrMore(t, n, origin, there)
    PROVE  OneOrMore(s \o t, m + n, origin, here \cup there)
<1>1. PICK S : s \in Seq(S)
  BY DEF OneOrMore
<1>2. PICK T : t \in Seq(T)
  BY DEF OneOrMore
<1>3. /\ Len(s) = m /\ Len(t) = n /\ BitsIn(s) = Moved(origin, here)
      /\ BitsIn(t) = Moved(origin, there)
  BY DEF OneOrMore
<1>4. s \o t \in Seq(S \cup T) /\ Len(s \o t) = Len(s) + Len(t)
  BY <1>1, <1>2, LengthsJoined
<1>5. BitsIn(s \o t) = BitsIn(s) \cup BitsIn(t)
  BY <1>1, <1>2, BitsJoined
<1>6. Moved(origin, here \cup there) = Moved(origin, here) \cup Moved(origin, there)
  BY MovedBoth
<1>7. BitsIn(s \o t) = Moved(origin, here \cup there)
  BY <1>3, <1>5, <1>6
<1>8. \E U : s \o t \in Seq(U)
  BY <1>4
<1>9. Len(s \o t) = m + n
  BY <1>3, <1>4
<1> QED
  BY <1>7, <1>8, <1>9 DEF OneOrMore

LEMMA PackedScaleIs ==
    ASSUME NEW type \in {"q4_K", "q5_K"}, NEW b \in Nat, NEW g \in 0 .. 7
    PROVE  OneOrMore(PackedScale(type, b, g), 6, Origin(type, b), ScaleSpots(g))
<1> DEFINE origin == Origin(type, b)
<1>1. CASE g < 4
  <2> DEFINE index == g
             first == 0
             count == 6
  <2>1. index \in Nat /\ first \in Nat /\ count \in Nat
    OBVIOUS
  <2>2. PackedScale(type, b, g) = BitsAt(type, b, "scales", index, first, count)
    BY <1>1 DEF PackedScale
  <2>3. ScaleSpots(g) = Spot(4 + index, first, count)
    BY <1>1 DEF ScaleSpots
  <2>4. count = 6
    OBVIOUS
  <2> HIDE DEF index, first, count
  <2>5. OneOrMore(BitsAt(type, b, "scales", index, first, count), count, Origin(type, b),
                  Spot(4 + index, first, count))
    BY <2>1, Stretch
  <2> QED
    BY <2>2, <2>3, <2>4, <2>5
<1>2. CASE ~(g < 4)
  <2> DEFINE index1 == g + 4
             first1 == 0
             count1 == 4
             index2 == g - 4
             first2 == 6
             count2 == 2
             here == Spot(4 + index1, first1, count1)
             there == Spot(4 + index2, first2, count2)
             s == BitsAt(type, b, "scales", index1, first1, count1)
             t == BitsAt(type, b, "scales", index2, first2, count2)
  <2>1. /\ index1 \in Nat /\ first1 \in Nat /\ count1 \in Nat
        /\ index2 \in Nat /\ first2 \in Nat /\ count2 \in Nat
    BY <1>2
  <2>2. PackedScale(type, b, g) = s \o t
    BY <1>2 DEF PackedScale
  <2>3. ScaleSpots(g) = here \cup there
    BY <1>2 DEF ScaleSpots
  <2>4. count1 + count2 = 6
    OBVIOUS
  <2> HIDE DEF index1, first1, count1, index2, first2, count2
  <2>5. OneOrMore(s, count1, origin, here)
    BY <2>1, Stretch
  <2>6. OneOrMore(t, count2, origin, there)
    BY <2>1, Stretch
  <2> HIDE DEF here, there, s, t, origin
  <2>7. OneOrMore(s \o t, count1 + count2, origin, here \cup there)
    BY <2>1, <2>5, <2>6, StretchesJoined
  <2> QED
    BY <2>2, <2>3, <2>4, <2>7 DEF origin
<1> QED
  BY <1>1, <1>2

LEMMA PackedMinIs ==
    ASSUME NEW type \in {"q4_K", "q5_K"}, NEW b \in Nat, NEW g \in 0 .. 7
    PROVE  OneOrMore(PackedMin(type, b, g), 6, Origin(type, b), MinSpots(g))
<1> DEFINE origin == Origin(type, b)
<1>1. CASE g < 4
  <2> DEFINE index == g + 4
             first == 0
             count == 6
  <2>1. index \in Nat /\ first \in Nat /\ count \in Nat
    OBVIOUS
  <2>2. PackedMin(type, b, g) = BitsAt(type, b, "scales", index, first, count)
    BY <1>1 DEF PackedMin
  <2>3. MinSpots(g) = Spot(4 + index, first, count)
    BY <1>1 DEF MinSpots
  <2>4. count = 6
    OBVIOUS
  <2> HIDE DEF index, first, count
  <2>5. OneOrMore(BitsAt(type, b, "scales", index, first, count), count, Origin(type, b),
                  Spot(4 + index, first, count))
    BY <2>1, Stretch
  <2> QED
    BY <2>2, <2>3, <2>4, <2>5
<1>2. CASE ~(g < 4)
  <2> DEFINE index1 == g + 4
             first1 == 4
             count1 == 4
             index2 == g
             first2 == 6
             count2 == 2
             here == Spot(4 + index1, first1, count1)
             there == Spot(4 + index2, first2, count2)
             s == BitsAt(type, b, "scales", index1, first1, count1)
             t == BitsAt(type, b, "scales", index2, first2, count2)
  <2>1. /\ index1 \in Nat /\ first1 \in Nat /\ count1 \in Nat
        /\ index2 \in Nat /\ first2 \in Nat /\ count2 \in Nat
    BY <1>2
  <2>2. PackedMin(type, b, g) = s \o t
    BY <1>2 DEF PackedMin
  <2>3. MinSpots(g) = here \cup there
    BY <1>2 DEF MinSpots
  <2>4. count1 + count2 = 6
    OBVIOUS
  <2> HIDE DEF index1, first1, count1, index2, first2, count2
  <2>5. OneOrMore(s, count1, origin, here)
    BY <2>1, Stretch
  <2>6. OneOrMore(t, count2, origin, there)
    BY <2>1, Stretch
  <2> HIDE DEF here, there, s, t, origin
  <2>7. OneOrMore(s \o t, count1 + count2, origin, here \cup there)
    BY <2>1, <2>5, <2>6, StretchesJoined
  <2> QED
    BY <2>2, <2>3, <2>4, <2>7 DEF origin
<1> QED
  BY <1>1, <1>2

LEMMA ScaleParts ==
    ASSUME call.type \in DOMAIN Group, NEW b \in Nat, NEW g \in 0 .. Groups(call.type) - 1
    PROVE  /\ Len(ScaleOf(call.type, b, g)) = IF Has("m") THEN 6 ELSE 8
           /\ Len(MinOf(call.type, b, g)) = IF Has("m") THEN 6 ELSE 0
           /\ BitsIn(ScaleOf(call.type, b, g) \o MinOf(call.type, b, g)) =
                  Moved(Origin(call.type, b), OwnScale(call.type, g))
<1>1. call.type \in {"q4_K", "q5_K", "q6_K"} /\ (Has("m") <=> call.type # "q6_K")
  BY GroupsOf
<1>2. CASE call.type = "q6_K"
  <2> DEFINE first == 0
             count == 8
             bits == BitsAt("q6_K", b, "scales", g, first, count)
  <2>1. g \in Nat /\ first \in Nat /\ count \in Nat
    BY <1>2 DEF Groups
  <2>2. count = 8
    OBVIOUS
  <2>3. Block["q6_K"][2] \in Nat /\ Offset("q6_K", "scales") \in Nat
    BY Layout_q6_K
  <2>4. Offset("q6_K", "scales") = 192
    BY Layout_q6_K
  <2>5. ScaleOf(call.type, b, g) = bits /\ MinOf(call.type, b, g) = <<>>
    BY <1>2 DEF ScaleOf, MinOf
  <2>6. OwnScale(call.type, g) = Spot(192 + g, first, count)
    BY <1>2 DEF OwnScale
  <2> HIDE DEF first, count
  <2>7. bits \in Seq({At("q6_K", b, "scales", g)} \X Nat)
    BY <2>1, BitsAtTyped
  <2>8. Len(bits) = count
    BY <2>1, BitsAtLength
  <2>9. BitsIn(bits) = Moved(Origin("q6_K", b), Spot(Offset("q6_K", "scales") + g, first, count))
    BY <2>1, <2>3, PartAt
  <2> HIDE DEF bits
  <2>10. bits \o <<>> = bits
    BY <2>7
  <2>11. Len(<<>>) = 0
    OBVIOUS
  <2>12. BitsIn(bits) = Moved(Origin(call.type, b), OwnScale(call.type, g))
    BY <1>2, <2>6, <2>9, <2>4
  <2>13. Len(ScaleOf(call.type, b, g)) = 8
    BY <2>5, <2>8, <2>2
  <2>14. Len(MinOf(call.type, b, g)) = 0
    BY <2>5, <2>11
  <2>15. BitsIn(ScaleOf(call.type, b, g) \o MinOf(call.type, b, g)) =
             Moved(Origin(call.type, b), OwnScale(call.type, g))
    BY <2>5, <2>10, <2>12
  <2> QED
    BY <1>1, <1>2, <2>13, <2>14, <2>15
<1>3. CASE call.type # "q6_K"
  <2> DEFINE scale == PackedScale(call.type, b, g)
             min == PackedMin(call.type, b, g)
             origin == Origin(call.type, b)
             here == ScaleSpots(g)
             there == MinSpots(g)
             m == 6
             n == 6
  <2>1. call.type \in {"q4_K", "q5_K"} /\ g \in 0 .. 7
    BY <1>1, <1>3 DEF Groups
  <2>2. m \in Nat /\ n \in Nat
    OBVIOUS
  <2>3. OneOrMore(scale, m, origin, here)
    BY <2>1, PackedScaleIs
  <2>4. OneOrMore(min, n, origin, there)
    BY <2>1, PackedMinIs
  <2>5. ScaleOf(call.type, b, g) = scale /\ MinOf(call.type, b, g) = min
    BY <1>3 DEF ScaleOf, MinOf
  <2>6. OwnScale(call.type, g) = here \cup there
    BY <1>3 DEF OwnScale
  <2>7. Len(scale) = 6 /\ Len(min) = 6
    BY <2>3, <2>4 DEF OneOrMore
  <2> HIDE DEF scale, min, here, there, m, n, origin
  <2>8. OneOrMore(scale \o min, m + n, origin, here \cup there)
    BY <2>2, <2>3, <2>4, StretchesJoined
  <2>9. BitsIn(scale \o min) = Moved(origin, here \cup there)
    BY <2>8 DEF OneOrMore
  <2> QED
    BY <1>1, <1>3, <2>5, <2>6, <2>7, <2>9 DEF origin
<1> QED
  BY <1>2, <1>3

(* The scales and minima of a block use every bit of its scales.           *)
LEMMA PackedFits ==
    ASSUME NEW g \in 0 .. 7
    PROVE  ScaleSpots(g) \cup MinSpots(g) \subseteq (4 .. 15) \X (0 .. 7)
<1> DEFINE all == (4 .. 15) \X (0 .. 7)
<1>1. ASSUME NEW x \in 4 .. 15, NEW first \in 0 .. 6, NEW count \in 0 .. 6, first + count <= 8
      PROVE  Spot(x, first, count) \subseteq all
  <2> DEFINE lo == 4
             hi == 15
  <2>1. lo \in Nat /\ hi \in Nat /\ x \in lo .. hi /\ first \in Nat /\ count \in Nat
    OBVIOUS
  <2> HIDE DEF lo, hi
  <2>2. Spot(x, first, count) \subseteq (lo .. hi) \X (0 .. 7)
    BY <1>1, <2>1, SpotFits
  <2> QED
    BY <2>2 DEF lo, hi
<1> HIDE DEF all
<1>2. CASE g < 4
  <2>1. 4 + g \in 4 .. 15 /\ 4 + (g + 4) \in 4 .. 15
    BY <1>2
  <2>2. Spot(4 + g, 0, 6) \subseteq all /\ Spot(4 + (g + 4), 0, 6) \subseteq all
    BY <1>1, <2>1
  <2> QED
    BY <1>2, <2>2 DEF ScaleSpots, MinSpots, all
<1>3. CASE ~(g < 4)
  <2>1. 4 + g \in 4 .. 15 /\ 4 + (g + 4) \in 4 .. 15 /\ 4 + (g - 4) \in 4 .. 15
    BY <1>3
  <2>2. Spot(4 + (g + 4), 0, 4) \subseteq all /\ Spot(4 + (g - 4), 6, 2) \subseteq all
    BY <1>1, <2>1
  <2>3. Spot(4 + (g + 4), 4, 4) \subseteq all /\ Spot(4 + g, 6, 2) \subseteq all
    BY <1>1, <2>1
  <2> QED
    BY <1>3, <2>2, <2>3 DEF ScaleSpots, MinSpots, all
<1> QED
  BY <1>2, <1>3

LEMMA PackedFills ==
    ASSUME NEW x \in 4 .. 15, NEW c \in 0 .. 7
    PROVE  \E g \in 0 .. 7 : <<x, c>> \in ScaleSpots(g) \cup MinSpots(g)
<1>1. ASSUME NEW first \in Nat, NEW count \in Nat, first <= c, c <= first + count - 1
      PROVE  <<x, c>> \in Spot(x, first, count)
  BY <1>1, SpotHas
<1>2. CASE x <= 7 /\ c <= 5
  <2> DEFINE g == x - 4
  <2>1. g \in 0 .. 7 /\ 4 + g = x /\ g < 4
    BY <1>2
  <2> HIDE DEF g
  <2>2. ScaleSpots(g) = Spot(4 + g, 0, 6)
    BY <2>1 DEF ScaleSpots
  <2>3. <<x, c>> \in Spot(x, 0, 6)
    BY <1>2, <1>1
  <2>4. <<x, c>> \in ScaleSpots(g)
    BY <2>1, <2>2, <2>3
  <2> QED
    BY <2>1, <2>4
<1>3. CASE x <= 7 /\ c >= 6
  <2> DEFINE g == x
  <2>1. g \in 0 .. 7 /\ 4 + (g - 4) = x /\ ~(g < 4)
    BY <1>3
  <2> HIDE DEF g
  <2>2. ScaleSpots(g) = Spot(4 + (g + 4), 0, 4) \cup Spot(4 + (g - 4), 6, 2)
    BY <2>1 DEF ScaleSpots
  <2>3. <<x, c>> \in Spot(x, 6, 2)
    BY <1>3, <1>1
  <2>4. <<x, c>> \in ScaleSpots(g)
    BY <2>1, <2>2, <2>3
  <2> QED
    BY <2>1, <2>4
<1>4. CASE x \in 8 .. 11 /\ c <= 5
  <2> DEFINE g == x - 8
  <2>1. g \in 0 .. 7 /\ 4 + (g + 4) = x /\ g < 4
    BY <1>4
  <2> HIDE DEF g
  <2>2. MinSpots(g) = Spot(4 + (g + 4), 0, 6)
    BY <2>1 DEF MinSpots
  <2>3. <<x, c>> \in Spot(x, 0, 6)
    BY <1>4, <1>1
  <2>4. <<x, c>> \in MinSpots(g)
    BY <2>1, <2>2, <2>3
  <2> QED
    BY <2>1, <2>4
<1>5. CASE x \in 8 .. 11 /\ c >= 6
  <2> DEFINE g == x - 4
  <2>1. g \in 0 .. 7 /\ 4 + g = x /\ ~(g < 4)
    BY <1>5
  <2> HIDE DEF g
  <2>2. MinSpots(g) = Spot(4 + (g + 4), 4, 4) \cup Spot(4 + g, 6, 2)
    BY <2>1 DEF MinSpots
  <2>3. <<x, c>> \in Spot(x, 6, 2)
    BY <1>5, <1>1
  <2>4. <<x, c>> \in MinSpots(g)
    BY <2>1, <2>2, <2>3
  <2> QED
    BY <2>1, <2>4
<1>6. CASE x >= 12 /\ c <= 3
  <2> DEFINE g == x - 8
  <2>1. g \in 0 .. 7 /\ 4 + (g + 4) = x /\ ~(g < 4)
    BY <1>6
  <2> HIDE DEF g
  <2>2. ScaleSpots(g) = Spot(4 + (g + 4), 0, 4) \cup Spot(4 + (g - 4), 6, 2)
    BY <2>1 DEF ScaleSpots
  <2>3. <<x, c>> \in Spot(x, 0, 4)
    BY <1>6, <1>1
  <2>4. <<x, c>> \in ScaleSpots(g)
    BY <2>1, <2>2, <2>3
  <2> QED
    BY <2>1, <2>4
<1>7. CASE x >= 12 /\ c >= 4
  <2> DEFINE g == x - 8
  <2>1. g \in 0 .. 7 /\ 4 + (g + 4) = x /\ ~(g < 4)
    BY <1>7
  <2> HIDE DEF g
  <2>2. MinSpots(g) = Spot(4 + (g + 4), 4, 4) \cup Spot(4 + g, 6, 2)
    BY <2>1 DEF MinSpots
  <2>3. <<x, c>> \in Spot(x, 4, 4)
    BY <1>7, <1>1
  <2>4. <<x, c>> \in MinSpots(g)
    BY <2>1, <2>2, <2>3
  <2> QED
    BY <2>1, <2>4
<1> QED
  BY <1>2, <1>3, <1>4, <1>5, <1>6, <1>7

ScalesFrom == IF call.type = "q6_K" THEN 192 ELSE 4
ScalesTo   == IF call.type = "q6_K" THEN 207 ELSE 15

LEMMA ScalesFit ==
    ASSUME call.type \in DOMAIN Group, NEW g \in 0 .. Groups(call.type) - 1
    PROVE  OwnScale(call.type, g) \subseteq (ScalesFrom .. ScalesTo) \X (0 .. 7)
<1>1. CASE call.type = "q6_K"
  <2> DEFINE lo == 192
             hi == 207
             x == 192 + g
             first == 0
             count == 8
  <2>1. /\ lo \in Nat /\ hi \in Nat /\ x \in lo .. hi /\ first \in Nat /\ count \in Nat
        /\ first + count <= 8
    BY <1>1 DEF Groups
  <2>2. OwnScale(call.type, g) = Spot(x, first, count) /\ ScalesFrom = lo /\ ScalesTo = hi
    BY <1>1 DEF OwnScale, ScalesFrom, ScalesTo
  <2> HIDE DEF lo, hi, x, first, count
  <2> QED
    BY <2>1, <2>2, SpotFits
<1>2. CASE call.type # "q6_K"
  <2>1. /\ g \in 0 .. 7 /\ ScalesFrom = 4 /\ ScalesTo = 15
        /\ OwnScale(call.type, g) = ScaleSpots(g) \cup MinSpots(g)
    BY <1>2 DEF Groups, OwnScale, ScalesFrom, ScalesTo
  <2> QED
    BY <2>1, PackedFits
<1> QED
  BY <1>1, <1>2

LEMMA ScalesFill ==
    ASSUME call.type \in DOMAIN Group, NEW x \in ScalesFrom .. ScalesTo, NEW c \in 0 .. 7
    PROVE  \E g \in 0 .. Groups(call.type) - 1 : <<x, c>> \in OwnScale(call.type, g)
<1>1. CASE call.type = "q6_K"
  <2> DEFINE g == x - 192
             first == 0
             count == 8
  <2>1. x \in 192 .. 207
    BY <1>1 DEF ScalesFrom, ScalesTo
  <2>2. /\ g \in 0 .. Groups(call.type) - 1 /\ 192 + g = x
        /\ first \in Nat /\ count \in Nat /\ first <= c /\ c <= first + count - 1
    BY <1>1, <2>1 DEF Groups
  <2> HIDE DEF g
  <2>3. OwnScale(call.type, g) = Spot(x, first, count)
    BY <1>1, <2>2 DEF OwnScale
  <2> HIDE DEF first, count
  <2>4. <<x, c>> \in Spot(x, first, count)
    BY <2>2, SpotHas
  <2> QED
    BY <2>2, <2>3, <2>4
<1>2. CASE call.type # "q6_K"
  <2>1. x \in 4 .. 15 /\ 0 .. Groups(call.type) - 1 = 0 .. 7
    BY <1>2 DEF ScalesFrom, ScalesTo, Groups
  <2>2. PICK g \in 0 .. 7 : <<x, c>> \in ScaleSpots(g) \cup MinSpots(g)
    BY <2>1, PackedFills
  <2>3. OwnScale(call.type, g) = ScaleSpots(g) \cup MinSpots(g)
    BY <1>2 DEF OwnScale
  <2> QED
    BY <2>1, <2>2, <2>3
<1> QED
  BY <1>1, <1>2

LEMMA ScalesSpan ==
    ASSUME call.type \in DOMAIN Group
    PROVE  /\ Block[call.type][2] \in Nat /\ ScalesFrom \in Nat /\ ScalesTo \in Nat
           /\ Spans({"scales"}, ScalesFrom, ScalesTo)
<1> DEFINE K == Holding({"scales"})
<1>1. call.type \in {"q4_K", "q5_K", "q6_K"}
  BY GroupsOf
<1>2. /\ Block[call.type][2] \in Nat /\ K = {3} /\ Before(call.type, 3) = ScalesFrom
      /\ Members[call.type][3][2] = ScalesTo - ScalesFrom + 1
      /\ ScalesFrom \in Nat /\ ScalesTo \in Nat
  <2>1. CASE call.type = "q4_K"
    <3>1. \A m \in DOMAIN Members["q4_K"] : m \in {1, 2, 3, 4}
      BY Layout_q4_K
    <3>2. K = {3}
      BY <2>1, <3>1, Layout_q4_K DEF Holding
    <3> HIDE DEF K
    <3> QED
      BY <2>1, <3>2, Layout_q4_K DEF ScalesFrom, ScalesTo
  <2>2. CASE call.type = "q5_K"
    <3>1. \A m \in DOMAIN Members["q5_K"] : m \in {1, 2, 3, 4, 5}
      BY Layout_q5_K
    <3>2. K = {3}
      BY <2>2, <3>1, Layout_q5_K DEF Holding
    <3> HIDE DEF K
    <3> QED
      BY <2>2, <3>2, Layout_q5_K DEF ScalesFrom, ScalesTo
  <2>3. CASE call.type = "q6_K"
    <3>1. \A m \in DOMAIN Members["q6_K"] : m \in {1, 2, 3, 4}
      BY Layout_q6_K
    <3>2. K = {3}
      BY <2>3, <3>1, Layout_q6_K DEF Holding
    <3> HIDE DEF K
    <3> QED
      BY <2>3, <3>2, Layout_q6_K DEF ScalesFrom, ScalesTo
  <2> QED
    BY <1>1, <2>1, <2>2, <2>3
<1> HIDE DEF K
<1>3. \A k \in K : Before(call.type, k) \in Nat /\ Members[call.type][k][2] \in Nat
  <2>1. Members[call.type][3][2] \in Nat
    BY <1>2 DEF ScalesFrom, ScalesTo
  <2> QED
    BY <1>2, <2>1
<1>4. \A x \in Nat : x \in ScalesFrom .. ScalesTo <=>
          \E k \in K : x \in Before(call.type, k)
                                .. Before(call.type, k) + Members[call.type][k][2] - 1
  BY <1>2
<1>5. Spans({"scales"}, ScalesFrom, ScalesTo)
  BY <1>3, <1>4 DEF Spans, K
<1> QED
  BY <1>2, <1>5

Heads == {e \in DOMAIN y : e = FirstIn(e)}

LEMMA ScalesCovered ==
    ASSUME Finished, call.type \in DOMAIN Group
    PROVE  UNION {BitsIn(y[e].scale \o y[e].min) : e \in Heads} = BitsOf({"scales"})
<1> DEFINE B == Block[call.type][2]
           N == call.n \div 256
           all == UNION {BitsIn(y[e].scale \o y[e].min) : e \in Heads}
           parts(b, g) == BitsIn(ScaleOf(call.type, b, g) \o MinOf(call.type, b, g))
           region == Region(B, N, ScalesFrom, ScalesTo)
<1>1. Per(call.type) = 256
  BY GroupsOf
<1>2. N \in Nat /\ B \in Nat /\ ScalesFrom \in Nat /\ ScalesTo \in Nat
  BY <1>1, ScalesSpan DEF Finished
<1>3. BitsOf({"scales"}) = region
  <2>1. call.n \div Per(call.type) \in Nat /\ Block[call.type][2] \in Nat
    BY <1>1, <1>2
  <2>2. Spans({"scales"}, ScalesFrom, ScalesTo)
    BY ScalesSpan
  <2>3. BitsOf({"scales"}) =
            Region(Block[call.type][2], call.n \div Per(call.type), ScalesFrom, ScalesTo)
    BY <1>2, <2>1, <2>2, RegionIs
  <2> QED
    BY <1>1, <2>3
<1>4. ASSUME NEW b \in Nat PROVE Origin(call.type, b) = b * B /\ b * B \in Nat
  BY <1>2, ProductIsNat DEF Origin
<1>5. ASSUME NEW b \in Nat, NEW g \in 0 .. Groups(call.type) - 1
      PROVE  parts(b, g) = Moved(Origin(call.type, b), OwnScale(call.type, g))
  BY ScaleParts
<1>6. ASSUME NEW e \in Heads
      PROVE  \E b \in 0 .. N - 1, g \in 0 .. Groups(call.type) - 1 :
                 BitsIn(y[e].scale \o y[e].min) = parts(b, g)
  <2>1. e \in DOMAIN y
    BY DEF Heads
  <2> DEFINE b == e \div 256
             g == GroupIn(e)
  <2>2. /\ b \in 0 .. N - 1 /\ g \in 0 .. Groups(call.type) - 1
        /\ y[e].scale = ScaleOf(call.type, b, g) /\ y[e].min = MinOf(call.type, b, g)
    BY <2>1, ScaledByGroup
  <2> HIDE DEF b, g
  <2> QED
    BY <2>2
<1>7. ASSUME NEW b \in 0 .. N - 1, NEW g \in 0 .. Groups(call.type) - 1
      PROVE  \E e \in Heads : BitsIn(y[e].scale \o y[e].min) = parts(b, g)
  <2>1. PICK e \in DOMAIN y : e = FirstIn(e) /\ e \div 256 = b /\ GroupIn(e) = g
    BY GroupHasFirst
  <2>2. y[e].scale = ScaleOf(call.type, b, g) /\ y[e].min = MinOf(call.type, b, g)
    BY <2>1, ScaledByGroup
  <2>3. e \in Heads
    BY <2>1 DEF Heads
  <2> QED
    BY <2>2, <2>3
<1> HIDE DEF B, N, parts
<1>8. ASSUME NEW p \in all PROVE p \in region
  <2>1. PICK e \in Heads : p \in BitsIn(y[e].scale \o y[e].min)
    BY <1>8
  <2>2. PICK b \in 0 .. N - 1, g \in 0 .. Groups(call.type) - 1 :
            BitsIn(y[e].scale \o y[e].min) = parts(b, g)
    BY <1>6
  <2>3. b \in Nat
    BY <1>2
  <2>4. p \in Moved(Origin(call.type, b), OwnScale(call.type, g))
    BY <1>5, <2>1, <2>2, <2>3
  <2>5. PICK q \in OwnScale(call.type, g) : p = <<Origin(call.type, b) + q[1], q[2]>>
    BY <2>4 DEF Moved
  <2>6. q[1] \in ScalesFrom .. ScalesTo /\ q[2] \in 0 .. 7
    <3>1. q \in (ScalesFrom .. ScalesTo) \X (0 .. 7)
      BY ScalesFit
    <3> QED
      BY <3>1
  <2> DEFINE from == b * B
             x == q[1]
             c == q[2]
  <2>7. /\ from \in Nat /\ p = <<from + x, c>> /\ x \in ScalesFrom .. ScalesTo /\ c \in 0 .. 7
    BY <1>4, <2>3, <2>5, <2>6
  <2> HIDE DEF x, c
  <2>8. p[1] = b * B + x
    BY <2>7
  <2> HIDE DEF from
  <2>9. p \in Nat \X (0 .. 7)
    BY <1>2, <2>7
  <2> QED
    BY <2>7, <2>8, <2>9 DEF Region
<1>9. ASSUME NEW p \in region PROVE p \in all
  <2>1. PICK b \in 0 .. N - 1, x \in ScalesFrom .. ScalesTo : p[1] = b * B + x
    BY <1>9 DEF Region
  <2>2. p \in Nat \X (0 .. 7) /\ b \in Nat
    BY <1>2, <1>9, <2>1 DEF Region
  <2> DEFINE c == p[2]
  <2>3. c \in 0 .. 7 /\ p = <<Origin(call.type, b) + x, c>>
    BY <1>4, <2>1, <2>2
  <2> HIDE DEF c
  <2>4. PICK g \in 0 .. Groups(call.type) - 1 : <<x, c>> \in OwnScale(call.type, g)
    BY <2>3, ScalesFill
  <2>5. p \in Moved(Origin(call.type, b), OwnScale(call.type, g))
    BY <2>3, <2>4 DEF Moved
  <2>6. p \in parts(b, g)
    BY <1>5, <2>2, <2>5
  <2>7. PICK e \in Heads : BitsIn(y[e].scale \o y[e].min) = parts(b, g)
    BY <1>7
  <2> QED
    BY <2>6, <2>7
<1> HIDE DEF all, region
<1>10. all = region
  BY <1>8, <1>9
<1> QED
  BY <1>3, <1>10 DEF all

LEMMA EveryScaleAtReturn == Finished /\ call.type \in DOMAIN Group => EveryScaleOnce
<1> SUFFICES ASSUME Finished, call.type \in DOMAIN Group PROVE EveryScaleOnce
  OBVIOUS
<1>1. ASSUME NEW e \in DOMAIN y
      PROVE  y[e].scale = y[FirstIn(e)].scale /\ y[e].min = y[FirstIn(e)].min
  <2> DEFINE f == FirstIn(e)
  <2>1. f \in DOMAIN y /\ f \div 256 = e \div 256 /\ GroupIn(f) = GroupIn(e)
    BY FirstOfGroup
  <2>2. /\ y[e].scale = ScaleOf(call.type, e \div 256, GroupIn(e))
        /\ y[e].min = MinOf(call.type, e \div 256, GroupIn(e))
    BY ScaledByGroup
  <2> HIDE DEF f
  <2>3. /\ y[f].scale = ScaleOf(call.type, f \div 256, GroupIn(f))
        /\ y[f].min = MinOf(call.type, f \div 256, GroupIn(f))
    BY <2>1, ScaledByGroup
  <2>4. y[e].scale = y[f].scale /\ y[e].min = y[f].min
    BY <2>1, <2>2, <2>3
  <2> QED
    BY <2>4 DEF f
<1>2. ASSUME NEW e \in Heads
      PROVE  /\ Len(y[e].scale) = IF Has("m") THEN 6 ELSE 8
             /\ Len(y[e].min) = IF Has("m") THEN 6 ELSE 0
  <2> DEFINE b == e \div 256
             g == GroupIn(e)
  <2>1. e \in DOMAIN y
    BY DEF Heads
  <2>2. /\ e \in Nat /\ g \in 0 .. Groups(call.type) - 1
        /\ y[e].scale = ScaleOf(call.type, b, g) /\ y[e].min = MinOf(call.type, b, g)
    BY <2>1, ScaledByGroup
  <2>3. b \in Nat
    BY <2>2
  <2> HIDE DEF b, g
  <2>4. /\ Len(ScaleOf(call.type, b, g)) = IF Has("m") THEN 6 ELSE 8
        /\ Len(MinOf(call.type, b, g)) = IF Has("m") THEN 6 ELSE 0
    BY <2>2, <2>3, ScaleParts
  <2> QED
    BY <2>2, <2>4
<1>3. UNION {BitsIn(y[e].scale \o y[e].min) : e \in Heads} = BitsOf({"scales"})
  BY ScalesCovered
<1> QED
  BY <1>1, <1>2, <1>3 DEF EveryScaleOnce, FirstIn, Heads

(* When a conversion returns, the parts of every block of the tensor have  *)
(* been unpacked, each once and in its place.                              *)
THEOREM BlocksUnpackedHolds == Spec => []BlocksUnpacked
<1>1. Unpacking => BlocksUnpacked
  <2> SUFFICES ASSUME Unpacking, pc = "done"
               PROVE  /\ call.type # "f16" => EveryBitOnce
                      /\ call.type \notin {"f16", "f32"} => OwnBlock
                      /\ call.type \in DOMAIN Group => EveryScaleOnce
    BY DEF BlocksUnpacked
  <2>1. call.type \in DOMAIN Block
    BY DEF Unpacking, Convertible
  <2>2. call.type # "f16" => Finished
    BY FinishedAtReturn
  <2>3. call.type # "f16" => EveryBitOnce
    BY <2>1, <2>2, TypesListed, EveryBit_f32, EveryBit_q4_0, EveryBit_q4_1, EveryBit_q5_0,
       EveryBit_q5_1, EveryBit_q8_0, EveryBit_q4_K, EveryBit_q5_K, EveryBit_q6_K
  <2>4. call.type \notin {"f16", "f32"} => OwnBlock
    BY <2>1, <2>2, OwnBlockAtReturn
  <2>5. call.type \in DOMAIN Group => EveryScaleOnce
    <3>1. call.type \in DOMAIN Group => call.type # "f16"
      BY DEF Group
    <3> QED
      BY <2>2, <3>1, EveryScaleAtReturn
  <2> QED
    BY <2>3, <2>4, <2>5
<1> QED
  BY <1>1, UnpackingHolds, PTL
==============================================================================
