------------------------------ MODULE GgmlTypes ------------------------------
(***************************************************************************)
(* The tensor types of src/quant.c: how many elements and how many bytes   *)
(* are in a block of each (quant_nbytes), and which parts the bytes of a   *)
(* block have (the block structures).  Any other type is not supported.    *)
(***************************************************************************)
EXTENDS Naturals, Sequences

(* Elements per block and bytes per block of the types of quant_nbytes.    *)
Block == [f32  |-> <<1, 4>>,     f16  |-> <<1, 2>>,
          q4_0 |-> <<32, 18>>,   q4_1 |-> <<32, 20>>,   q5_0 |-> <<32, 22>>,
          q5_1 |-> <<32, 24>>,   q8_0 |-> <<32, 34>>,   q4_K |-> <<256, 144>>,
          q5_K |-> <<256, 176>>, q6_K |-> <<256, 210>>]

(* The members of the block structures in their order, with their sizes.   *)
Members ==
    [f32  |-> <<<<"qs", 4>>>>,
     f16  |-> <<<<"d", 2>>>>,
     q4_0 |-> <<<<"d", 2>>, <<"qs", 16>>>>,
     q4_1 |-> <<<<"d", 2>>, <<"m", 2>>, <<"qs", 16>>>>,
     q5_0 |-> <<<<"d", 2>>, <<"qh", 4>>, <<"qs", 16>>>>,
     q5_1 |-> <<<<"d", 2>>, <<"m", 2>>, <<"qh", 4>>, <<"qs", 16>>>>,
     q8_0 |-> <<<<"d", 2>>, <<"qs", 32>>>>,
     q4_K |-> <<<<"d", 2>>, <<"m", 2>>, <<"scales", 12>>, <<"qs", 128>>>>,
     q5_K |-> <<<<"d", 2>>, <<"m", 2>>, <<"scales", 12>>, <<"qh", 32>>, <<"qs", 128>>>>,
     q6_K |-> <<<<"ql", 128>>, <<"qh", 64>>, <<"scales", 16>>, <<"d", 2>>>>]

(* The size of the members before the n-th.                                *)
Before(type, n) ==
    LET sum[k \in 1 .. n] == IF k = 1 THEN 0 ELSE sum[k - 1] + Members[type][k - 1][2]
    IN  sum[n]

(* The static assertions on the layouts.                                   *)
ASSUME LayoutAssumption ==
    \A type \in DOMAIN Block :
        Before(type, Len(Members[type]) + 1) = Block[type][2]
==============================================================================
