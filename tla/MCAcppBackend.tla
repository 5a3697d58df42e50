---------------------------- MODULE MCAcppBackend ----------------------------
(***************************************************************************)
(* The AdaptiveCpp backend for model checking: two projections of          *)
(* different shapes, so that a scratch vector has to grow in one direction *)
(* for one of them and in the other for the other.                         *)
(***************************************************************************)
EXTENDS AcppBackend

CONSTANTS a1, a2, a3, a4, a5, w1, w2, b1, x1, x2

(* attn_qkv: wide output, with a bias; the second without one.             *)
Up   == [weights |-> w1, bias |-> b1, in |-> 1, out |-> 3]
Down == [weights |-> w2, bias |-> NoBuffer, in |-> 2, out |-> 1]


(* A client may take the same matrix with two shapes, which                *)
(* upload_readonly refuses.                                                *)
Narrow == [weights |-> w1, bias |-> NoBuffer, in |-> 1, out |-> 1]

MCMatvecs == [program |-> {Up, Down}, client |-> {Up, Narrow}]
MCRetried == [client |-> {Up, Down}]

(* No document says what a client may do after a failed submission; that   *)
(* an upload fails is tried with the program, where no second one follows. *)
MCFailures == [program |-> {"mismatch", "allocation", "copy", "scratch", "submit"},
               client  |-> {"mismatch", "allocation"}]
MCNoRoom   == [client |-> {"scratch"}]

MCAddrs == {a1, a2, a3, a4, a5}
==============================================================================
