-------------------------------- MODULE Matvec --------------------------------
(***************************************************************************)
(* What src/backend.h promises of chris_backend_matvec: a call that        *)
(* returns 0 has computed y = W*x + bias from the x of that call; a call   *)
(* that returns -1 promises nothing about y.                               *)
(***************************************************************************)
CONSTANTS
    Matvecs,        \* the products a caller asks for, as records with the
                    \* fields weights and bias
    Vectors,        \* contents of x
    NoCall,         \* no call is in progress
    Unspecified     \* y unless the last call has returned 0

VARIABLES
    call,           \* the call in progress, or NoCall
    y               \* the caller's output vector, as far as the last return
                    \* value entitles it to look

Product(m, v) == [weights |-> m.weights, bias |-> m.bias, x |-> v]

Calls == [matvec : Matvecs, x : Vectors]

Init == call = NoCall /\ y = Unspecified

Call(m, v) ==
    /\ call = NoCall
    /\ call' = [matvec |-> m, x |-> v]
    /\ y' = Unspecified

Succeed ==
    /\ call # NoCall
    /\ y' = Product(call.matvec, call.x)
    /\ call' = NoCall

Refuse ==
    /\ call # NoCall
    /\ call' = NoCall
    /\ UNCHANGED y                      \* Unspecified since the call began

Next ==
    \/ \E m \in Matvecs, v \in Vectors : Call(m, v)
    \/ Succeed
    \/ Refuse

vars == <<call, y>>

Safety == Init /\ [][Next]_vars

Spec == Safety /\ WF_vars(Succeed \/ Refuse)
===============================================================================
