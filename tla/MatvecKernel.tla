---------------------------- MODULE MatvecKernel ----------------------------
(***************************************************************************)
(* The kernel of chris_backend_matvec (src/backend_acpp.cpp): one work     *)
(* group computes one element of y.  Every work item adds up the products  *)
(* of its own columns, then the items fold their partial sums in halves,   *)
(* with a barrier of the group between passes.  A sum is the number of     *)
(* times each column went into it, so that losing a product or adding it   *)
(* twice shows.  The device, its barriers and its scheduling are external. *)
(***************************************************************************)
EXTENDS Naturals

CONSTANTS
    DeviceLimits,   \* max_work_group_size of the devices considered
    GroupLimit,     \* 256 in the source
    InputSizes      \* in_features of the products considered

ASSUME KernelAssumption ==
    /\ DeviceLimits \subseteq Nat
    /\ GroupLimit \in Nat \ {0}
    /\ InputSizes \subseteq Nat \ {0}

VARIABLES
    work_group_size, input_size,
    pc,             \* per item: "load", "barrier", "reduce" or "done"
    i, sum,         \* private to an item
    partial,        \* local memory of the group
    stride,         \* private to an item
    arrivals,       \* barriers an item has reached
    y               \* device_y[output_row] without the bias, or <<>>

vars == <<work_group_size, input_size, pc, i, sum, partial, stride, arrivals, y>>

Columns == 0 .. input_size - 1
Items   == 0 .. work_group_size - 1

(* choose_work_group_size doubles 1 as long as it stays within the limit.  *)
Smaller(a, b) == IF a < b THEN a ELSE b

GroupSizeTight(max) == Smaller(max, GroupLimit)         \* seeded fault
GroupSize(max) ==
    LET limit == Smaller(max, GroupLimit)
        double[size \in 1 .. 2 * GroupLimit] ==
            IF 2 * size <= limit THEN double[2 * size] ELSE size
    IN  double[1]

Nothing == [c \in Columns |-> 0]
Plus(s, t) == [c \in Columns |-> s[c] + t[c]]
Term(column) == [c \in Columns |-> IF c = column THEN 1 ELSE 0]

Init ==
    /\ \E max \in DeviceLimits : work_group_size = GroupSize(max)
    /\ input_size \in InputSizes
    /\ pc = [t \in Items |-> "load"]
    /\ i = [t \in Items |-> t]
    /\ sum = [t \in Items |-> Nothing]
    /\ partial \in [Items -> {<<>>}]                    \* nothing written yet
    /\ stride = [t \in Items |-> work_group_size \div 2]
    /\ arrivals = [t \in Items |-> 0]
    /\ y = <<>>

shapeVars == <<work_group_size, input_size>>

Load(t) ==
    /\ pc[t] = "load" /\ i[t] < input_size
    /\ sum' = [sum EXCEPT ![t] = Plus(@, Term(i[t]))]
    /\ i' = [i EXCEPT ![t] = @ + work_group_size]
    /\ UNCHANGED <<shapeVars, pc, partial, stride, arrivals, y>>

Arrive(t) ==
    /\ pc' = [pc EXCEPT ![t] = "barrier"]
    /\ arrivals' = [arrivals EXCEPT ![t] = @ + 1]

StorePartial(t) ==
    /\ pc[t] = "load" /\ i[t] >= input_size
    /\ partial' = [partial EXCEPT ![t] = sum[t]]
    /\ Arrive(t)
    /\ UNCHANGED <<shapeVars, i, sum, stride, y>>

BarrierOpenForOne(t) == TRUE                            \* seeded fault
BarrierOpen(t) == \A s \in Items : arrivals[s] >= arrivals[t]

PassBarrier(t) ==
    /\ pc[t] = "barrier"
    /\ BarrierOpen(t)
    /\ pc' = [pc EXCEPT ![t] = "reduce"]
    /\ UNCHANGED <<shapeVars, i, sum, partial, stride, arrivals, y>>

Folds(t) == pc[t] = "reduce" /\ stride[t] > 0 /\ t < stride[t]

Fold(t) ==
    /\ Folds(t)
    /\ partial' = [partial EXCEPT ![t] = Plus(@, partial[t + stride[t]])]
    /\ stride' = [stride EXCEPT ![t] = @ \div 2]
    /\ Arrive(t)
    /\ UNCHANGED <<shapeVars, i, sum, y>>

SkipFoldWithoutBarrier(t) ==                            \* seeded fault
    /\ pc[t] = "reduce" /\ stride[t] > 0 /\ t >= stride[t]
    /\ stride' = [stride EXCEPT ![t] = @ \div 2]
    /\ UNCHANGED <<shapeVars, pc, i, sum, partial, arrivals, y>>

SkipFold(t) ==
    /\ pc[t] = "reduce" /\ stride[t] > 0 /\ t >= stride[t]
    /\ stride' = [stride EXCEPT ![t] = @ \div 2]
    /\ Arrive(t)
    /\ UNCHANGED <<shapeVars, i, sum, partial, y>>

Finish(t) ==
    /\ pc[t] = "reduce" /\ stride[t] = 0
    /\ pc' = [pc EXCEPT ![t] = "done"]
    /\ y' = IF t = 0 THEN partial[0] ELSE y
    /\ UNCHANGED <<shapeVars, i, sum, partial, stride, arrivals>>

ItemStep(t) ==
    \/ Load(t) \/ StorePartial(t) \/ PassBarrier(t)
    \/ Fold(t) \/ SkipFold(t) \/ Finish(t)

AllDone == \A t \in Items : pc[t] = "done"

Next == \E t \in Items : ItemStep(t)

(* A device runs all items of a group.                                     *)
Spec == Init /\ [][Next]_vars
             /\ \A t \in 0 .. GroupLimit - 1 : WF_vars(t \in Items /\ ItemStep(t))

----------------------------------------------------------------------------
(* The element of y is the sum of every column's product, each once: the   *)
(* strided loads leave no column out and the halving of a power of two     *)
(* folds every partial sum in once, whatever the order of the items.       *)
SumExact == y # <<>> => y = [c \in Columns |-> 1]

(* No item folds a partial sum that another one is about to change, and    *)
(* none is read before it is stored: every pass of the reduction is free   *)
(* of races (acpp 352-368).                                                *)
FoldsDoNotRace ==
    /\ \A s, t \in Items :
          Folds(s) /\ Folds(t) /\ s # t => s + stride[s] # t
    /\ \A t \in Items : Folds(t) =>
          /\ partial[t + stride[t]] # <<>>
          /\ \A c \in Columns : partial[t + stride[t]][c] <= 1

(* All items pass the same barriers, so the group finishes.                *)
GroupFinishes == <>AllDone
==============================================================================
