------------------------------- MODULE Router -------------------------------
(***************************************************************************)
(* The router of a mixture-of-experts layer (moe.py, SparseMoE): each      *)
(* token goes to the experts with the highest biased scores, and every     *)
(* training forward moves the bias of each expert one step towards an even *)
(* load.  Scores are counted in such steps (aux_free_bias_rate); what the  *)
(* weights and the input make of them is free: every forward scores anew.  *)
(*                                                                         *)
(* With activation_checkpoint the gradient does not use what the forward   *)
(* left, but runs the block a second time (model.py).                      *)
(***************************************************************************)
EXTENDS Integers, FiniteSets

CONSTANTS
    NExpert,        \* n_expert
    PerToken,       \* experts_per_token
    Tokens,         \* the tokens of a forward
    Scores,         \* the scores a token may give an expert
    Patience        \* training forwards in a row that an expert may be left out of

RouterAssumption ==
    /\ NExpert \in Nat \ {0} /\ PerToken \in 1 .. NExpert
    /\ IsFiniteSet(Tokens) /\ Scores \subseteq Nat /\ Patience \in Nat

VARIABLES
    checkpointed,   \* config.activation_checkpoint
    pc,             \* "forward" or, where the block is to run again, "backward"
    saved,          \* what mx.checkpoint keeps of the forward: the input, hence its scores
    routed,         \* the experts of each token in the last training forward
    bias,           \* _balancer.values, in steps
    leftOut         \* ghost: the training forwards since an expert was used, up to Patience + 1

vars == <<checkpointed, pc, saved, routed, bias, leftOut>>

Experts == 1 .. NExpert

Scorings == [Tokens -> [Experts -> Scores]]

Init ==
    /\ checkpointed \in BOOLEAN
    /\ pc = "forward" /\ saved = <<>>
    /\ routed = [t \in Tokens |-> {}]
    /\ bias = [e \in Experts |-> 0]
    /\ leftOut = [e \in Experts |-> 0]

\* Expert f comes behind e in the sorted biased scores; equal ones keep their order.
Above(score, f, e) ==
    \/ score[f] + bias[f] > score[e] + bias[e]
    \/ score[f] + bias[f] = score[e] + bias[e] /\ f > e

\* _learned_routes: the PerToken experts behind which the fewest come.
Routes(scores) ==
    [t \in Tokens |->
        {e \in Experts : Cardinality({f \in Experts : Above(scores[t], f, e)}) < PerToken}]

Load(routes, e) == Cardinality({t \in Tokens : e \in routes[t]})

\* Mutant of AboveMean: a load is compared with the sum of the loads, not with their mean.
AboveSum(routes, e) == Load(routes, e) - Cardinality(Tokens) * PerToken

\* The sign of a load minus the mean load.
AboveMean(routes, e) == Load(routes, e) * NExpert - Cardinality(Tokens) * PerToken

\* _maybe_update_bias: a step down above the mean load, a step up below it.
Moved(routes) ==
    [e \in Experts |-> CASE AboveMean(routes, e) > 0 -> bias[e] - 1
                         [] AboveMean(routes, e) < 0 -> bias[e] + 1
                         [] OTHER -> bias[e]]

\* A forward in training.
Forward ==
    /\ pc = "forward"
    /\ \E scores \in Scorings :
         /\ routed' = Routes(scores)
         /\ bias' = Moved(routed')
         /\ saved' = IF checkpointed THEN scores ELSE <<>>
    /\ leftOut' = [e \in Experts |-> IF Load(routed', e) > 0 THEN 0
                                     ELSE IF leftOut[e] > Patience THEN leftOut[e]
                                     ELSE leftOut[e] + 1]
    /\ pc' = IF checkpointed THEN "backward" ELSE "forward"
    /\ UNCHANGED checkpointed

\* The second run of the block, in training mode as the first: it moves the bias again.
Recompute ==
    /\ pc = "backward"
    /\ bias' = Moved(Routes(saved))
    /\ pc' = "forward" /\ saved' = <<>>
    /\ UNCHANGED <<checkpointed, routed, leftOut>>

Next == Forward \/ Recompute

Spec == Init /\ [][Next]_vars

----------------------------------------------------------------------------

\* Hazard: routing collapses onto a few experts, which learn and are chosen all the more.
\* Whatever the scores, the bias brings every expert back within Patience training forwards
\* (moe.py:94-127): the bias is part of the choice it is moved by, and no test takes it
\* beyond one step.  With activation_checkpoint it does not: the second run of the block may
\* choose other experts than the first and undo its step, so that the first chooses the same
\* ones again.
NoExpertStarves == ~checkpointed => \A e \in Experts : leftOut[e] <= Patience
=============================================================================
