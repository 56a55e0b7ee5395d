------------------------------ MODULE Weights ------------------------------
(***************************************************************************)
(* The weights of the model as objects: the output head that is tied to    *)
(* the embedding by holding the same array (model.py), the linears that    *)
(* multiply by a packed copy of their weight, cached under the id() of the *)
(* array (layers.py), and the steps that put new arrays in the place of    *)
(* old ones: an optimiser step, and a load of a checkpoint.                *)
(*                                                                         *)
(* The value of a weight is the update it was made by.  An id() is unique  *)
(* among the arrays alive, and free for any later one afterwards.          *)
(***************************************************************************)
EXTENDS Integers

CONSTANTS
    Linears,        \* the WhaleLinear layers, "lm_head" among them
    Experts,        \* those of placement "moe_expert"
    Tied,           \* config.tie_weights
    Modes,          \* the modes asked of apply_weight_quantization
    Ids,            \* the values of id()
    MaxUpdates      \* bound on the updates

WeightsAssumption ==
    /\ "lm_head" \in Linears /\ Experts \subseteq Linears
    /\ Tied \in BOOLEAN /\ MaxUpdates \in Nat
    /\ Modes \subseteq {"none", "int8-weight", "int4-weight", "fp4-expert", "fp4-native"}

VARIABLES
    embedding,      \* the value of tok_emb.weight
    weight,         \* inner.weight of each linear: its value and its id
    mode,           \* quant_mode of each linear
    cached,         \* its packed weights, affine and FP4: the key and the value of each
    used,           \* what its last forward multiplied by
    replaced,       \* ghost: how often it was replaced since a forward multiplied by it
    asked,          \* ghost: the last mode asked for that took effect
    updates

vars == <<embedding, weight, mode, cached, used, replaced, asked, updates>>

Nothing == [key |-> <<>>, value |-> <<>>]
NoCache == [affine |-> Nothing, fp4 |-> Nothing]

\* The model as it is built, at config.quant_mode = "none"; the head is tied last.
Init ==
    /\ embedding = <<"tok_emb", 0>>
    /\ \E ids \in [Linears -> Ids] :
         /\ \A l, m \in Linears : ids[l] = ids[m] => l = m
         /\ weight = [l \in Linears |->
                        [value |-> IF Tied /\ l = "lm_head" THEN embedding ELSE <<l, 0>>,
                         id |-> ids[l]]]
    /\ mode = [l \in Linears |-> "none"]
    /\ cached = [l \in Linears |-> NoCache]
    /\ used = [l \in Linears |-> weight[l].value]
    /\ replaced = [l \in Linears |-> 0]
    /\ asked = "none" /\ updates = 0

\* quant_mode_for_placement
Resolved(m, l) ==
    IF m = "fp4-expert" THEN IF l \in Experts THEN "fp4-native" ELSE "none" ELSE m

\* apply_weight_quantization; "none" returns before it looks at a layer.
Quantize(m) ==
    /\ m # "none"
    /\ mode' = [l \in Linears |-> Resolved(m, l)]
    /\ cached' = [l \in Linears |-> NoCache]
    /\ asked' = m
    /\ UNCHANGED <<embedding, weight, used, replaced, updates>>

QuantizeNone == "none" \in Modes /\ UNCHANGED vars

\* Mutant of Key: the array itself is not part of it.
KeyOfShape(l) == <<mode[l]>>

\* _affine_cached_key and _fp4_cached_key; the shape and the type of a weight never change.
Key(l) == <<weight[l].id, mode[l]>>

\* _packed_affine_weight and _packed_fp4_weight: the cached copy if the key is the same.
Packed(l, kind) ==
    IF cached[l][kind].key = Key(l) THEN cached[l][kind]
    ELSE [key |-> Key(l), value |-> weight[l].value]

\* WhaleLinear.__call__, for each linear of the model.
Forward ==
    LET kind(l) == IF mode[l] = "fp4-native" THEN "fp4" ELSE "affine"
    IN  /\ cached' = [l \in Linears |->
                        IF mode[l] = "none" THEN cached[l]
                        ELSE [cached[l] EXCEPT ![kind(l)] = Packed(l, kind(l))]]
        /\ used' = [l \in Linears |->
                      IF mode[l] = "none" THEN weight[l].value
                      ELSE Packed(l, kind(l)).value]
        /\ replaced' = [l \in Linears |->
                          IF used'[l] = weight[l].value THEN 0 ELSE replaced[l]]
        /\ UNCHANGED <<embedding, weight, mode, asked, updates>>

\* model.update: every parameter is a new array, made while the old ones are alive.
Replace(values) ==
    /\ updates < MaxUpdates /\ updates' = updates + 1
    /\ \E ids \in [Linears -> Ids \ {weight[l].id : l \in Linears}] :
         /\ \A l, m \in Linears : ids[l] = ids[m] => l = m
         /\ weight' = [l \in Linears |-> [value |-> values[l], id |-> ids[l]]]
    /\ replaced' = [l \in Linears |-> replaced[l] + 1]
    /\ UNCHANGED <<mode, cached, used, asked>>

\* model.update(optimizer.step(model.parameters(), grads)) after a forward in full precision:
\* the gradient and the moments of a parameter are those of its own path in the tree.
Step ==
    /\ \A l \in Linears : mode[l] = "none"
    /\ Replace([l \in Linears |-> <<l, updates + 1>>])
    /\ embedding' = <<"tok_emb", updates + 1>>

\* load_checkpoint and target.update(ckpt.model_state), of a model whose head and embedding
\* agree if they are tied.
Load ==
    /\ Replace([l \in Linears |-> <<IF Tied /\ l = "lm_head" THEN "tok_emb" ELSE l, updates + 1>>])
    /\ embedding' = <<"tok_emb", updates + 1>>

Next == QuantizeNone \/ (\E m \in Modes : Quantize(m)) \/ Forward \/ Step \/ Load

Spec == Init /\ [][Next]_vars

----------------------------------------------------------------------------

\* A forward multiplies by the weights the model holds, in the precision the last request
\* that took effect asks of a layer of this placement, whatever was packed before: except
\* where a weight was replaced twice since a forward last multiplied by it, as by a weight
\* sync that is repeated, when the second array can have the id() of the packed one, and
\* every forward until the next update multiplies by that one (layers.py:96-119).
ForwardIsCurrent ==
    [][Forward =>
        \A l \in Linears :
            /\ mode[l] = Resolved(asked, l)
            /\ replaced[l] <= 1 => used'[l] = weight[l].value]_vars

\* "project to vocab (weight-tied to Embed)" (src/course/01-backbone/README.md:31): with
\* tie_weights, on by default, the head is the embedding matrix, after training as before.
TieHolds == Tied => weight["lm_head"].value = embedding
============================================================================
