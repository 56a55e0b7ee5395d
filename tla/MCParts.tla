------------------------------ MODULE MCParts ------------------------------
(***************************************************************************)
(* Instances for TLC of the parts of inference that share no state with    *)
(* the others: speculative decoding, the paged pool, the radix cache, the  *)
(* rollout buffer, the attention layers, the offload of a request, a tool  *)
(* rollout, the weights of the model and a batch of branches.  Every       *)
(* behaviour is a behaviour of one of them, the others stay in their       *)
(* initial states, so the states of the parts add up and do not multiply.  *)
(***************************************************************************)
EXTENDS SpecDecode, PagedKV, RolloutBuffer, RadixKV, InferenceParts

CONSTANTS
    Parts,          \* the parts a run looks at
    a, e, r1, r2

VARIABLE part       \* the part of this behaviour

\* A decoded token and a prefill chunk of the paged pool; the chunk crosses a block
\* boundary at every other position.
MCChunk == {<<a>>, <<e, a>>}

----------------------------------------------------------------------------
(* The radix cache. *)

ASSUME RadixAssumption

\* Prompts that branch after one token and after three, and prompts that end inside an
\* edge of a longer one.
Branching == {<<a, a, a, a>>, <<a, a, a, e>>, <<a, a>>, <<a, e, a>>, <<e, a>>}

----------------------------------------------------------------------------
(* The rollout buffer. *)

ASSUME BufferAssumption

\* Nothing, one sample, and all that fits.
MCMinCounts == 0 .. MaxSize

----------------------------------------------------------------------------
(* The values of InferenceParts are in the .cfg: a request of two layers, one with keys     *)
(* and one with latents; a tool rollout that fills its context with answers and one short   *)
(* result, not with three; four ids, so that the arrays of two updates ago can come back;   *)
(* budgets of no token to one too many for the context, and for the rounds; and a context   *)
(* of five for the attention layers, so that a token can have a whole block behind its      *)
(* window, a block that reaches into it, and both for two requests in one cohort.           *)

MCBranchPrompt == <<a, e>>

----------------------------------------------------------------------------

allVars ==
    <<part, callVars, vars, radixVars, bufferVars, attentionVars, offloadVars, toolVars,
      weightVars, branchVars>>

\* Where a part may begin in several states, the behaviours of the others take one.
PartsInit ==
    /\ part \in Parts
    /\ CallInit /\ (part # "speculation" => \A i \in Horizon : greedy[i] = a)
    /\ Init
    /\ TreeInit
    /\ BufferInit
    /\ AttentionLayers!Init
    /\ (part # "attention" =>
          kind = "mla" /\ \A i, j \in DOMAIN order : i < j => order[i] < order[j])
    /\ Offload!Init
    /\ Tools!Init
    /\ Model!Init
    /\ (part # "weights" => weight["lm_head"].id = 1 /\ weight["expert"].id = 2)
    /\ Batched!Init /\ (part # "branches" => options = [budget |-> 0, eos |-> FALSE])

Speculation ==
    /\ part = "speculation" /\ CallStep
    /\ UNCHANGED <<part, vars, radixVars, bufferVars, attentionVars, offloadVars,
                   toolVars, weightVars, branchVars>>

Paging ==
    /\ part = "paged" /\ Next
    /\ UNCHANGED <<part, callVars, radixVars, bufferVars, attentionVars, offloadVars,
                   toolVars, weightVars, branchVars>>

RadixCache ==
    /\ part = "radix" /\ TreeNext
    /\ UNCHANGED <<part, callVars, vars, bufferVars, attentionVars, offloadVars,
                   toolVars, weightVars, branchVars>>

Buffered(action) ==
    /\ part = "buffer" /\ action
    /\ UNCHANGED <<part, callVars, vars, radixVars, attentionVars, offloadVars, toolVars,
                   weightVars, branchVars>>

Attending ==
    /\ part = "attention" /\ AttentionLayers!Next
    /\ UNCHANGED <<part, callVars, vars, radixVars, bufferVars, offloadVars, toolVars,
                   weightVars, branchVars>>

Offloading ==
    /\ part = "offload" /\ Offload!Next
    /\ UNCHANGED <<part, callVars, vars, radixVars, bufferVars, attentionVars, toolVars,
                   weightVars, branchVars>>

CallingTools ==
    /\ part = "tools" /\ Tools!Next
    /\ UNCHANGED <<part, callVars, vars, radixVars, bufferVars, attentionVars,
                   offloadVars, weightVars, branchVars>>

Updating ==
    /\ part = "weights" /\ Model!Next
    /\ UNCHANGED <<part, callVars, vars, radixVars, bufferVars, attentionVars,
                   offloadVars, toolVars, branchVars>>

DecodingBranches ==
    /\ part = "branches" /\ Batched!Next
    /\ UNCHANGED <<part, callVars, vars, radixVars, bufferVars, attentionVars,
                   offloadVars, toolVars, weightVars>>

PartsNext ==
    \/ Speculation \/ Paging \/ RadixCache \/ Buffered(BufferNext)
    \/ Attending \/ Offloading \/ CallingTools \/ Updating \/ DecodingBranches

\* Fairness of the threads of the buffer, as RolloutBuffer states it.
PartsSpec ==
    /\ PartsInit /\ [][PartsNext]_allVars
    /\ WF_allVars(Buffered(ProducerStep))
    /\ WF_allVars(Buffered(DrainStep))

=============================================================================
