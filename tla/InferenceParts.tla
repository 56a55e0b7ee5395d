--------------------------- MODULE InferenceParts ---------------------------
(***************************************************************************)
(* The parts of inference that keep their state to themselves: the offload *)
(* of a request (KVOffload), a rollout with tools (ToolRollout), a batch   *)
(* of branches of one prompt (Branches), the weights of the model          *)
(* (Weights) and what a token attends to in a layer (Attention).  Each has *)
(* constants and variables of its own here, so that one instance for TLC   *)
(* and one module of proofs can speak of all of them.                      *)
(***************************************************************************)
EXTENDS Integers, Sequences

----------------------------------------------------------------------------
(* The offload of a request. *)

CONSTANTS Layers, Latent, OffloadPrompt, OffloadChunk, OffloadBudget, MaxSaves, MaxReloads

VARIABLES
    state, live, fedTokens, saving, arrays, manifest, kept, mixed, saves, reloads

offloadVars == <<state, live, fedTokens, saving, arrays, manifest, kept, mixed, saves, reloads>>

Offload == INSTANCE KVOffload WITH
    fed <- fedTokens, PromptLen <- OffloadPrompt, PrefillChunk <- OffloadChunk,
    Budget <- OffloadBudget

ASSUME OffloadParameters == Offload!OffloadAssumption

----------------------------------------------------------------------------
(* A rollout with tools. *)

CONSTANTS ToolPrompt, ToolBudget, ToolContext, MaxTurns, ResultLengths, EosSet

VARIABLES
    pc, turn, response, turnStart, sampled, ended, kv, logits, result, raised

toolVars == <<pc, turn, response, turnStart, sampled, ended, kv, logits, result, raised>>

Tools == INSTANCE ToolRollout WITH
    finished <- ended, error <- raised, PromptLen <- ToolPrompt, Budget <- ToolBudget,
    ContextLength <- ToolContext

ASSUME ToolParameters == Tools!ToolRolloutAssumption

----------------------------------------------------------------------------
(* The weights. *)

CONSTANTS Linears, Experts, Tied, Modes, Ids, MaxUpdates

VARIABLES embedding, weight, mode, cached, used, replaced, asked, updates

weightVars == <<embedding, weight, mode, cached, used, replaced, asked, updates>>

Model == INSTANCE Weights

ASSUME WeightParameters == Model!WeightsAssumption

----------------------------------------------------------------------------
(* Branches of one prompt. *)

CONSTANTS
    Branch, BranchVocab, BranchEos, BranchPrompt, BranchBudgets, MaxRounds, BranchContext

VARIABLES
    branchPc, options, branchKv, branchLogits, generated, scored, branchEnded, rounds

branchVars ==
    <<branchPc, options, branchKv, branchLogits, generated, scored, branchEnded, rounds>>

Batched == INSTANCE Branches WITH
    pc <- branchPc, kv <- branchKv, logits <- branchLogits, finished <- branchEnded,
    steps <- rounds, Vocab <- BranchVocab, Eos <- BranchEos, Prompt <- BranchPrompt,
    Budgets <- BranchBudgets, MaxSteps <- MaxRounds, ContextLength <- BranchContext

ASSUME BranchParameters == Batched!BranchesAssumption

----------------------------------------------------------------------------
(* The attention layers. *)

CONSTANTS Rows, LayerKinds, Window, HcaBlock, CsaBlock, CsaStride, TopK, AttentionContext

VARIABLES kind, order, text, layerCache, seen

attentionVars == <<kind, order, text, layerCache, seen>>

AttentionLayers == INSTANCE Attention WITH
    cache <- layerCache, Kinds <- LayerKinds, ContextLength <- AttentionContext

ASSUME AttentionParameters == AttentionLayers!AttentionAssumption

----------------------------------------------------------------------------
(* Their properties. *)

\* KVOffload: a request that was offloaded and reloaded has all its rows (engine.py:498-536).
ResumesWhole == Offload!ResumesWhole

\* ToolRollout: tokens are sampled from logits over the whole transcript (rollout.py:134-214).
TranscriptExact == Tools!TranscriptExact

\* ToolRollout: the check of new_request is enough for the turns that follow
\* (rollout.py:194-198).
RolloutFits == Tools!RolloutFits

\* Weights: a forward multiplies by the weights the model holds (layers.py:96-119).
ForwardIsCurrent == Model!ForwardIsCurrent

\* Weights: a tied head stays the embedding (model.py:153-156).
TieHolds == Model!TieHolds

\* Branches: every branch of a batch decodes as it would alone (batched.py:115-177).
BranchesExact == Batched!BranchesExact

\* Attention: a token attends to the same keys and blocks however it was fed to the model
\* (attention.py, batched.py, cache.py).
AttentionExact == AttentionLayers!AttentionExact
=============================================================================
