---------------------------- MODULE MCTraining ----------------------------
(***************************************************************************)
(* Instances for TLC of the training side: the rollout engine under a      *)
(* trainer, and the parts that share no state with it or each other: data, *)
(* tokenizer, pre-training, curriculum, the chain of stages, the on-policy *)
(* trainers, fine-tuning, the code reward and the router.  Every behaviour *)
(* is a behaviour of one part, the others stay in their initial states.    *)
(*                                                                         *)
(* The rollouts: five requests in three batches.  The first batch has two  *)
(* groups that interleave in the call, the prompt of one a prefix of the   *)
(* other; the second comes again with a prompt of the first; the third     *)
(* holds a request that does not fit.                                      *)
(***************************************************************************)
EXTENDS RolloutEngine, TrainingParts, TLC

CONSTANTS
    Parts,          \* the parts a run looks at
    r1, r2, r3, r4, r5, a, e

VARIABLE part       \* the part of this behaviour

MCPrompt ==
    r1 :> <<a, e>> @@ r2 :> <<a, e, a>> @@ r3 :> <<a, e>> @@ r4 :> <<a, e>> @@ r5 :> <<a, e, a>>

\* r5 asks for two tokens more than fit in a context of five.
MCMaxNew == r1 :> 2 @@ r2 :> 2 @@ r3 :> 1 @@ r4 :> 2 @@ r5 :> 4

\* A batch carries the options of one trainer.
MCSig == [r \in Request |-> "sample"]

MCBatches == {<<r1, r2, r3>>, <<r4>>, <<r4, r5>>}

----------------------------------------------------------------------------
(* The values of TrainingParts are in the .cfg, with these: a run of five steps of two       *)
(* batches an epoch, killed twice at any point; three commands on two directories and two   *)
(* tokenizers; groups of three, whose rewards can tie and differ; problems of two tests;    *)
(* pairs that fit, that fit once they are truncated, and one that does not; a curriculum   *)
(* of two phases that end inside an epoch, or by max_steps; two documents, packed twice,   *)
(* for two tokenizers; and three merges learned from all documents of six bytes, all texts *)
(* of five.                                                                                *)

MCPhases == <<[context_length |-> 2, n_tokens |-> 5], [context_length |-> 3, n_tokens |-> 4]>>

MCPairs ==
    {[prompt |-> 1, chosen |-> 1, rejected |-> 2], [prompt |-> 3, chosen |-> 1, rejected |-> 1],
     [prompt |-> 1, chosen |-> 4, rejected |-> 1]}

----------------------------------------------------------------------------
(* The router: one token a forward to two of four experts, scores of up to two steps. *)

VARIABLES checkpointed, moePc, saved, routed, routerBias, leftOut

routerVars == <<checkpointed, moePc, saved, routed, routerBias, leftOut>>

Moe == INSTANCE Router WITH
    pc <- moePc, bias <- routerBias, NExpert <- 4, PerToken <- 2, Tokens <- {1},
    Scores <- {0, 1, 2}, Patience <- 4

ASSUME Moe!RouterAssumption

----------------------------------------------------------------------------

partVars ==
    <<part, allVars, pretrainVars, curriculumVars, stagesVars, onPolicyVars, tuningVars,
      rewardVars, dataVars, bpeVars, routerVars>>

\* Where a part may begin in several states, the behaviours of the others take one.
PartsInit ==
    /\ part \in Parts
    /\ RolloutInit
    /\ Run!Init /\ Phased!Init /\ Chain!Init
    /\ Trainer!Init /\ (part # "on-policy" => algo = "grpo")
    /\ Tuning!Init /\ (part # "tuning" => method = "sft" /\ pairs = <<>>)
    /\ Host!Init
    /\ (part # "reward" =>
            /\ partial /\ ~problem.known
            /\ \A i \in DOMAIN problem.tests : problem.tests[i] = "fails"
            /\ response = [form |-> "empty", solution |-> "wrong", ending |-> "clean"])
    /\ Data!Init
    /\ Tokenizer!Init /\ (part # "bpe" => document = <<0>>)
    /\ Moe!Init /\ (part # "router" => ~checkpointed)

Rollouts(action) ==
    /\ part = "rollouts" /\ action
    /\ UNCHANGED <<part, pretrainVars, curriculumVars, stagesVars, onPolicyVars, tuningVars,
                   rewardVars, dataVars, bpeVars, routerVars>>

Pretrains ==
    /\ part = "pretraining" /\ Run!Next
    /\ UNCHANGED <<part, allVars, curriculumVars, stagesVars, onPolicyVars, tuningVars,
                   rewardVars, dataVars, bpeVars, routerVars>>

FollowsCurriculum ==
    /\ part = "curriculum" /\ Phased!Next
    /\ UNCHANGED <<part, allVars, pretrainVars, stagesVars, onPolicyVars, tuningVars,
                   rewardVars, dataVars, bpeVars, routerVars>>

RunsStages ==
    /\ part = "stages" /\ Chain!Next
    /\ UNCHANGED <<part, allVars, pretrainVars, curriculumVars, onPolicyVars, tuningVars,
                   rewardVars, dataVars, bpeVars, routerVars>>

Trains ==
    /\ part = "on-policy" /\ Trainer!Next
    /\ UNCHANGED <<part, allVars, pretrainVars, curriculumVars, stagesVars, tuningVars,
                   rewardVars, dataVars, bpeVars, routerVars>>

Tunes ==
    /\ part = "tuning" /\ Tuning!Next
    /\ UNCHANGED <<part, allVars, pretrainVars, curriculumVars, stagesVars, onPolicyVars,
                   rewardVars, dataVars, bpeVars, routerVars>>

Scores(action) ==
    /\ part = "reward" /\ action
    /\ UNCHANGED <<part, allVars, pretrainVars, curriculumVars, stagesVars, onPolicyVars,
                   tuningVars, dataVars, bpeVars, routerVars>>

Packs ==
    /\ part = "data" /\ Data!Next
    /\ UNCHANGED <<part, allVars, pretrainVars, curriculumVars, stagesVars, onPolicyVars,
                   tuningVars, rewardVars, bpeVars, routerVars>>

Tokenizes ==
    /\ part = "bpe" /\ Tokenizer!Next
    /\ UNCHANGED <<part, allVars, pretrainVars, curriculumVars, stagesVars, onPolicyVars,
                   tuningVars, rewardVars, dataVars, routerVars>>

Routes ==
    /\ part = "router" /\ Moe!Next
    /\ UNCHANGED <<part, allVars, pretrainVars, curriculumVars, stagesVars, onPolicyVars,
                   tuningVars, rewardVars, dataVars, bpeVars>>

PartsNext ==
    \/ Rollouts(RolloutNext) \/ Pretrains \/ FollowsCurriculum \/ RunsStages \/ Trains
    \/ Tunes \/ Scores(Host!Next) \/ Packs \/ Tokenizes \/ Routes

\* Fairness of the two parts whose liveness is checked, as their own specifications state it.
PartsSpec ==
    /\ PartsInit /\ [][PartsNext]_partVars
    /\ WF_partVars(Rollouts(EngineStep))
    /\ WF_partVars(Scores(Host!Host))

----------------------------------------------------------------------------
(* The properties of the parts. *)

\* CodeReward: every score returns, whatever the code does (code_exec.py:87-146).
ScoreReturns == part = "reward" => Host!ScoreReturns

\* Router: no expert is left out for long, whatever the scores (moe.py:94-127).
NoExpertStarves == Moe!NoExpertStarves
=============================================================================
