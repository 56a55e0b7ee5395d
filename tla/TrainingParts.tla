--------------------------- MODULE TrainingParts ---------------------------
(***************************************************************************)
(* The parts of training that share no state: a pre-training run with its  *)
(* checkpoints (Pretraining), a curriculum (Curriculum), the chain of      *)
(* training commands (Stages), an on-policy trainer (OnPolicy),            *)
(* fine-tuning on fixed data (FineTuning), the score of a code reward      *)
(* (CodeReward), the way of documents into batches (DataPipeline) and the  *)
(* tokenizer (Bpe).                                                        *)
(* Each has constants and variables of its own here, so that one instance  *)
(* for TLC and one module of proofs can speak of all of them.              *)
(***************************************************************************)
EXTENDS Integers, Sequences

----------------------------------------------------------------------------
(* Pre-training. *)

CONSTANTS
    RunSteps, RunBatches, SaveEvery, Warmup, Schedule, Micro, Optimizers, MaxCrashes

VARIABLES runPc, files, writing, params, opt, scheduled, runStep, epoch, index, bias, crashes

pretrainVars ==
    <<runPc, files, writing, params, opt, scheduled, runStep, epoch, index, bias, crashes>>

Run == INSTANCE Pretraining WITH
    pc <- runPc, weights <- params, step <- runStep, MaxSteps <- RunSteps, Batches <- RunBatches

ASSUME RunParameters == Run!PretrainingAssumption

----------------------------------------------------------------------------
(* A curriculum. *)

CONSTANTS Phases, CurriculumSteps, PhaseBatches, PhaseRows, Accum

VARIABLES phase, phaseEpoch, phaseIndex, phaseScheduled, globalStep, consumed, last,
          phaseBatch, loss, noTarget

curriculumVars ==
    <<phase, phaseEpoch, phaseIndex, phaseScheduled, globalStep, consumed, last, phaseBatch,
      loss, noTarget>>

Phased == INSTANCE Curriculum WITH
    epoch <- phaseEpoch, index <- phaseIndex, scheduled <- phaseScheduled, batch <- phaseBatch,
    raised <- noTarget,
    MaxSteps <- CurriculumSteps, Batches <- PhaseBatches, BatchSize <- PhaseRows

ASSUME CurriculumParameters == Phased!CurriculumAssumption

----------------------------------------------------------------------------
(* The chain of stages. *)

CONSTANTS Dirs, Vocabs, StageUpdates, MaxStages

VARIABLES outputs, running, stages

stagesVars == <<outputs, running, stages>>

Chain == INSTANCE Stages WITH files <- outputs, MaxUpdates <- StageUpdates

ASSUME StageParameters == Chain!StagesAssumption

----------------------------------------------------------------------------
(* An on-policy trainer. *)

CONSTANTS Algorithms, Prompts, GroupSize, PolicySteps, MaxAttempts, Rewards, Threshold

VARIABLES algo, pc, prompt, step, attempts, model, engine, reference, samples, buffer, gradient

onPolicyVars ==
    <<algo, pc, prompt, step, attempts, model, engine, reference, samples, buffer, gradient>>

Trainer == INSTANCE OnPolicy WITH MaxSteps <- PolicySteps

ASSUME PolicyParameters == Trainer!OnPolicyAssumption

----------------------------------------------------------------------------
(* Fine-tuning. *)

CONSTANTS TunePairs, MaxPairs, MaxPrompt, MaxResponse, TuneContext, BatchSize, TuneSteps

VARIABLES method, tunePc, pairs, examples, ratios, start, tuneStep, tuned, used

tuningVars == <<method, tunePc, pairs, examples, ratios, start, tuneStep, tuned, used>>

Tuning == INSTANCE FineTuning WITH
    pc <- tunePc, file <- pairs, step <- tuneStep, model <- tuned, Pairs <- TunePairs,
    ContextLength <- TuneContext, MaxSteps <- TuneSteps

ASSUME TuneParameters == Tuning!FineTuningAssumption

----------------------------------------------------------------------------
(* The code reward. *)

CONSTANTS NTests, PartialCredit

VARIABLES problem, response, partial, hostPc, child, results, runner, reward

rewardVars == <<problem, response, partial, hostPc, child, results, runner, reward>>

Host == INSTANCE CodeReward WITH pc <- hostPc

ASSUME CodeParameters == Host!CodeRewardAssumption

----------------------------------------------------------------------------
(* The data. *)

CONSTANTS DataTokenizers, DataLengths, MaxRows, DataBlocks, DataBatch, MaxPacks

VARIABLES dataPc, documents, saving, file, manifest, packs, torn, user, data, order, trained

dataVars ==
    <<dataPc, documents, saving, file, manifest, packs, torn, user, data, order, trained>>

Data == INSTANCE DataPipeline WITH
    pc <- dataPc, rows <- documents, Tokenizers <- DataTokenizers, Lengths <- DataLengths,
    Blocks <- DataBlocks, BatchSize <- DataBatch

ASSUME DataParameters == Data!DataAssumption

----------------------------------------------------------------------------
(* The tokenizer. *)

CONSTANTS Base, MaxMerges, MinPairCount, MaxDoc, MaxText

VARIABLES bpePc, document, merges, text, textTokens, prev, nxt, alive, heap

bpeVars == <<bpePc, document, merges, text, textTokens, prev, nxt, alive, heap>>

Tokenizer == INSTANCE Bpe WITH pc <- bpePc, tokens <- textTokens

ASSUME TokenizerParameters == Tokenizer!BpeAssumption

----------------------------------------------------------------------------
(* Their properties. *)

\* Pretraining: the state of a run, resumed or not, says the same of its history wherever
\* one looks (pretrain.py:157-266; checkpoint.py:192-242).
LineageExact == Run!LineageExact

\* Pretraining: a resumed run trains as an uninterrupted one
\* (src/course/09-pretraining/README.md:18).
ResumeIsExact == Run!ResumeIsExact

\* Curriculum: each phase meets its budget of tokens, and accumulated microbatches weigh as
\* one batch (pretrain.py:297-445).
CurriculumExact == Phased!CurriculumExact

\* Stages: what a stage starts from is what an earlier one left (cli/train.py).
StagesCompose == Chain!StagesCompose

\* OnPolicy: updates are on policy, and all are made (grpo.py, ppo.py, rloo.py, distill.py).
UpdatesExact == Trainer!UpdatesExact

\* OnPolicy: the coefficients of an update are fair to its samples (grpo.py, ppo.py, rloo.py,
\* distill.py).
AdvantagesFair == Trainer!AdvantagesFair

\* FineTuning: DPO meets every pair before its first update and uses its own ratios
\* (dpo.py:144-185).
ReferencePassHolds == Tuning!ReferencePassHolds

\* CodeReward: a reward is what the tests of the problem earn (code_reward.py:78-107).
RewardEarned == Host!RewardEarned

\* DataPipeline: a run trains on tokens of its own tokenizer, and an epoch on every pair of
\* neighbours once (packing.py:140-219; dataset.py:24-212).
DataExact == Data!DataExact

\* Bpe: the heap applies the merges as the training did and loses nothing
\* (tokenizer.py:247-288).
EncodeExact == Tokenizer!EncodeExact
=============================================================================
