------------------------------ MODULE OnPolicy ------------------------------
(***************************************************************************)
(* The on-policy trainers (training/grpo.py, ppo.py, rloo.py, distill.py): *)
(* for one prompt after the other a group of rollouts is sampled from the  *)
(* rollout engine, scored one by one by the reward host, drained from a    *)
(* buffer of its own, turned into one update of the model, and the new     *)
(* weights are handed to the engine.  A reward host that raises ends the   *)
(* run.                                                                    *)
(*                                                                         *)
(* The weights of the model, the engine and the reference are versions:    *)
(* how many updates made them.  A gradient is the coefficient each         *)
(* sample's log-probability gets in it, up to a positive factor that is    *)
(* the same for all samples of the group.                                  *)
(***************************************************************************)
EXTENDS Integers, Sequences, Totals

CONSTANTS
    Algorithms,     \* the trainers a run looks at
    Prompts,        \* how many prompts there are
    GroupSize,      \* group_size
    MaxSteps,       \* max_steps
    MaxAttempts,    \* distill's max_attempts: four times max_steps and at least 20
    Rewards,        \* the rewards a host may give
    Threshold       \* distill's reward_threshold

\* Only a distillation may take groups of one.
OnPolicyAssumption ==
    /\ {Prompts, MaxSteps, MaxAttempts} \subseteq Nat \ {0}
    /\ MaxAttempts >= MaxSteps
    /\ GroupSize \in Nat \ {0}
    /\ GroupSize = 1 => Algorithms \subseteq {"distill"}
    /\ Rewards \subseteq Int

VARIABLES
    algo,
    pc,             \* "rollout", "score", "update", "sync", "done", "raised"
    prompt,         \* the prompt whose turn it is
    step, attempts,
    model, engine,  \* versions
    reference,      \* the version of the frozen copy, the teacher of a distillation
    samples,        \* the rollouts: [prompt, version]
    buffer,         \* the scored samples: rollouts with [reward, of]
    gradient        \* history: the coefficients of the last update

vars == <<algo, pc, prompt, step, attempts, model, engine, reference, samples, buffer, gradient>>

Group == 1 .. GroupSize

Init ==
    /\ algo \in Algorithms
    /\ pc = "rollout" /\ prompt = 1 /\ step = 0 /\ attempts = 0
    /\ model = 0 /\ engine = 0 /\ reference = 0
    /\ samples = <<>> /\ buffer = <<>> /\ gradient = <<>>

\* engine.generate_batch of one request per member of the group.
Rollout ==
    /\ pc = "rollout"
    /\ samples' = [i \in Group |-> [prompt |-> prompt, version |-> engine]]
    /\ attempts' = attempts + 1
    /\ buffer' = <<>>
    /\ pc' = "score"
    /\ UNCHANGED <<algo, prompt, step, model, engine, reference, gradient>>

\* Mutant of Score: the host looks the task up by the order of the calls.
ScoreInOrder(reward) ==
    /\ pc = "score" /\ Len(buffer) < GroupSize
    /\ buffer' = Append(buffer, [sample |-> samples[Len(buffer) + 1], reward |-> reward,
                                 of |-> (Len(buffer) % Prompts) + 1])
    /\ pc' = IF Len(buffer') = GroupSize THEN "update" ELSE "score"
    /\ UNCHANGED <<algo, prompt, step, attempts, model, engine, reference, samples, gradient>>

\* host.score(sample) by the metadata of its request, and buffer.add.
Score(reward) ==
    /\ pc = "score" /\ Len(buffer) < GroupSize
    /\ LET sample == samples[Len(buffer) + 1] IN
          buffer' = Append(buffer, [sample |-> sample, reward |-> reward, of |-> sample.prompt])
    /\ pc' = IF Len(buffer') = GroupSize THEN "update" ELSE "score"
    /\ UNCHANGED <<algo, prompt, step, attempts, model, engine, reference, samples, gradient>>

\* An HTTP host that cannot be reached, or a reward that is no float.
ScoreRaises ==
    /\ pc = "score"
    /\ pc' = "raised"
    /\ UNCHANGED <<algo, prompt, step, attempts, model, engine, reference, samples, buffer,
                   gradient>>

----------------------------------------------------------------------------
(* The coefficients. *)

GroupRewards == [i \in Group |-> buffer[i].reward]

\* rewards - mean(rewards), times GroupSize.  The standard deviation GRPO and PPO divide
\* by is common to the group.
Centred == [i \in Group |-> GroupSize * GroupRewards[i] - Total(GroupRewards)]

\* grpo_step: the advantages, and the KL term to the reference.
GrpoCoefficients == Centred

\* ppo_step: the ratio to the rollout's own log-probabilities is one when the model is
\* still the one that sampled; else it is clipped, and the gradient of a clipped ratio is 0.
PpoCoefficients ==
    [i \in Group |-> IF buffer[i].sample.version = model THEN Centred[i] ELSE 0]

\* Mutant of RlooCoefficients: the reward of a sample is part of its own baseline.
RlooOfAll ==
    [i \in Group |-> (GroupSize - 1) * GroupRewards[i] - Total(GroupRewards)]

\* _leave_one_out_advantage: r_i - (total - r_i) / (G - 1), times G - 1.
RlooCoefficients ==
    [i \in Group |-> (GroupSize - 1) * GroupRewards[i] - (Total(GroupRewards) - GroupRewards[i])]

Accepted == {i \in Group : GroupRewards[i] >= Threshold}

\* distill_step: the accepted samples count the same, the others not at all.
DistillCoefficients == [i \in Group |-> IF i \in Accepted THEN 1 ELSE 0]

----------------------------------------------------------------------------
(* The loops. *)

\* optimizer.step and model.update.
Apply(coefficients) ==
    /\ gradient' = coefficients
    /\ model' = model + 1
    /\ pc' = "sync"
    /\ UNCHANGED <<algo, prompt, step, attempts, engine, reference, samples, buffer>>

GrpoUpdate == pc = "update" /\ algo = "grpo" /\ Apply(GrpoCoefficients)
PpoUpdate == pc = "update" /\ algo = "ppo" /\ Apply(PpoCoefficients)
RlooUpdate == pc = "update" /\ algo = "rloo" /\ Apply(RlooCoefficients)

NextPrompt == IF prompt = Prompts THEN 1 ELSE prompt + 1

\* The loop over the prompts ends when its own conditions say so; the outer loop looks
\* at the attempts only between two passes over the prompts.
DistillUpdate ==
    /\ pc = "update" /\ algo = "distill"
    /\ \/ Accepted # {} /\ Apply(DistillCoefficients)
       \/ /\ Accepted = {}
          /\ pc' = IF attempts >= MaxAttempts THEN "done" ELSE "rollout"
          /\ prompt' = NextPrompt
          /\ UNCHANGED <<algo, step, attempts, model, engine, reference, samples, buffer,
                         gradient>>

\* engine.sync_weights(model), and whether the loops go on.
Sync ==
    /\ pc = "sync"
    /\ engine' = model
    /\ step' = step + 1
    /\ prompt' = NextPrompt
    /\ pc' = IF \/ step' >= MaxSteps
                \/ algo = "distill" /\ prompt = Prompts /\ attempts >= MaxAttempts
             THEN "done" ELSE "rollout"
    /\ UNCHANGED <<algo, attempts, model, reference, samples, buffer, gradient>>

Next ==
    \/ Rollout
    \/ \E reward \in Rewards : Score(reward)
    \/ ScoreRaises
    \/ GrpoUpdate \/ PpoUpdate \/ RlooUpdate \/ DistillUpdate
    \/ Sync

Spec == Init /\ [][Next]_vars /\ WF_vars(Next)

----------------------------------------------------------------------------

\* Hazard: weights, samples, rewards and prompts are brought together from four objects
\* with a copy each.  An update is made from one full group of the prompt whose turn it
\* is, sampled with the very weights it updates and scored for that prompt; every update
\* reaches the engine; and the reference never moves.
UpdatesOnPolicy ==
    /\ pc = "update" =>
          /\ Len(buffer) = GroupSize
          /\ \A i \in Group :
                /\ buffer[i].sample = [prompt |-> prompt, version |-> model]
                /\ buffer[i].of = prompt
    /\ pc = "rollout" => engine = model
    /\ model = step + (IF pc = "sync" THEN 1 ELSE 0)
    /\ reference = 0

\* Hazard: a baseline that is biased, or counts a sample in its own baseline where it
\* must not.  The coefficients of the group sum to zero, order samples as their rewards
\* do, and leave-one-out differs from the centred rewards by a factor only, so all three
\* trainers push the same way; a distillation weighs accepted samples only.
AdvantagesFair ==
    pc = "sync" =>
        IF algo = "distill"
        THEN \A i \in Group : gradient[i] = 1 <=> GroupRewards[i] >= Threshold
        ELSE /\ Total(gradient) = 0
             /\ \A i, j \in Group : GroupRewards[i] < GroupRewards[j] <=> gradient[i] < gradient[j]
             /\ \A i, j \in Group : gradient[i] * Centred[j] = gradient[j] * Centred[i]

\* Hazard: a run that stops in the middle of its steps though samples are accepted, or a
\* distillation that attempts for ever.  Steps are missing only when the attempts are used
\* up, which is noticed within one pass over the prompts.
StopsHonestly ==
    /\ attempts < MaxAttempts + Prompts
    /\ (pc = "done" /\ step < MaxSteps) => (algo = "distill" /\ attempts >= MaxAttempts)

\* Every update is of the samples and the weights it should be of, and all are made (grpo.py,
\* ppo.py, rloo.py, distill.py).
UpdatesExact == UpdatesOnPolicy /\ StopsHonestly

============================================================================
