------------------------------- MODULE Stages -------------------------------
(***************************************************************************)
(* The chain of training commands (cli/train.py).  A command builds a      *)
(* fresh model or loads the parameters of an earlier command's final.bw4,  *)
(* checks it against the tokenizer it is given, trains, and writes its own *)
(* final.bw4, maybe over the one it loaded.  One command runs at a time    *)
(* and may die at any point.                                               *)
(*                                                                         *)
(* Weights are the sequence of the updates that made them: the vocabulary  *)
(* of each, and whether it was the first of a pre- or mid-training, where  *)
(* the count of steps starts over.  Of a config the model keeps the        *)
(* vocabulary and activation_checkpoint, of a tokenizer its vocabulary.    *)
(***************************************************************************)
EXTENDS Integers, Sequences, SequencesExt

CONSTANTS
    Dirs,           \* the directories commands write final.bw4 to
    Vocabs,         \* the vocabularies of the tokenizers
    MaxUpdates,     \* --max-steps
    MaxStages       \* bound: how many commands are run

StagesAssumption == MaxUpdates \in Nat \ {0} /\ MaxStages \in Nat

VARIABLES
    files,          \* final.bw4 of each directory
    running,        \* the command that runs
    stages          \* how many were started

vars == <<files, running, stages>>

Absent == [state |-> "absent"]
Torn == [state |-> "torn"]
Idle == [kind |-> "none"]

\* load_checkpoint succeeds.
Loads(d) == files[d].state = "whole"

Init ==
    /\ files = [d \in Dirs |-> Absent]
    /\ running = Idle
    /\ stages = 0

\* config_for_inference: decode and rollout use a mutable KV cache.
ForInference(config) == [config EXCEPT !.activation = FALSE]

\* BabyWhaleV4Config.tiny with the flags of the command.
Tiny(vocab, activation) == [vocab |-> vocab, activation |-> activation]

\* A tokenizer to take the texts through, a model and a config to start from, and what the
\* step counter starts at.
Begin(kind, out, vocab, config, weights, start, short) ==
    /\ running = Idle /\ stages < MaxStages
    /\ running' = [kind |-> kind, out |-> out, vocab |-> vocab, config |-> config,
                   weights |-> weights, start |-> start, done |-> 0, gaveUp |-> FALSE,
                   short |-> short]
    /\ stages' = stages + 1
    /\ UNCHANGED files

FromScratch(kind, out, config) == Begin(kind, out, config.vocab, config, <<>>, 0, FALSE)

\* Mutant of VocabularyFits: the check is left out, as cli/serve.py leaves it out.
VocabularyUnchecked(d, vocab) == Loads(d)

\* Every command that loads a checkpoint compares its vocabulary with the tokenizer's.
VocabularyFits(d, vocab) == Loads(d) /\ files[d].config.vocab = vocab

\* pretrain and midtrain keep the config of the checkpoint and count from zero.
Continue(kind, out, d, vocab) ==
    /\ VocabularyFits(d, vocab)
    /\ Begin(kind, out, vocab, files[d].config, files[d].weights, 0, files[d].short)

Pretrain(out, vocab, activation) ==
    \/ FromScratch("pretrain", out, Tiny(vocab, activation))
    \/ \E d \in Dirs : Continue("pretrain", out, d, vocab)

Midtrain(out, vocab, activation) ==
    \/ FromScratch("midtrain", out, Tiny(vocab, activation))
    \/ \E d \in Dirs : Continue("midtrain", out, d, vocab)

\* _rl_setup_model, and the same lines of the other commands: the config is made fit for
\* decoding and the step goes on from the checkpoint's.
PostTrain(kind, out, vocab) ==
    \/ FromScratch(kind, out, Tiny(vocab, FALSE))
    \/ \E d \in Dirs :
          /\ VocabularyFits(d, vocab)
          /\ Begin(kind, out, vocab, ForInference(files[d].config), files[d].weights,
                   files[d].step, files[d].short)

Sft(out, vocab) == PostTrain("sft", out, vocab)
Dpo(out, vocab) == PostTrain("dpo", out, vocab)
Grpo(out, vocab) == PostTrain("grpo", out, vocab)
Ppo(out, vocab) == PostTrain("ppo", out, vocab)
Rloo(out, vocab) == PostTrain("rloo", out, vocab)

\* code-agent trains and writes no checkpoint.
CodeAgent(out, vocab) == PostTrain("code_agent", out, vocab)

\* The teacher, a frozen model that must have the same vocabulary, changes nothing here.
Distill(out, vocab) == PostTrain("distill", out, vocab)

\* One update of the loop of the command.
Update ==
    /\ running # Idle /\ running.done < MaxUpdates /\ ~running.gaveUp
    /\ running' = [running EXCEPT
          !.done = @ + 1,
          !.weights = Append(@, [vocab |-> running.vocab,
                                 first |-> /\ running.done = 0
                                           /\ running.kind \in {"pretrain", "midtrain"}])]
    /\ UNCHANGED <<files, stages>>

\* distill() returns with fewer updates when too few samples are accepted.
GivesUp ==
    /\ running.kind = "distill" /\ running.done < MaxUpdates /\ ~running.gaveUp
    /\ running' = [running EXCEPT !.gaveUp = TRUE, !.short = TRUE]
    /\ UNCHANGED <<files, stages>>

LoopOver == running.done = MaxUpdates \/ running.gaveUp

\* The step in the file: the updates of the loop, or the step loaded and all max_steps.
SavedStep == running.start + MaxUpdates

\* save_checkpoint at the end of the command.
Save ==
    /\ running # Idle /\ LoopOver /\ running.kind # "code_agent"
    /\ files' = [files EXCEPT ![running.out] =
          [state |-> "whole", config |-> running.config, weights |-> running.weights,
           step |-> SavedStep, short |-> running.short]]
    /\ running' = Idle
    /\ UNCHANGED stages

\* code-agent ends, or any command dies: before its file is opened, or while it is written.
Leave ==
    /\ running # Idle
    /\ \/ UNCHANGED files
       \/ /\ LoopOver /\ running.kind # "code_agent"
          /\ files' = [files EXCEPT ![running.out] = Torn]
    /\ running' = Idle
    /\ UNCHANGED stages

Next ==
    \/ \E out \in Dirs, vocab \in Vocabs :
          \/ \E activation \in BOOLEAN :
                Pretrain(out, vocab, activation) \/ Midtrain(out, vocab, activation)
          \/ Sft(out, vocab) \/ Dpo(out, vocab) \/ Grpo(out, vocab) \/ Ppo(out, vocab)
          \/ Rloo(out, vocab) \/ CodeAgent(out, vocab) \/ Distill(out, vocab)
    \/ Update \/ GivesUp \/ Save \/ Leave

Spec == Init /\ [][Next]_vars

----------------------------------------------------------------------------

\* Where the count of steps last started: the first update of a pre- or mid-training.
CountedFrom(w) ==
    LET starts == {i \in 1 .. Len(w) : w[i].first}
    IN  IF starts = {} THEN 1 ELSE CHOOSE i \in starts : \A j \in starts : j <= i

\* Hazard: a chain of commands that are fine one by one leaves a file that belongs to
\* another tokenizer, counts other steps than were made, or cannot be decoded from
\* (the model raises when a KV cache meets activation_checkpoint).  All updates of a
\* file were made on the ids of its vocabulary; its step is the number of its updates since the
\* last pre- or mid-training began, or more if a distillation gave up; and only pre- and
\* mid-training ever run with activation_checkpoint.
StagesCompose ==
    /\ \A d \in {d \in Dirs : Loads(d)} :
          LET f == files[d]  counted == Len(f.weights) - CountedFrom(f.weights) + 1 IN
          /\ \A i \in 1 .. Len(f.weights) : f.weights[i].vocab = f.config.vocab
          /\ f.step >= counted
          /\ ~f.short => f.step = counted
    /\ (running # Idle /\ running.config.activation) => running.kind \in {"pretrain", "midtrain"}
============================================================================
