----------------------------- MODULE FineTuning -----------------------------
(***************************************************************************)
(* Fine-tuning on fixed data: preference pairs (training/dpo.py) and chats *)
(* (training/sft.py).  DPO truncates each pair as it is read, takes the    *)
(* log-ratio of every pair under the frozen reference once, before the     *)
(* first update, and then walks the pairs batch by batch, each batch with  *)
(* the slice of the ratios it belongs to.  SFT walks shuffled epochs and   *)
(* stops on a loss that is not finite.                                     *)
(*                                                                         *)
(* A pair is the lengths of its encoded prompt and responses; a version of *)
(* the weights is the number of updates that made it.                      *)
(***************************************************************************)
EXTENDS Integers, Sequences, SequencesExt

CONSTANTS
    Pairs,              \* the pairs a file may hold: [prompt, chosen, rejected]
    MaxPairs,           \* bound: how many a file holds at most
    MaxPrompt,          \* max_prompt_tokens
    MaxResponse,        \* max_response_tokens
    ContextLength,      \* the model raises on longer input
    BatchSize,
    MaxSteps

FineTuningAssumption ==
    /\ {MaxPrompt, MaxResponse, ContextLength, BatchSize, MaxSteps} \subseteq Nat \ {0}
    /\ MaxPairs \in Nat

VARIABLES
    method,         \* "dpo" or "sft"
    pc,             \* "load", "reference", "train", "done", "raised"
    file,           \* the pairs on disk
    examples,       \* the pairs in memory, truncated
    ratios,         \* ref_logratios: the pair and the version each was taken of
    start,          \* where the next batch starts
    step, model,
    used            \* history: the pairs of the last batch, each with the ratio used

vars == <<method, pc, file, examples, ratios, start, step, model, used>>

Init ==
    /\ method \in {"dpo", "sft"}
    /\ pc = "load"
    /\ file \in UNION {[1 .. n -> Pairs] : n \in 0 .. MaxPairs}
    /\ examples = <<>> /\ ratios = <<>> /\ start = 1
    /\ step = 0 /\ model = 0 /\ used = <<>>

Shorter(n, length) == IF n < length THEN n ELSE length

\* _dpo_example_from_record: each field keeps its first tokens.
Truncated(pair) ==
    [prompt |-> Shorter(pair.prompt, MaxPrompt),
     chosen |-> Shorter(pair.chosen, MaxResponse),
     rejected |-> Shorter(pair.rejected, MaxResponse)]

\* dpo_examples_from_jsonl, which raises on a file without rows.
Load ==
    /\ pc = "load"
    /\ examples' = [i \in 1 .. Len(file) |-> Truncated(file[i])]
    /\ pc' = IF file = <<>> THEN "raised" ELSE IF method = "dpo" THEN "reference" ELSE "train"
    /\ UNCHANGED <<method, file, ratios, start, step, model, used>>

\* _logp_response runs prompt and response through the model.
Fits(pair) ==
    /\ pair.prompt + pair.chosen <= ContextLength
    /\ pair.prompt + pair.rejected <= ContextLength

\* make_reference and _precompute_ref_logratios.
Precompute ==
    /\ pc = "reference"
    /\ IF \A i \in 1 .. Len(examples) : Fits(examples[i])
       THEN /\ ratios' = [i \in 1 .. Len(examples) |-> [pair |-> i, version |-> model]]
            /\ pc' = "train"
       ELSE pc' = "raised" /\ UNCHANGED ratios
    /\ UNCHANGED <<method, file, examples, start, step, model, used>>

\* Mutant of BatchRatios: the slice of the ratios is always the first.
FirstRatios == SubSeq(ratios, 1, Shorter(BatchSize, Len(ratios)))

\* ref_logratios[start : start + bs].
BatchRatios == SubSeq(ratios, start, Shorter(start + BatchSize - 1, Len(ratios)))

\* examples[start : start + bs], by their places.
Batch == [i \in 1 .. Shorter(BatchSize, Len(examples) - start + 1) |-> start + i - 1]

\* One batch of dpo(); zip(strict=True) raises on slices of different lengths.
DpoStep ==
    /\ pc = "train" /\ method = "dpo"
    /\ IF /\ Len(Batch) = Len(BatchRatios)
          /\ \A i \in DOMAIN Batch : Fits(examples[Batch[i]])
       THEN /\ used' = [i \in DOMAIN Batch |-> [pair |-> Batch[i], ratio |-> BatchRatios[i]]]
            /\ model' = model + 1 /\ step' = step + 1
            /\ start' = IF start + BatchSize > Len(examples) THEN 1 ELSE start + BatchSize
            /\ pc' = IF step' >= MaxSteps THEN "done" ELSE "train"
       ELSE pc' = "raised" /\ UNCHANGED <<used, model, step, start>>
    /\ UNCHANGED <<method, file, examples, ratios>>

\* One batch of sft(): the loss is looked at before the update.
SftStep(finite) ==
    /\ pc = "train" /\ method = "sft"
    /\ IF finite
       THEN /\ model' = model + 1 /\ step' = step + 1
            /\ pc' = IF step' >= MaxSteps THEN "done" ELSE "train"
       ELSE pc' = "raised" /\ UNCHANGED <<model, step>>
    /\ UNCHANGED <<method, file, examples, ratios, start, used>>

Next == Load \/ Precompute \/ DpoStep \/ \E finite \in BOOLEAN : SftStep(finite)

Spec == Init /\ [][Next]_vars

----------------------------------------------------------------------------

\* Hazard: the precomputed log-ratios drift from the batches they are used in, or are
\* taken of a model that has been trained.  Every pair is trained against its own ratio
\* under the model the run started from.
RatiosAligned ==
    \A i \in DOMAIN used : used[i].ratio = [pair |-> used[i].pair, version |-> 0]

\* Hazard: a pair that does not fit the context ends the run when its batch comes, hours
\* in and with nothing saved.  The pass over the reference meets every pair first: once
\* a DPO run has made an update, it does not raise.
DpoFailsEarly == method = "dpo" /\ model > 0 => pc # "raised"

\* Both promises of the pass over the reference (dpo.py, _precompute_ref_logratios).
ReferencePassHolds == RatiosAligned /\ DpoFailsEarly
============================================================================
