---------------------------- MODULE Curriculum -----------------------------
(***************************************************************************)
(* pretrain_with_curriculum (training/pretrain.py): phases of growing      *)
(* context length (training/curriculum.py), each trained until its token   *)
(* budget is met, one optimizer and schedule for all of them, and a cap on *)
(* the steps in all.  A batch is split into microbatches whose gradients   *)
(* are weighted by their tokens and summed.                                *)
(*                                                                         *)
(* A batch is, per row, the number of its targets that are not ignored.    *)
(* The loss of row i is i per token, so rows weigh differently.  Gradients *)
(* are linear in the loss; the model follows the loss alone.               *)
(***************************************************************************)
EXTENDS Integers, Sequences, Totals

CONSTANTS
    Phases,         \* the phases: [context_length, n_tokens]
    MaxSteps,       \* max_steps
    Batches,        \* batches in an epoch of every phase
    BatchSize,      \* batch_size; the last batch of an epoch has one row
    Accum           \* grad_accum

\* ContextCurriculum.__post_init__ and CurriculumPhase.__post_init__.
CurriculumAssumption ==
    /\ Phases \in Seq([context_length : Nat, n_tokens : Nat]) /\ Len(Phases) > 0
    /\ \A p \in 1 .. Len(Phases) : Phases[p].context_length > 1 /\ Phases[p].n_tokens > 0
    /\ \A p \in 2 .. Len(Phases) : Phases[p - 1].context_length <= Phases[p].context_length
    /\ {MaxSteps, Batches, BatchSize, Accum} \subseteq Nat \ {0}

VARIABLES
    phase,          \* phase_idx, from one; past the last when the loop is over
    epoch, index,   \* epoch_in_phase, and the batch of it that is next
    scheduled,      \* the step of the scheduler
    globalStep,
    consumed,       \* per phase, tokens_in_phase
    last,           \* history: per phase, the tokens of its last batch
    batch, loss,    \* history: the last batch and its accumulated loss, a fraction
    raised          \* a batch without a single target ends the run

counters == <<phase, epoch, index, scheduled, globalStep, consumed, last>>
vars == <<counters, batch, loss, raised>>

MaxContext == Phases[Len(Phases)].context_length

----------------------------------------------------------------------------
(* Gradient accumulation. *)

\* The loss of the tokens of the rows first .. last, summed.
RowLoss(rows, first, final) == Total([i \in 1 .. final - first + 1 |->
                                          (first + i - 1) * rows[first + i - 1]])

\* _split_microbatches: the rows of each chunk, the remainder one row each to the first.
Split(n) ==
    LET chunks == IF Accum < n THEN Accum ELSE n
        base == n \div chunks
        extra == n % chunks
        upTo(k) == k * base + (IF k < extra THEN k ELSE extra)
    IN  [k \in 1 .. chunks |-> [first |-> upTo(k - 1) + 1, final |-> upTo(k)]]

\* The weight of a microbatch in the sum.
Weight(tokens, total, chunks) == [num |-> tokens, den |-> total]

\* cross_entropy_ignore: the mean over the targets that count, zero of none.
MeanLoss(sum, tokens) == [num |-> sum, den |-> IF tokens = 0 THEN 1 ELSE tokens]

Times(x, y) == [num |-> x.num * y.num, den |-> x.den * y.den]
Plus(x, y) == [num |-> x.num * y.den + y.num * x.den, den |-> x.den * y.den]
SameFraction(x, y) == x.num * y.den = y.num * x.den

\* _accumulated_loss_and_grads.
Accumulated(rows) ==
    LET chunks == Split(Len(rows))
        tokens(c) == Total(SubSeq(rows, c.first, c.final))
        total == Total([k \in 1 .. Len(chunks) |-> tokens(chunks[k])])
        part(c) == Times(MeanLoss(RowLoss(rows, c.first, c.final), tokens(c)),
                         Weight(tokens(c), total, Len(chunks)))
        sum[k \in 0 .. Len(chunks)] ==
          IF k = 0 THEN [num |-> 0, den |-> 1] ELSE Plus(sum[k - 1], part(chunks[k]))
    IN  sum[Len(chunks)]

----------------------------------------------------------------------------

Init ==
    /\ phase = 1 /\ epoch = 1 /\ index = 1
    /\ scheduled = 0 /\ globalStep = 0
    /\ consumed = [p \in 1 .. Len(Phases) |-> 0]
    /\ last = [p \in 1 .. Len(Phases) |-> 0]
    /\ batch = <<1>> /\ loss = [num |-> 1, den |-> 1]
    /\ raised = FALSE

Running == ~raised /\ phase <= Len(Phases)

\* Mutant of PhaseDone: one phase's budget is checked against all tokens so far.
PhaseDoneInAll == Total(consumed) >= Phases[phase].n_tokens

PhaseDone == consumed[phase] >= Phases[phase].n_tokens

\* The rows a batch may have: up to context_length targets each.
Rows == [1 .. (IF index = Batches THEN 1 ELSE BatchSize) -> 0 .. Phases[phase].context_length]

\* One iteration: schedule, accumulate, update, count.
TrainBatch(rows) ==
    /\ Running /\ ~PhaseDone /\ globalStep < MaxSteps
    /\ scheduled' = scheduled + 1
    /\ IF Total(rows) = 0
       THEN /\ raised' = TRUE
            /\ UNCHANGED <<phase, epoch, index, globalStep, consumed, last, batch, loss>>
       ELSE /\ batch' = rows /\ loss' = Accumulated(rows)
            /\ consumed' = [consumed EXCEPT ![phase] = @ + Total(rows)]
            /\ last' = [last EXCEPT ![phase] = Total(rows)]
            /\ globalStep' = globalStep + 1
            /\ epoch' = IF index = Batches THEN epoch + 1 ELSE epoch
            /\ index' = IF index = Batches THEN 1 ELSE index + 1
            /\ UNCHANGED <<phase, raised>>

\* The next phase builds its dataset; when the steps are used up its loop does nothing.
NextPhase ==
    /\ Running
    /\ PhaseDone \/ globalStep >= MaxSteps
    /\ phase' = phase + 1
    /\ epoch' = 1 /\ index' = 1
    /\ UNCHANGED <<scheduled, globalStep, consumed, last, batch, loss, raised>>

Next == (phase <= Len(Phases) /\ \E rows \in Rows : TrainBatch(rows)) \/ NextPhase

Spec == Init /\ [][Next]_vars /\ WF_vars(Next)

----------------------------------------------------------------------------

\* Hazard: a phase that is left early or trained past its budget when epochs, partial
\* batches and the step cap interleave.  A phase that is over has met its budget, by
\* less than its last batch, unless the steps ran out; and the schedule goes on across
\* phases, one step for each update.
PhasesMeetBudgets ==
    /\ \A p \in 1 .. Len(Phases) :
          /\ p < phase => consumed[p] >= Phases[p].n_tokens \/ globalStep = MaxSteps
          /\ consumed[p] > 0 => consumed[p] - last[p] < Phases[p].n_tokens
          /\ p > phase => consumed[p] = 0
    /\ ~raised => scheduled = globalStep

\* Hazard: ragged microbatches weighted wrongly, or rows dropped or taken twice at the
\* uneven split.  What is accumulated is the mean over the targets of the whole batch.
AccumulationExact ==
    SameFraction(loss, MeanLoss(RowLoss(batch, 1, Len(batch)), Total(batch)))

\* A curriculum feeds each phase its tokens, and each step the mean over its tokens
\* (pretrain.py:297-445).
CurriculumExact == PhasesMeetBudgets /\ AccumulationExact

============================================================================
