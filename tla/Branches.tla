------------------------------ MODULE Branches ------------------------------
(***************************************************************************)
(* Many completions of one prompt in one batch: Engine.fork_batched, then  *)
(* decode_step_batched until every branch has ended (generate_batched, in  *)
(* inference/batched.py).  The rows of the batch keep decoding after their *)
(* branch has ended, as a cache cannot lose a row.                         *)
(*                                                                         *)
(* The KV rows of a branch are the tokens that were fed, logits are the    *)
(* text they were computed on, and what is sampled from them is any token, *)
(* in every mode: "speculative" decodes greedily here.                     *)
(***************************************************************************)
EXTENDS Integers, Sequences

CONSTANTS
    Branch,         \* the rows of the batch
    Vocab, Eos,
    Prompt,
    Budgets,        \* the values of options.max_new_tokens
    MaxSteps,       \* max_steps of generate_batched
    ContextLength

BranchesAssumption ==
    /\ Branch # {} /\ Eos \in Vocab /\ Prompt \in Seq(Vocab) \ {<<>>}
    /\ Budgets \subseteq Nat /\ MaxSteps \in Nat /\ ContextLength \in Nat

VARIABLES
    pc,             \* "fork", "decode", "returned", "raised"
    options,        \* max_new_tokens, and whether eos_id is set
    kv, logits,     \* of each row
    generated,      \* generated of each branch
    scored,         \* captured_log_probs: the text each token was scored after
    finished,
    steps           \* the rounds of the loop

vars == <<pc, options, kv, logits, generated, scored, finished, steps>>

Init ==
    /\ pc = "fork"
    /\ options \in [budget : Budgets, eos : BOOLEAN]
    /\ kv = [b \in Branch |-> <<>>] /\ logits = kv
    /\ generated = [b \in Branch |-> <<>>] /\ scored = generated
    /\ finished = [b \in Branch |-> FALSE]
    /\ steps = 0

\* fork_batched: the anchor is admitted and prefilled, its cache tiled for all rows.
ForkBatched ==
    /\ pc = "fork"
    /\ IF Len(Prompt) + options.budget <= ContextLength
       THEN /\ kv' = [b \in Branch |-> Prompt] /\ logits' = kv'
            /\ pc' = "decode"
       ELSE pc' = "raised" /\ UNCHANGED <<kv, logits>>
    /\ UNCHANGED <<options, generated, scored, finished, steps>>

AllFinished == \A b \in Branch : finished[b]

\* The branch ends with this token, its last of these many.
Ends(token, count) == (options.eos /\ token = Eos) \/ count >= options.budget

\* Mutant of Emits: what the row of an ended branch decodes is kept.
EmitsAlways(b) == TRUE

\* The tokens of a branch that has ended are discarded.
Emits(b) == ~finished[b]

\* decode_step_batched, of one token for each row.
DecodeStep(tokens) ==
    /\ pc = "decode" /\ ~AllFinished /\ steps < MaxSteps
    /\ generated' = [b \in Branch |->
                       IF Emits(b) THEN Append(generated[b], tokens[b]) ELSE generated[b]]
    /\ scored' = [b \in Branch |->
                    IF Emits(b) THEN Append(scored[b], logits[b]) ELSE scored[b]]
    /\ finished' = [b \in Branch |-> finished[b] \/ Ends(tokens[b], Len(generated'[b]))]
    /\ IF \A b \in Branch : finished'[b]
       THEN UNCHANGED <<kv, logits>>
       ELSE kv' = [b \in Branch |-> Append(kv[b], tokens[b])] /\ logits' = kv'
    /\ steps' = steps + 1
    /\ UNCHANGED <<pc, options>>

\* generate_batched returns, or gives up.
Return ==
    /\ pc = "decode" /\ (AllFinished \/ steps = MaxSteps)
    /\ pc' = IF AllFinished THEN "returned" ELSE "raised"
    /\ UNCHANGED <<options, kv, logits, generated, scored, finished, steps>>

Next == ForkBatched \/ (\E tokens \in [Branch -> Vocab] : DecodeStep(tokens)) \/ Return

Spec == Init /\ [][Next]_vars

----------------------------------------------------------------------------

\* Where the text of a branch ends, decoded alone: the first end-of-sequence token, or the
\* budget.
Complete(text) ==
    /\ \A i \in 1 .. Len(text) - 1 : ~Ends(text[i], i)
    /\ text # <<>> => Ends(text[Len(text)], Len(text))

\* Branches that end in different rounds do not disturb one another: every token was sampled
\* and scored after the prompt and the tokens its own branch had emitted, a branch ends where
\* it would alone, the rows fit in the context, and all branches are complete when the batch
\* is returned, which it is unless the budget is more than the rounds.  A budget of none is
\* the exception: decode_step_batched emits one token before it looks at it
\* (batched.py:115-177; "further steps skip token-emission for it", batched.py:79-80).
BranchesExact ==
    /\ \A b \in Branch :
         /\ \A i \in DOMAIN generated[b] : scored[b][i] = Prompt \o SubSeq(generated[b], 1, i - 1)
         /\ pc # "fork" => Len(kv[b]) <= ContextLength
         /\ finished[b] <=> generated[b] # <<>> /\ Complete(generated[b])
         /\ options.budget > 0 => Len(generated[b]) <= options.budget
    /\ pc = "returned" => AllFinished
    /\ (pc = "raised" /\ steps > 0) => options.budget > MaxSteps
============================================================================
