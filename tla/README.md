# BabyWhale: a TLA+ development

BabyWhale (`baby_whale_v4/`) is a small language-model stack in Python on MLX: a
transformer, pre- and post-training loops, and an inference engine with chunked
prefill, batching, prefix caching, paged KV storage, an HTTP server and rollout
engines for reinforcement learning. This directory holds TLA+ models of it, from
the serving loop's threads to the files of the training stages, the TLC
configurations that check them, and TLAPS proofs.

All source paths below are relative to `src/baby_whale_v4/`, unless they begin with
`src/`. `PROJECT.json` maps every definition to the lines it stands for.

## 1. The system

| Part | State it keeps | Operations | Correct when |
|---|---|---|---|
| Prompt prefix cache `inference/prefix_cache.py` | an LRU map from prompt prefix to a cloned KV cache and its last logits | `get`, `put`, `clear` | an entry's KV rows are those of its key; at most `capacity` entries; nothing outlives a weight change |
| Engine `inference/engine.py`, `cache.py` | per request: `prefilled`, KV cache, `last_logits`, `generated`, `finished`, `cancelled`; shared: weights, prefix cache | `new_request`, `prefill_chunk`, `commit_prefix_cache`, `decode_step`, `cancel`, `fork`, offload and reload | the KV cache is exactly the tokens of the request so far, in order, once each; logits belong to its last row |
| Batched decoding `inference/batched.py` | a batch of branches; otherwise none: it stacks or left-pads caches for one forward | `decode_group_batched`, `decode_ragged_batched`, `decode_step_batched`, `generate_batched` | a row of the batch sees what it would see alone, and ends where it would |
| Scheduler `inference/scheduler.py` | prefill queue, decode queue, completed list | `submit`, `tick`, `run_until_done` | a request is in one place, is retired once, and every one is |
| Serving loop `inference/serving.py` | pending and control queues, wake event, tracked handles; per handle: state, token queue, emitted count, done, error | `submit`, `run_control`, `next_token`, `result`, `cancel`, `start`, `stop`, the loop | every waiter is answered; streams are exact; a cancel is not lost |
| HTTP server `inference/server.py` | none beyond the loop; one thread per connection | chat (plain, streaming), generate, rollout, weight sync | a client gets its stream, a hang-up frees the slot |
| Rollout engines `rl/rollout.py` | the engine they keep, resp. a URL | `generate_batch`, `sync_weights`, `generate_with_tools` | samples are complete and of the current policy |
| Paged KV pool `inference/paged_kv.py` | free list, allocated set, physical rows; per request a page table | `allocate`, `free`, `append_tokens`, `gather`, `free_table` | no block lost, none shared, what is read is what was written |
| Radix cache `inference/radix_cache.py` | a tree of token spans with payloads | `match`, `insert`, eviction | a match returns the KV of the prefix it reports |
| Speculative decoding `model.py` | the sequence so far | draft, verify, accept | the output is the greedy output |
| KV offload `inference/kv_offload.py` | two files per request | `offload_request`, `reload_request` | a reloaded request has every row its next token needs |
| Rollout buffer `rl/buffer.py` | bounded deque, two conditions, a producer thread | `add`, `drain`, `start`, `join` | nothing lost, nobody waits for ever |
| Rewards `rl/code_reward.py`, `rl/code_exec.py` | a child process and its runner file | `score` | a reward is earned by the tests, and comes |
| Pre-training `training/pretrain.py`, `mlx_optim.py`, `checkpoint.py` | weights, optimizer slots, schedule, step, router bias; checkpoint files | `pretrain`, `save_checkpoint`, `load_checkpoint`, resume | a resumed run is the run that was interrupted |
| Curriculum `training/curriculum.py` | phase, tokens consumed, step | `pretrain_with_curriculum` | phases meet their budgets, microbatches weigh as one batch |
| Stages `cli/train.py` | one `final.bw4` per directory | the training commands | what one command leaves fits the next |
| On-policy trainers `training/grpo.py`, `ppo.py`, `rloo.py`, `distill.py` | policy, reference, engine's copy, buffer | rollout, score, update, sync | every update is on policy, its coefficients those of the algorithm |
| Fine-tuning `training/dpo.py`, `sft.py` | pairs, reference log-ratios, step | the two loops | each pair is trained against its own ratio |
| Data `data/` | merges, vocabulary, JSONL, packed file and manifest | train, encode, pack, save, load, batch | packing and batching lose, repeat and shift no token |
| Model layers `attention.py`, `layers.py`, `moe.py` | KV caches, packed copies of weights, balancing bias of the routers | forwards, quantisation, updates, routing | masks let through what they should; a forward uses the weights there are; no expert starves |
| Numbers: losses, kernels, what experts compute, quantisation, vision | tensors | arithmetic | not modelled |

How they interact. A **trainer** calls `generate_batch` of a rollout engine, updates
the weights, and calls `sync_weights`. The in-process **rollout engine** runs a
scheduler of its own on the engine it keeps. Over HTTP, **handler threads** put
submissions and control actions in queues of the **serving loop**, wake it, and wait
on per-request events and token queues; the loop is the only thread that touches the
engine, with one exception: `RequestHandle.cancel()` writes the flags of a
`RequestState` from the handler's thread. The **scheduler** moves requests from its
prefill queue to its decode queue and runs engine steps; the **engine** warm-starts
requests from the prefix cache and commits to it. A KV cache is dense or lives in the
**paged pool**.

The training side is a chain of commands over files: documents become a packed token
file, a **pre-training** or curriculum run a checkpoint, and each later **stage** loads
the file of an earlier one, trains by its loop (SFT, DPO, or an **on-policy trainer** with
a rollout engine, a reward host and a buffer) and writes its own.

What is hard: cancels and stops that land between any two steps of the loop or of a
tick; the order of put, set, wait and clear of two threads; a weight sync between two
chunks of a prefill; timeouts whose answer still comes; cohorts and branches whose
members end at different steps; warm starts at chunk boundaries; windows, padding and
pooled blocks that are cut by different offsets; a pool that runs out in the middle
of an append; a crash between the two files of a pair, or inside one; caches keyed by
something that can come back; a count that restarts where another goes on.
`PROJECT.json` lists these under `hazards`, each with the properties that would catch it
going wrong, or with the reason why none does.

## 2. Modules

    PrefixCache      operators on the LRU sequence
      Engine         state of requests, weights and cache; action fragments, no Next
        Scheduler    the tick, cut where another thread can come between; Spec
          Scheduler_proofs
          RolloutEngine    generate_batch under a trainer; RolloutSpec
            RolloutEngine_proofs
          BatchingServer   the loop and the threads around it; ServerSpec
            ServingRefinement --implements--> RequestStream
              BatchingServer_proofs
    RadixKV          the radix tree and the prefilling requests of its engine; TreeSpec
      RadixKV_proofs
    PagedKV          the pool, block by block, row by row; Spec
    SpecDecode       draft and verify of one speculative request; CallSpec
    RolloutBuffer    the bounded buffer, its producer thread and the trainer; BufferSpec
      SmallParts_proofs    of the three above
    InferenceParts   one instance of each of
        Attention    what a token attends to, in every forward inference makes; Spec
        Branches     fork_batched and the batch it starts; Spec
        KVOffload    offload and reload of a request, file by file; Spec
        ToolRollout  a rollout with tools, turn by turn; Spec
        Weights      tied and packed weights as objects; Spec
      InferenceParts_proofs
    TrainingParts    one instance of each of
        Pretraining  the loop, its optimizers, its checkpoints, and crashes; Spec
        Curriculum   phases, token budgets, gradient accumulation; Spec
        Stages       the chain of training commands; Spec
        OnPolicy     GRPO, PPO, RLOO and distillation, step by step; Spec
        FineTuning   DPO and SFT over their data; Spec
        CodeReward   the reward host and the child that runs the tests; Spec
        DataPipeline the packed file, blocks, chats and batches; Spec
        Bpe          the byte-pair tokenizer: training, encoding with a heap; Spec
      TrainingParts_proofs, and DataPipeline_proofs of the last two
    Totals           sums of sequences, which Curriculum and OnPolicy use
    Router           learned routing to experts and its balancing bias; Spec
    MCScheduler, MCServing: instances for TLC
    MCParts          PagedKV, SpecDecode, RolloutBuffer, InferenceParts and RadixKV, side by
                     side, for TLC
    MCTraining       RolloutEngine, TrainingParts and Router, side by side

`X_proofs` holds the theorems about `X`. The modules under `InferenceParts` and
`TrainingParts` share no state. They meet in one module that gives each its own constants
and variables, so that TLC can run them side by side and the theorems can speak of the
same instances; a theorem there is about the `Spec` of one of them alone.

**PrefixCache** takes the SHA-256 key as collision free, so a key is the prefix itself,
and keeps the order of the `OrderedDict`. `LongestHit` is what the warm-up loop of
`_try_prefix_cache_warm` finds.

**Engine**. A KV cache is the sequence of tokens fed to the model, so that a token fed
twice, skipped or out of place shows in the state; `versions` are the weight versions
its rows were computed under; `logits` is the number of rows the last logits were
computed from. Sampling is any token: what the properties say does not depend on
which one. `Engine` has no next-state relation; `NewRequest`, `PrefillAndCommit`,
`DecodeSample`, `DecodeForward` and `DecodeGroupBatched` are the fragments the other
modules compose.

**Scheduler**. `tick()` is not one step: `cancel()` runs in another thread. It is cut
before the decode scan, around the forward of a single decode (`decode_step` reads
`state.finished` on both sides of it), between a cohort's forward and the reading of
its flags, and between the cancel check of a queued request and its chunk. `cancel()`
itself is its two writes. A step of a cohort is one action for all its members, as the
batched forward is. The order of cohorts in one tick is left open: they touch disjoint
requests. The client submits between two ticks, as a client that owns the scheduler
must.

**RolloutEngine** makes `generate_batch` out of the scheduler's actions: the first
request of a prompt, ticks until its prompt is in, the rest of its group, the next
group, then `run_until_done`. A request that does not fit raises, which abandons the
scheduler of the call. The trainer updates and syncs between calls.

**BatchingServer** has the loop thread, one handler thread per request, one thread per
weight sync, and the thread that calls `stop()`. An action ends wherever a thread
touches something another one writes: `put` and `set` of a submission are two steps, so
are `wait` and `clear` of the loop, binding a handle and looking at its cancel flag, and
the three steps of `RequestHandle.cancel()`. Every wait with a timeout can time out at
any moment: `next_token`, `result`, `run_control` and the loop's idle wait. A
speculative request is run to its end inside the drain, as in the code.

**RequestStream** is what clients are promised, one stream per request: it grows by
tokens within the budget, has nothing after end-of-sequence, and closes once -- complete
unless the client hung up -- or fails. **ServingRefinement** maps the server to it: what
was sent is what the handler has received followed by what waits in its queue.

**PagedKV** runs `append_tokens` one token at a time for every layer of a forward, with
the shared block map, an exhausted pool in the middle, and `free_table` one block at a
time. `fed` is a history variable: what a layer has appended for a request, the
reference for `gather`.

**RadixKV** keeps the tree as the code does: nodes with an edge, a count, a map from first
token to child, and a KV cache or none. A node is named by the prefix it was created
for; that the edges still spell this name after splits and evictions is the property
`TreeSpellsPrefixes`, not a convention. `Walk` serves `_walk` and `_descend_creating`,
which are the same loop; `last_use`, a counter, is kept as what it decides: `older`, the
pairs of nodes with a payload that it puts in this order. Requests prefill in chunks,
interleaved as in the scheduler, and commit when they are through.

**SpecDecode** takes the model as what greedy decoding makes of it: a sequence of
predictions, chosen at the start, that holds as long as the model is fed its own
predictions. After any other sequence it may predict anything, and so may the draft
heads, so a verification read at the wrong place would show. `Verify` is one iteration
of the loop over the drafts.

**RolloutBuffer** has one action per section under the lock. A waiting thread is woken by
a `notify_all`, not by the condition becoming true: `"waiting"` becomes `"again"` only
where the code notifies, and then the thread looks again. The producer's callable may
raise between any two adds.

**Attention** has no numbers: a key is its token and the position it was rotated by, a
pooled block the sequence of keys it averages, and the output of a layer the set of keys
and blocks its mask lets through. The four kinds of layer (sliding MQA, MLA, HCA, CSA)
are run by the forwards that inference makes: chunks, one token alone, a cohort of one
length, a ragged cohort padded on the left with its mask by columns. The score of CSA's
indexer is any order of the blocks. The reference is one forward over the whole text.

**Branches** keeps, per branch, the KV rows, the text the logits belong to, and what was
emitted and scored; rows of a branch that has ended go on, as a batch cannot lose a row.

**KVOffload** has one action per file. `mixed` records that a save failed between its two
files and that a reload used the pair: the caller's record of the old save with the arrays
of the new one, which nothing in the files tells apart.

**ToolRollout** follows `generate_with_tools`: sample until a call is closed or the turn
ends, feed what `decode_step` sampled but did not feed (it stops before the forward when
the request is finished), parse, execute, check the context, feed the result. KV rows are
positions of the transcript.

**Weights** keeps arrays as a value and an `id()`: ids are unique among the arrays alive and
may come back. `Quantize`, `Forward` (which packs lazily), a training step and a load of a
checkpoint are its actions.

**Router** is a mixture-of-experts layer with learned routes and `aux_free_bias_rate > 0`.
Scores count steps of that rate and are chosen anew in every forward, so nothing is assumed
of the weights. `Forward` routes and moves the bias; `Recompute` is the second run of a block
that `mx.checkpoint` makes for the gradient. Equal scores keep the order of their experts.

**Pretraining** keeps weights as the history of their updates (batch, learning rate, bias
correction, router bias) and an optimizer's slots as the gradients they absorbed, so
that a state can be compared with the run that made it. A save truncates its file and then
fills it; a process can be killed at any point, and is started again from the newest
file that loads, maybe with another optimizer, which `load_state_dict` refuses.

**Curriculum** has rows that differ in how many of their targets count, so uneven
microbatches and the edges of phases matter; the loss of a microbatch is the mean over its
targets and its gradient is linear in it.

**Stages** has one action per command, which fixes what it starts from, and the updates and
the save they share. A command may die before or inside its save; distillation may give up
early and still count all its steps.

**OnPolicy** gives each sample of a group the coefficient its log-probability has in the
gradient. GRPO and PPO centre a reward on the mean of the group, RLOO on the mean of the
others; under PPO's clip a sample of another version would have none; distillation takes
the samples above a threshold, and may give up.

**FineTuning** precomputes the reference log-ratio of every pair and walks the pairs with
slices of it; SFT walks shuffled epochs and stops on a loss that is not finite.

**CodeReward** runs the child beside the timeout: the solution, one test at a time, the
report. A response is the form its code comes in, what the code does when it is run, and what
it leaves for the exit of its process: a child that has printed its results can still hang
until it is killed, or exit with another code than 0, and both cost the reward. Code that
prints the marker of the runner itself is left out.

**DataPipeline** names every token by tokenizer, document and place, so that what an epoch
trains can be compared with what was packed; a tokenizer, which stands for the id in its
file, has none of the names the model gives to other tokens (`DataAssumption`). Saves are two writes, and the process may die
between them. **Bpe** is the heap of `_bpe_encode` over its doubly linked list, entry by
entry, with the trainer that learns the merges first; its reference is the rescan the
docstring names.

### What an abstraction leaves out

Tensor contents, sampling distributions, logging, ids and wording; the hit counters. The
configuration, tokenizer and runtime fields of a prefix key are equal for all requests of
one engine. Admission errors on `top_k` and friends behave like the context check. In
`Scheduler` a row's KV cache is its own in and after a ragged forward; that the padding and
the masks make it so is what `Attention` is about. Losses enter only where a property
needs them: as coefficients (`OnPolicy`), as a mean over targets (`Curriculum`).

## 3. Runs

Every passing run completes its state space. `CHECK_DEADLOCK FALSE` is set where the
system comes to rest once every request has been submitted and has ended, every call has
returned, or every bound is used up.

| Run | States | Question |
|---|---|---|
| `MCScheduler_safety` | 202 115 | Three requests, prompts that are equal or extend one another, a cache of one entry, chunks of two, ragged cohorts, submissions at any tick, cancels at any step: is every KV cache exact, is a request in one place, does a cancel stop it within one step, is every submitted request retired? |
| `MCServing_stream` | 803 016 | Two streaming handlers of one scheduler, each prefilled in two chunks unless it finds the other's prefix, decoded in one cohort where they meet, with budgets of two and one, every timeout and hang-up and `stop()` at any point: do streams keep their promise, is no cancel lost, no handle orphaned, no answer changed after it was given? |
| `MCServing_live` | 168 294 | A request in the scheduler, a speculative one, which runs to its end inside the drain or raises there, and a weight sync: is every request answered, and every queued sync run, also when its caller has given up, without counting on the idle timeout? |
| `MCParts` | 223 099 | Nine parts of inference, one per behaviour, below. |
| `MCTraining` | 183 693 | Ten parts of training, one per behaviour, below. |
| `MCServing_sync` | violation | see finding 1 |
| `MCServing_shutdown` | violation | see finding 2 |
| `MCParts_midedge` | violation | see finding 3 |
| `MCParts_tight` | violation | see finding 4 |
| `MCParts_tools` | violation | see finding 5 |
| `MCParts_tied` | violation | see finding 6 |
| `MCTraining_resume` | violation | see finding 7 |

`MCParts` and `MCTraining` put parts that share no state in one run: a behaviour picks one
and leaves the others in their initial states, so their states add up. Each part is its
module's own `Init` and `Next`; the run's `Parts` says which are looked at.

What the parts of `MCParts` ask:

- **speculation**: all models and drafts over two tokens, two heads, a budget of five: is
  the answer greedy decoding's (`AnswerIsGreedy`)?
- **paged**: two requests, three blocks of two rows, two layers, failures at every point:
  is every block free or in one place (`BlocksAccounted`), are rows what was appended
  (`GatherExact`)?
- **radix**: two requests, five prompts that branch after one and three tokens or end inside
  an edge, five nodes: do splits and evictions keep the tree right, does `match` find the
  longest stored prefix, does eviction take what it can (`TreeExact`), coldest first
  (`EvictsColdestLeaf`)?
- **buffer**: two places, runs of three samples, two starts: is no sample lost or repeated,
  does every drain return, with enough?
- **attention**: two requests of up to five tokens, a window, blocks and a stride that fit in
  them, four kinds of layer, every order of forwards: does a token attend to what it would
  alone, and is nothing counted twice (`AttentionExact`)?
- **offload**: a prompt of three, three saves at one path, two reloads, a failure at each
  write: does decoding go on from the whole text (`ResumesWhole`)?
- **tools**: three turns with results of one, two or four tokens in a context of nine: is every
  token sampled after the whole transcript (`TranscriptExact`)?
- **weights**: a tied head and an expert, four modes, four ids: does a forward use the weights
  the model holds (`ForwardIsCurrent`)?
- **branches**: two branches, budgets of none to five, three rounds: does each branch end and
  score as it would alone (`BranchesExact`)?

What the parts of `MCTraining` ask:

- **rollouts**: five requests in three batches with two groups each at most, one request that
  does not fit, two weight updates: does a group prefill once, is every sample complete and
  on policy, are budget and context respected (`LimitsKept`), does every call return, with or
  without an error?
- **pretraining**: five steps of two batches an epoch, a save every two, three optimizers, two
  crashes: do weights, moments, schedule and step belong together, in the process and in
  every file that loads (`LineageExact`)?
- **curriculum**: two phases that end inside an epoch or by the step cap, rows with targets of
  different number, two microbatches (`CurriculumExact`).
- **stages**: three commands on two directories and two tokenizers: is every file of one
  tokenizer, with the step it was trained to, and does nothing decode with activation
  checkpointing on (`StagesCompose`)?
- **on-policy**: groups of three with rewards that tie or differ, four algorithms, three
  steps: is each update on policy, are all made (`UpdatesExact`), are the coefficients of a
  group fair, whatever the constant in its rewards (`AdvantagesFair`)?
- **tuning**: every file of up to three pairs that fit, fit truncated, or do not
  (`ReferencePassHolds`).
- **reward**: every form of a response, kind of solution, exit and pair of tests: is the reward
  what the tests earned, does it come (`RewardEarned`, `ScoreReturns`)?
- **data**: two documents packed twice for two tokenizers, crashes between the writes: is a run
  given tokens of its tokenizer, is an epoch exact (`DataExact`: `TokensOfTokenizer`,
  `EpochExact`)?
- **bpe**: three merges from every document of up to six bytes, every text of up to five: does
  the heap do what the rescans did, and lose nothing (`EncodeExact`)?
- **router**: one token a forward to two of four experts, any scores of up to two steps of the
  bias, with and without activation checkpointing: is an expert never left out of more than
  four forwards in a row (`NoExpertStarves`; three is too few)?

Bounds. `ContextLength` of 4 or 5, prompts of up to three tokens, chunks of one or two and
budgets up to three (four for a speculative request) give: prompts of one and of two chunks, partial and full warm
starts, cohorts that form and dissolve, requests that fit exactly and that do not. Two
tokens are enough to tell positions apart and to make end-of-sequence a choice. One
cache entry makes eviction happen at the second prompt. Each request and each sync
occurs once in a run. `MaxUpdates` bounds the weight versions; `Stoppable` says whether
a run includes `stop()`. Three blocks for two requests of up to four tokens each make the
pool run out in the first block, in the middle of a chunk and at a block boundary. The
radix tree has room for the root and four nodes, fewer than its prompts need, and edges of
up to four tokens, so that insertions split, evict one leaf or two, and leave split-points
behind. Speculation has two heads and a budget of five: rounds that accept none, one and
both drafts, a round cut by the budget, and a last token without verification; its context
leaves room for the drafts of the last round. In the rollout buffer a run adds more than
fits, so the producer waits; drains ask for none, one and as many as fit. A `min_count`
above `max_size` is not among them: both sides would wait for each other, and nothing says
what should happen. Five tokens of attention give a token a whole block behind its window, a
block that reaches into it, and both for two requests of different lengths in one cohort. In
`Pretraining` two batches an epoch, a save every two steps and a warm-up of two put crashes
before, in and after an epoch's end, a save and the end of the warm-up. In `Stages` three commands are
enough for a file to be built on a file that was built on another. Three merges are enough
for a merge of merges and for overlapping pairs; six bytes for a pair that occurs twice and
overlaps itself. `MaxCrashes`, `MaxSaves`, `MaxReloads`, `MaxPacks`, `MaxStages` and
`MaxAttempts` bound what else could go on for ever.

Fairness. `Spec` of the scheduler assumes that whoever owns it keeps ticking while there is
work, which is what `run_until_done` and the loop do. `RolloutSpec` assumes that a call,
once made, runs on; not that the trainer makes one. `ServerSpec` assumes that threads
that can run do run: the loop, a handler in the middle of `submit` or `cancel`, a sync in
the middle of `run_control`. It assumes nothing of clients (they may never read, never
hang up), of timeouts, of `stop()`, or of the loop's idle timeout -- so the liveness
properties show that no wake-up is lost, where the 50 ms timeout would hide it. The same
holds of `RolloutBuffer`: the producer and a trainer inside `drain` go on when they can,
timeouts are never counted on. Weak fairness of the whole loop step is right because the
loop is one thread with, at every point, one thing to do. `CodeReward` assumes it of the
host, whose `subprocess.run` kills the child when its time is over, and nothing of the
child, which may loop for ever: here the timeout is counted on, as it is what the code has
against such a child.

Each property of a passing run has a mutant: an operator in the same module, `Mutant of
X`, which TLC must find out when it replaces `X`. The type invariants (`SchedulerTypeOK`,
`TypeOK`, ...) state what the variables hold; those of the modules with proofs are theorems.

## 4. Findings

1. **A weight sync does not keep stale rows out of the prefix cache**
   (`MCServing_sync`, `PrefixCacheFresh`). `rl/rollout.py:247-249` promises that after a
   load "the server clears its prefix cache so the next rollout reflects the updated
   policy". The control action runs between two ticks. A request with one chunk in and
   one to go keeps its rows; its next chunk completes the prompt, and
   `commit_prefix_cache` (`inference/engine.py:282`) stores a prefix whose first rows
   are of the old weights. Every later request with that prompt starts from it.
2. **`stop()` leaves queued requests waiting** (`MCServing_shutdown`,
   `ShutdownAnswersAll`). `inference/serving.py:273`: "Shutdown: fail anything still in
   flight so waiters don't hang." Only tracked handles are failed. A submission put in
   `_pending` after the last drain -- `submit` checks `_running` first, and puts later --
   is never looked at, and its handler waits for its own timeout.

3. **A radix match inside an edge skips tokens** (`MCParts_midedge`, `PrefillExact`).
   With `[a, a]` and `[a, a, a, a]` stored, a request for `[a, a, a, b]` walks to the node of
   `[a, a]` and one token into the edge below. `_walk` returns that node with a count of
   three (`inference/radix_cache.py:173`), and `match`, which corrects the count only when
   it climbs, reports three tokens with a KV cache of two. `new_request` takes all three as
   prefilled: the third is never fed to the model, later tokens sit one position early, and
   the commit stores the short KV cache for everyone else. The docstring
   (`radix_cache.py:89`) promises count and KV of "the deepest stored prefix".
4. **Speculation refuses requests that plain decoding answers** (`MCParts_tight`,
   `LegalCallAnswers`). `model.py:325-326`: "the result is bit-identical to plain greedy".
   The verify forward takes the output and all drafts (`model.py:362`), also those beyond
   the budget. With two heads or more, a request that passes the context check with little
   room left raises in that forward (`model.py:253-254`).

5. **A tool rollout can exceed its context** (`MCParts_tools`, `RolloutFits`). The check in
   front of a result (`rl/rollout.py:194-198`) adds the prefilled prompt, the sampled tokens
   and this result. The results of earlier turns are in the KV cache too and in none of the
   three. With a second result the model can raise "input sequence exceeds
   config.context_length" (`model.py:254`) where the check should have ended the rollout;
   `src/refs/PYTHON_TYPE_THEORY_STYLE.md:261` asks that "total cached context length stays
   within `context_length`".
6. **Training unties tied weights** (`MCParts_tied`, `TieHolds`).
   `src/course/01-backbone/README.md:31` has the head "weight-tied to `Embed`", and
   `tie_weights` is on by default. The tie is one array under two paths of the parameters.
   A comment in the constructor (`model.py:153-154`) says why it is made last: an update
   "re-allocates leaves, so an earlier alias to tok_emb.weight would be silently broken".
   Every optimizer step is such an update (`training/pretrain.py:212`,
   `training/grpo.py:216`), with a gradient for each path of its own.
7. **Resume is not exact** (`MCTraining_resume`, `ResumeIsExact`).
   `src/course/09-pretraining/README.md:18`: "checkpointing with exact resume". Weights,
   optimizer, schedule and step come back (`LineageExact` holds), but the loop begins at the
   first batch of the first epoch, so the data of the interrupted epoch is trained twice, or
   never, and the balancing bias of the routers, which no checkpoint has, starts at zero.

Beside these, some things the code does that a user may not expect, and that the properties
are worded around.

- The radix cache's "``capacity_nodes`` bounds the total number of nodes (including internal
  split-points)" (`radix_cache.py:63`) holds only for leaves with a payload: a split-point
  whose branches were both evicted stays, can be split again, and counts, so the tree may
  outgrow its capacity, and long before that every new prefix is evicted by its own
  insertion (`EvictsWhatItCan`, a part of `TreeExact`, is what holds).
- `drain` with a `min_count` above `max_size` waits for ever, as does its producer, unless it
  has a timeout.
- A packed weight is found again by the `id()` of its array. Two loads between two forwards
  can give a new array the id of the packed one, and the next forward uses the weights of
  two loads ago; `ForwardIsCurrent` leaves this case out (`replaced <= 1`, where
  `replaced` counts the updates since a forward multiplied by the weight the linear held).
- `apply_weight_quantization(model, "none")` returns before it looks at a layer
  (`quantization/weights.py:22`), so the benchmark that ends by "resetting it to ``none``"
  (`inference/bench.py:119-120`) leaves the model quantised.
- `reload_request` builds a request that has generated nothing: it may generate
  `max_new_tokens` more. And its arguments carry what the files do not (`prefilled`,
  logits), so a save that failed after its arrays leaves new rows to an old record.
- A packed file's manifest has a `tokens_sha256` that nobody compares; a crash between the
  two writes gives new tokens an old manifest (`torn` in `TokensOfTokenizer`).
- With `activation_checkpoint` a block runs twice in a training step (`model.py:263-275`), and
  its router moves its bias both times (`moe.py:133-134`). The second run chooses with the
  bias the first one moved, so near a tie the gradient is taken through other experts than
  the loss was computed with, and the second move can undo the first: TLC finds behaviours
  in which an expert is never used by a forward again. `NoExpertStarves` leaves
  `activation_checkpoint` out. The biases are also never centred: where more experts are
  below the mean than above it they all drift up, and in `bf16` (`moe.py:99`) a large bias
  swallows the scores; numbers of that size are not modelled.
- `decode_step_batched` emits one token for a budget of none.
- The prompts of `rl/code_tasks.py:122` open a code fence; a response that closes it, as it
  should, has one fence, which `extract_python_code` does not match, and the code is run with
  the fence in it (`"closing"` in `CodeReward`, which never earns a reward).

The in-process rollout engine is not affected by the first finding: it never syncs during a
call (`SamplesOnPolicy`, which is also the theorem `RolloutsOnPolicy`).

## 5. Proofs

Eight modules hold theorems; `PROJECT.json` lists those a reader should know of, with the
property each states. They assume of the constants what the `ASSUME`s
of the modules say, which TLC evaluates on every instance, and nothing of the runs' bounds
beyond what is named below.

`SmallParts_proofs` proves of `SpecDecode`, for every vocabulary, model, prompt, budget, context and number
of heads (`SpecAssumption` only): `SpecTypeCorrect` (`CallSpec => []SpecTypeOK`),
`SpeculationIsGreedy` (`CallSpec => []AnswerIsGreedy`) and `VerifiedRoundsGain`
(`CallSpec => RoundsGain`). The inductive invariant adds to them that the output is
greedy at every step, and so is the output with what the round has accepted (`Round`): a
draft is looked at only when all before it agreed, so the model's verification is its
greedy prediction (`NextPrediction`), and what is kept is that prediction, whether it is
the draft or its correction. That calls end is model-checked only.

Of `RolloutBuffer` it assumes `BufferAssumption` and proves `BufferConserves`
(`BufferSpec => []SamplesConserved`) and `BufferDrainsEnough` (`BufferSpec => DrainsEnough`).
`BufferInv` is `SamplesConserved` with what the places of both threads know; the samples are
numbered by their adds, so that "none lost, none twice, none out of order" is that the
drained ones and the buffered ones are the first so many numbers.

Of `PagedKV` it proves, for every set of requests, number of layers and blocks, block
size and set of chunks (`PagedAssumption` only):

- `PagedTypeCorrect`: `Spec => []TypeOK`;
- `BlocksConserved`: `Spec => []PoolPartition`;
- `TablesDisjoint`: `Spec => []NoAliasing`, and with it `PoolAccountedFor`:
  `Spec => []BlocksAccounted`;
- `RowsNeverOverwritten`: `Spec => []GatherExact`.

The inductive invariant is `Inv == PoolInv /\ Recorded /\ InProgress`. `PoolInv` (types,
where an operation can be, partition, no aliasing) is inductive on its own: a block
popped from the free list was not allocated, hence in no table; `FreeBlock` moves a block
whose only holder gives it up in the same step -- which is why `NoAliasing` speaks of
`Held` entries, those of a table under `free_table` that are not yet returned, and
not of whole tables. `GatherExact` is not inductive: it says nothing of the rows an
append has written but not yet recorded, which `EndLayer` turns into recorded ones.
`InProgress` says what they hold. `Recorded` restates `GatherExact` row by row with the
fact that the table covers every recorded position. The heart is `RowsKept`: a write
into a cell of one request's position leaves every other position's row alone, because
two positions with one cell would be two held entries with one block, or one entry and
one offset, hence one position (`PlaceIsUnique`).

`Scheduler_proofs` proves, for every set of requests, prompts, vocabulary, budgets, chunk
size, context length and cache capacity (`EngineAssumption`, `SchedulerAssumption` and
`PrefixCapacityAssumption`), and for the grouped and the ragged decode step alike:

- `SchedulerTypeCorrect`: `Spec => [](EngineTypeOK /\ SchedulerTypeOK)`;
- `NothingFedTwice`: `Spec => []KVExact`;
- `LogitsCurrent`: `Spec => []DecodeReady`;
- `AdmissionSuffices`: `Spec => []ContextRespected`, and `BudgetsKept`:
  `Spec => []GenerationBounded`; together `LimitsAlwaysKept`: `Spec => []LimitsKept`;
- `OnePlaceAtATime`: `Spec => []OnePlace`;
- `CachedPrefixesExact`: `Spec => []PrefixCacheExact`;
- `CancelTakesEffect`: `Spec => CancelStops`.

The inductive invariant `Inv` has one part per question, and the lemma of each part
(`TypeStep`, `PhasesStep`, ...) uses the others only in the state before the step:

- `TypeInv`, and `Phases`: what each point of the tick knows of the variables that are
  locals of `_decode_step` and `_prefill_step` (no cohort outside the decode step, one
  request in it when the group is fed one by one, ...).
- `Places`: a request waits in one queue once, or is in one of the sets of the decode
  step, and then it is submitted and not yet retired. `OnePlace` counts occurrences, which
  does not survive a step on its own: `Placed` says the same pairwise.
- `PrefixCacheExact`: an entry's snapshot is its key. Needed for a warm start.
- `KVInv`: what the KV cache of a request holds at each place. `KVExact` says nothing of
  the middle of a decode step, where members of a cohort have sampled a token and not fed
  it (`Short`); the invariant tells that state from `Whole` by the point of the tick.
- `BoundInv`: what has been generated is within the budget, with no end-of-sequence
  before its last token; `Open` and `Len(gen) < MaxNew` for the active ones are what
  makes the next token admissible. With `KVInv` it gives `ContextRespected`.
- `CancelledLater`: a request that was not submitted has no flag to set.

The step lemmas are about `CoreStep` -- the steps of `Next`, with a submission between
two ticks and a cancellation at any moment -- and not about `Next`, so that they serve the server and
the rollout engine, whose threads submit and cancel between the same steps.

`RolloutEngine_proofs` carries `Inv` over to the scheduler under `generate_batch`, which never
cancels and starts on a scheduler of its own. `RolloutInv` adds where each request of the
call is (`Calls`, `Queued`, `Members`: what was submitted is in the scheduler or finished, and
nothing else is). The theorems are `RolloutsOnPolicy` (`RolloutSpec => []SamplesOnPolicy`):
weights change only between calls, when no request and no prefix of an older version is
left, so the rows of a running batch have one version; `RolloutsComplete`, `RolloutsFit` and
`PromptsPrefillOnce` (`RolloutSpec => GroupPrefillsOnce`). The last assumes
`PrefixCapacity > 0`, which the cache's constructor demands (0 stands for an engine without
one), and has an invariant of its own
(`GroupInv`): from the commit of a group's first prompt to the end of the group nothing else
prefills, and only a commit evicts.

`BatchingServer_proofs` does the same for the serving loop. `ServerInv` is `Inv` (the scheduler
is ticked by the loop, and cancelled from the handlers), `Loops` (what each point of the
loop knows of its locals) and `Handles`, four relations of a request, one for each pair that
must agree across threads: `Staged` (handler and pending queue), `Sent` (what is streamed
and what is generated), `Cancels` (the two flags of a cancel and the place where the loop
looks at them) and `Owned` (tracked handles and the scheduler's queues). From it follow
`CancelsArrive` (`ServerSpec => []CancelNotLost`), `NoneOrphaned` (`[]NoOrphan`),
`AnswersFrozen` (`AnswerFrozen`), and `StreamsRefine`: `ServerSpec => StreamsKeepPromise`, which
is that the server implements `RequestStream` for every request under the mapping of
`ServingRefinement`, the initial states and every step. It covers speculative requests, whose
streams `MCServing_stream` leaves out for the size of its state space; `MCServing_live` has one.

`RadixKV_proofs` proves, for every set of requests and prompts, prefill chunk and capacity
(`RadixAssumption` only): `RadixTypes` (`TreeSpec => []RadixTypeOK`), `RadixTreeExact`
(`TreeSpec => []TreeExact`) and `RadixEvictsColdest` (`TreeSpec => EvictsColdestLeaf`).

- The heart is `TreeShape`, which says of every edge that it leads from a name to a longer
  one, begins with the token it is kept under, and holds the tokens in between. From it,
  by a shortest counterexample: there is no node in the middle of an edge (`Path`), a node
  has one parent (`OneParent`), and so the edges spell the names (`ShapeSpells`).
- Walk, climb and eviction are recursive functions over the tree. `Loop` shows, by induction
  over a set of numbers (`Upwards`), that a loop whose rank falls defines a function and
  what its equation is; the rank of the walk is what is left of the prompt, of the climb the
  number of shorter nodes, of the eviction the nodes that are left. `WalkDeepest` and
  `ClimbEnds` then take least counterexamples, and `ShapeMatches` puts them together.
- `SplitShape`, `LeafShape`, `StoringShape` and `WithoutSheds` say that each change keeps the
  shape; `Grows` and `Shrinks` say what an insertion and an eviction leave alone.
- `EvictsColdestLeaf` is not obvious where a node stops being a leaf in the step that
  evicts: then the insertion added the target below it and nothing else. If the target stays,
  the node is no leaf afterwards; and a tree that has a leaf to spare is not above its
  capacity (`EvictsWhatItCan`), so that if the target goes, nothing else does. That is why
  `RadixInv` has `EvictsWhatItCan` in it.
- A request that counts tokens as prefilled holds rows (`RequestOK`): what it inserts is a
  payload. That it holds a row for each of them (`PrefillExact`) is false, see finding 3.

`InferenceParts_proofs`, one section for each part:

- `TokensAttendAsAlone` (`AttentionExact`), for any window, blocks, top-k, context, kinds of
  layer and order of scores. `AttentionInv` says that a request's keys are those of its
  text, and what its tokens saw is what they see in one forward over it. The core is
  `SameAttend`: what a query sees does not depend on keys behind it, for CSA because a block
  in front of the window is beaten only by other such blocks (`SameBetter`). `RaggedStep` is
  the padded cohort: its keys end in the row's own, and its columns are the row's positions,
  shifted. That far and near are disjoint and leave fewer than a block out is then a fact
  about one text (`FarNearPositions`, `HcaFew`), by counting positions.
- `BranchesAreIndependent` (`BranchesExact`): a branch that goes on has emitted one token a
  round, and its row is the prompt and these.
- `ToolTranscriptsExact` (`TranscriptExact`): the KV cache lags behind the transcript only
  where nothing is sampled again -- the budget is used up, or the turn ended without a call.
- `ReloadedRequestsWhole` (`ResumesWhole`): unless files of two saves have met (`mixed`), the
  process's rows and, at each point of a save, what is on disk are whole texts.
- `ForwardsAreCurrent` (`ForwardIsCurrent`): after one update the key of a packed copy differs
  from the weight's, since the new array is alive beside the old one.

`TrainingParts_proofs`:

- `LineageNeverBreaks` (`LineageExact`): `RunInv` has the process and every whole file of one
  history, `Made`. An optimizer's slots are a fold over the gradients; the proof needs only
  what one more gradient does to them.
- `ChainsCompose` (`StagesCompose`): `ChainInv` relates the command under way and each file;
  `CountedFrom`, the last update that began a count, is the greatest element of a set.
- `CurriculumIsExact` (`CurriculumExact`): the budgets follow from what one batch adds. For the
  loss, `SplitEnds` says that the microbatches follow one another from the first row to the
  last, `StretchOfRows` that their targets and losses are differences of two running sums, so
  that by `FractionStep` what is accumulated up to a microbatch is the mean over the rows so
  far; a microbatch without a target has no loss, which is why the zero of its mean is harmless.
- `UpdatesStayOnPolicy` (`UpdatesExact`): one version in policy, engine and samples wherever an
  update is made, for groups of any size the trainers accept: two and more, or one where only
  distillations are run. It assumes that distillation's attempts are at least its steps, as
  `distill.py` sets them (`max(4 * max_steps, 20)`).
- `AdvantagesAreFair` (`AdvantagesFair`): `TotalOfScaled` gives the sum of the centred rewards;
  PPO's clip leaves every coefficient of an update alone because the versions agree, which
  takes the invariant of `UpdatesStayOnPolicy`, and RLOO's baseline comes to the centred rewards.
- `ReferencePassIsEnough` (`ReferencePassHolds`), for any file of pairs.
- `RewardsAreEarned` (`RewardEarned`), for any number of tests, and for code that does not
  itself print the runner's marker: the child's results are a prefix of the verdicts, a clean
  exit comes after all of them, and each other way it ends, before its results are printed or
  after, is one of the host's cases.

`DataPipeline_proofs`:

- `DataIsExact` (`DataExact`), for any tokenizers, documents, chats, block and batch sizes. What
  is packed is a stream (`IsStream`): of one tokenizer, and each token the next of its document
  or the first of the next document, so that places increase and none comes twice
  (`PlacesIncrease`). The rows of a file cut its first `U * B` tokens, place `(r - 1) * B + k`
  for token `k` of row `r`, which is one to one (`PlaceOfRow`, `RowOfPlace`). `DataInv` says
  what the files hold wherever a save can die (`FilesMatch`) and, inside an epoch, that the
  order is without repetition and what is trained are the pairs of the rows it does not hold
  any more, each once (`TrainedOn`, kept by `BatchTrains`); that the order starts with all rows
  is the pigeonhole of `OrderHasAll`. A chat is one row, and its pairs are exact when it is
  made (`ChatRowExact`). `FlattenIs` and `FlattenChain` are what the proofs need of flattened
  sequences.

- `EncodingIsExact` (`EncodeExact`), for any alphabet, document, text, number of merges and
  least count: what the heap yields is what the rescans for the first learnt merge would, and
  it spells the text. `BpeInv` says of the encoding that the living positions, linked by
  `prev` and `nxt`, are a sequence `pos` in rising order; that the heap has an entry for every
  ranked pair of neighbours, and may have stale ones; that the tokens at `pos` spell the text;
  and that merging on from them ends where merging on from the text does. The step that
  counts: the least entry that is not stale is the leftmost place of the first learnt merge in
  the living tokens, and to merge that place first changes nothing, because one pass of the
  definition merges it first anyway. Of the training it says that no pair learnt is left in
  the document, so that no pair is learnt twice and a rank names one merge.

Model-checked only, and why:

- liveness (`EveryRequestRetires`, `Answered`, `SyncRuns`, `CallReturns`, `ScoreReturns`,
  `DrainReturns`): fairness and `ENABLED` are out of the prover's reach;
- `NoExpertStarves`: holds for the `Patience` of the run and is false for a smaller one, so
  there is no statement for every value to prove.

## 6. Not modelled, and the plan

Next, in this order:

1. `PagedEngine`: the life cycle of paged requests on top of `PagedKV`: retirement and
   exceptions -- where blocks leak, and where an exhausted pool ends the loop.
2. `LoopLifecycle`: `start` after a `stop` whose join timed out.

Left out for good: tensor arithmetic (losses, kernels, experts, hyper-connections,
quantisation itself, vision), which TLC cannot enumerate and whose errors are numeric;
parsing, validation and reports of the command line; evaluation and benchmarks, which read
and print; text filters and downloads; the arithmetic reward functions; telemetry and
metrics files; and the course material in `src/course/`.
