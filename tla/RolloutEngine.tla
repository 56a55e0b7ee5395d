--------------------------- MODULE RolloutEngine ---------------------------
(***************************************************************************)
(* InProcessRolloutEngine (rl/rollout.py) under the on-policy trainers     *)
(* (training/grpo.py, rloo.py, ppo.py, distill.py).  A call of             *)
(* generate_batch makes a fresh scheduler on the engine it keeps, submits  *)
(* the requests group by group -- the first request of a prompt alone,     *)
(* the others once its prompt is in the prefix cache -- and ticks until    *)
(* all are done.  Between two calls the trainer updates the weights and    *)
(* calls sync_weights.                                                     *)
(***************************************************************************)
EXTENDS Scheduler

CONSTANTS
    Batches,        \* the batches a trainer may ask for: sequences of requests
    MaxUpdates      \* bound: how often the weights are updated

ASSUME RolloutAssumption ==
    /\ Batches \subseteq Seq(Request) \ {<<>>}
    /\ \A batch \in Batches : \A i, j \in DOMAIN batch : batch[i] = batch[j] => i = j
    /\ MaxUpdates \in Nat

VARIABLES
    call,       \* where generate_batch is; "idle" when it is not running
    left,       \* the requests of the call that are not yet submitted
    batch,      \* the requests of the call that are
    leader,     \* the first request of the group being submitted
    trainer,    \* "stale" between an optimizer update and sync_weights
    sampled     \* the requests whose sample was returned to the trainer

rolloutVars == <<call, left, batch, leader, trainer, sampled>>
allVars == <<vars, rolloutVars>>

RolloutInit ==
    /\ Init
    /\ call = "idle"
    /\ left = <<>>
    /\ batch = {}
    /\ leader = NoRequest
    /\ trainer = "synced"
    /\ sampled = {}

GenerateBatch(requests) ==
    /\ call = "idle"
    /\ trainer = "synced"
    /\ \A i \in DOMAIN requests : requests[i] \notin submitted
    /\ call' = "groups"
    /\ left' = requests
    /\ UNCHANGED <<vars, batch, leader, trainer, sampled>>

SubmitLeader ==
    /\ call = "groups"
    /\ left # <<>>
    /\ Admissible(Head(left))
    /\ Submit(Head(left))
    /\ call' = "prefill"
    /\ leader' = Head(left)
    /\ left' = Tail(left)
    /\ batch' = batch \cup {Head(left)}
    /\ UNCHANGED <<trainer, sampled>>

\* Mutant of LeaderReady: the prompt of the leader is not waited for.
LeaderSubmitted == tick = "idle"

\* The loop that ticks while the leader prefills is over.
LeaderReady == tick = "idle" /\ RemainingPrefill(leader) = 0

\* The positions in left of the other requests of the leader's group.
GroupLeft == {i \in DOMAIN left : Prompt[left[i]] = Prompt[leader]}

NextInGroup == CHOOSE i \in GroupLeft : \A j \in GroupLeft : i <= j

SubmitFollower ==
    /\ call = "prefill"
    /\ LeaderReady
    /\ GroupLeft # {}
    /\ LET r == left[NextInGroup]
       IN  /\ Admissible(r)
           /\ Submit(r)
           /\ batch' = batch \cup {r}
    /\ left' = SubSeq(left, 1, NextInGroup - 1) \o SubSeq(left, NextInGroup + 1, Len(left))
    /\ UNCHANGED <<call, leader, trainer, sampled>>

EndGroup ==
    /\ call = "prefill"
    /\ LeaderReady
    /\ GroupLeft = {}
    /\ call' = "groups"
    /\ leader' = NoRequest
    /\ UNCHANGED <<vars, left, batch, trainer, sampled>>

\* submit raises ValueError: the call ends, and its scheduler with its queues is
\* never used again.
Reject ==
    /\ \/ call = "groups" /\ left # <<>> /\ ~Admissible(Head(left))
       \/ /\ call = "prefill" /\ LeaderReady
          /\ GroupLeft # {} /\ ~Admissible(left[NextInGroup])
    /\ prefillQueue' = <<>>
    /\ decodeQueue' = {}
    /\ call' = "idle"
    /\ left' = <<>>
    /\ batch' = {}
    /\ leader' = NoRequest
    /\ UNCHANGED <<engineVars, tick, stillPrefilling, chunking, active, cohort, nextDecode,
                   submitted, retired, trainer, sampled>>

\* Mutant of BeginTick: run_until_done looks at the prefill queue only.
BeginTickPrefillOnly ==
    /\ \/ call = "prefill" /\ RemainingPrefill(leader) > 0
       \/ call = "groups" /\ left = <<>> /\ prefillQueue # <<>>
    /\ DecodeScan
    /\ UNCHANGED rolloutVars

\* A tick begins: while the leader prefills, and in run_until_done.
BeginTick ==
    /\ \/ call = "prefill" /\ RemainingPrefill(leader) > 0
       \/ call = "groups" /\ left = <<>> /\ HasWork
    /\ DecodeScan
    /\ UNCHANGED rolloutVars

RunTick ==
    /\ TickStep
    /\ UNCHANGED rolloutVars

\* Mutant of Return: the samples are built before run_until_done.
ReturnEarly ==
    /\ call = "groups"
    /\ tick = "idle"
    /\ left = <<>>
    /\ call' = "idle"
    /\ sampled' = sampled \cup batch
    /\ batch' = {}
    /\ UNCHANGED <<vars, left, leader, trainer>>

\* run_until_done has no work left; _build_sample of every state.
Return ==
    /\ call = "groups"
    /\ tick = "idle"
    /\ left = <<>>
    /\ ~HasWork
    /\ call' = "idle"
    /\ sampled' = sampled \cup batch
    /\ batch' = {}
    /\ UNCHANGED <<vars, left, leader, trainer>>

\* model.update(optimizer.step(...)) between two calls.
Update ==
    /\ call = "idle"
    /\ trainer = "synced"
    /\ weights < MaxUpdates
    /\ weights' = weights + 1
    /\ trainer' = "stale"
    /\ UNCHANGED <<requestVars, prefixCache, schedulerVars, call, left, batch, leader, sampled>>

\* Mutant of Sync: the prefix cache is not cleared.
SyncKeepsCache ==
    /\ trainer = "stale"
    /\ trainer' = "synced"
    /\ UNCHANGED <<engineVars, schedulerVars, call, left, batch, leader, sampled>>

\* sync_weights: the prefix cache is cleared.
Sync ==
    /\ trainer = "stale"
    /\ prefixCache' = <<>>
    /\ trainer' = "synced"
    /\ UNCHANGED <<requestVars, weights, schedulerVars, call, left, batch, leader, sampled>>

EngineStep ==
    \/ SubmitLeader
    \/ SubmitFollower
    \/ EndGroup
    \/ Reject
    \/ BeginTick
    \/ RunTick
    \/ Return

RolloutNext ==
    \/ \E requests \in Batches : GenerateBatch(requests)
    \/ EngineStep
    \/ Update
    \/ Sync

\* generate_batch is a plain call: once made it runs on.  The trainer may stop.
RolloutSpec == RolloutInit /\ [][RolloutNext]_allVars /\ WF_allVars(EngineStep)

----------------------------------------------------------------------------

\* The call under way, its batch and leader, and whether the trainer's weights have
\* been taken over, have their types (rollout.py).
RolloutTypeOK ==
    /\ EngineTypeOK
    /\ SchedulerTypeOK
    /\ call \in {"idle", "groups", "prefill"}
    /\ left \in Seq(Request)
    /\ batch \subseteq Request
    /\ leader \in Request \cup {NoRequest}
    /\ trainer \in {"synced", "stale"}
    /\ sampled \subseteq Request

\* Hazard: a prefix cached under older weights feeds a rollout after an update, so
\* that its samples and their log-probs are off policy.  The KV rows of a running
\* batch, and of every cached prefix it can start from, are of the current weights.
SamplesOnPolicy ==
    /\ \A r \in batch : versions[r] \subseteq {weights}
    /\ trainer = "synced" => PrefixCacheFresh

\* Hazard: the entry of the leader is evicted, or not yet committed, when the rest
\* of its group is submitted, and the group prefills its prompt again.  A request
\* submitted after another one of its call with the same prompt never prefills.
GroupPrefillsOnce ==
    [][\A r \in batch' \ batch :
          (\E s \in batch : Prompt[s] = Prompt[r]) => r \in decodeQueue']_allVars

\* Hazard: a sample is read before its request ended, or of a request that the
\* scheduler lost.  A returned sample was retired once and ended by its budget or
\* by end-of-sequence.
SamplesComplete ==
    \A r \in sampled :
        /\ finished[r] /\ retired[r] = 1
        /\ \/ Len(gen[r]) = MaxNew[r]
           \/ r \in StopsAtEos /\ gen[r] # <<>> /\ gen[r][Len(gen[r])] = Eos

\* Hazard: the loop that waits for the leader, or run_until_done, never ends (the
\* RuntimeError of max_ticks).  Every call returns, with samples or an error.
CallReturns == call # "idle" ~> call = "idle"

============================================================================
