------------------------------- MODULE Engine -------------------------------
(***************************************************************************)
(* Requests and the engine that runs them on a dense KV cache              *)
(* (inference/engine.py, cache.py, prefix_cache.py).  The module has no    *)
(* next-state relation: its operators are the action fragments that the    *)
(* scheduler and the servers put together.                                 *)
(*                                                                         *)
(* A KV cache is the sequence of tokens that were fed to the model, so     *)
(* that a token fed twice, skipped or out of place shows; beside it is the *)
(* set of weight versions its rows were computed under.  Logits are the    *)
(* number of KV rows they were computed from, 0 when there are none.  The  *)
(* token the model samples is any token.                                   *)
(***************************************************************************)
EXTENDS PrefixCache, FiniteSets

CONSTANTS
    Request,        \* the requests a run submits, each at most once
    Token,          \* the vocabulary
    Eos,            \* the end-of-sequence token, one of Token
    Prompt,         \* Prompt[r]: the prompt tokens of r
    MaxNew,         \* MaxNew[r]: options.max_new_tokens
    StopsAtEos,     \* the requests with options.eos_id set
    ContextLength,  \* config.context_length
    PrefillChunk    \* the scheduler's prefill_chunk

ASSUME EngineAssumption ==
    /\ Eos \in Token
    /\ Prompt \in [Request -> Seq(Token) \ {<<>>}]
    /\ MaxNew \in [Request -> Nat]
    /\ StopsAtEos \subseteq Request
    /\ ContextLength \in Nat
    /\ PrefillChunk \in Nat \ {0}

VARIABLES
    prefilled,      \* state.prefilled: prompt tokens already in the KV cache
    kv,             \* state.cache: the tokens fed to the model so far
    versions,       \* the weight versions the rows of kv were computed under
    logits,         \* state.last_logits: the KV rows they come from, 0 = None
    gen,            \* state.generated
    finished,       \* state.finished
    cancelled,      \* state.cancelled
    weights,        \* the version of the model's weights
    prefixCache     \* engine.prefix_cache

requestVars == <<prefilled, kv, versions, logits, gen, finished, cancelled>>
engineVars == <<requestVars, weights, prefixCache>>

PrefixEntry ==
    [prefix : Seq(Token), kv : Seq(Token), versions : SUBSET Nat, logits : Nat]

EngineInit ==
    /\ prefilled = [r \in Request |-> 0]
    /\ kv = [r \in Request |-> <<>>]
    /\ versions = [r \in Request |-> {}]
    /\ logits = [r \in Request |-> 0]
    /\ gen = [r \in Request |-> <<>>]
    /\ finished = [r \in Request |-> FALSE]
    /\ cancelled = [r \in Request |-> FALSE]
    /\ weights = 0
    /\ prefixCache = <<>>

RemainingPrefill(r) == Len(Prompt[r]) - prefilled[r]

RemainingDecode(r) == MaxNew[r] - Len(gen[r])

\* Mutant of Admissible: the budget is not counted.
AdmissiblePromptOnly(r) == Len(Prompt[r]) <= ContextLength

\* The checks of new_request (the ones on top_k reject in the same way).
Admissible(r) == Len(Prompt[r]) + MaxNew[r] <= ContextLength

\* new_request with _try_prefix_cache_warm: the request starts from a clone of
\* the longest cached prefix of its prompt, if there is one.
NewRequest(r) ==
    /\ IF PrefixCapacity > 0 /\ HitLengths(prefixCache, Prompt[r]) # {}
       THEN LET hit == LongestHit(prefixCache, Prompt[r])
            IN  /\ prefilled' = [prefilled EXCEPT ![r] = Len(hit.prefix)]
                /\ kv' = [kv EXCEPT ![r] = hit.kv]
                /\ versions' = [versions EXCEPT ![r] = hit.versions]
                /\ logits' = [logits EXCEPT ![r] = hit.logits]
                /\ prefixCache' = Touch(prefixCache, hit.prefix)
       ELSE UNCHANGED <<prefilled, kv, versions, logits, prefixCache>>
    /\ UNCHANGED <<gen, finished, cancelled, weights>>

\* The number of prompt tokens the next call of prefill_chunk feeds.
ChunkSize(r) ==
    IF finished[r] THEN 0
    ELSE IF RemainingPrefill(r) < PrefillChunk THEN RemainingPrefill(r) ELSE PrefillChunk

\* Mutant of ChunkedKv: every chunk starts at the first token of the prompt.
ChunkedKvFromStart(r) == kv[r] \o SubSeq(Prompt[r], 1, ChunkSize(r))

\* The KV cache after that call.
ChunkedKv(r) ==
    kv[r] \o SubSeq(Prompt[r], prefilled[r] + 1, prefilled[r] + ChunkSize(r))

\* prefill_chunk, then commit_prefix_cache once the whole prompt is in.
PrefillAndCommit(r) ==
    LET n == ChunkSize(r)
        fed == IF n = 0 THEN versions[r] ELSE versions[r] \cup {weights}
        rows == IF n = 0 THEN logits[r] ELSE Len(ChunkedKv(r))
    IN  /\ prefilled' = [prefilled EXCEPT ![r] = @ + n]
        /\ kv' = [kv EXCEPT ![r] = ChunkedKv(r)]
        /\ versions' = [versions EXCEPT ![r] = fed]
        /\ logits' = [logits EXCEPT ![r] = rows]
        /\ prefixCache' =
             IF PrefixCapacity > 0 /\ RemainingPrefill(r) = n
             THEN Put(prefixCache, [prefix |-> Prompt[r], kv |-> ChunkedKv(r),
                                    versions |-> fed, logits |-> rows])
             ELSE prefixCache
        /\ UNCHANGED <<gen, finished, cancelled, weights>>

\* Token t ends the generation of r: end of sequence, or the last one allowed.
EndsWith(r, t) ==
    \/ r \in StopsAtEos /\ t = Eos
    \/ Len(gen[r]) + 1 >= MaxNew[r]

\* The sampled tokens are appended to the requests in S.
Sample(S, token) ==
    /\ gen' = [r \in Request |-> IF r \in S THEN Append(gen[r], token[r]) ELSE gen[r]]
    /\ finished' = [r \in Request |->
                      finished[r] \/ (r \in S /\ EndsWith(r, token[r]))]
    /\ UNCHANGED <<prefilled, cancelled, weights, prefixCache>>

\* The model runs on one new token of every request in S, each row on its own
\* KV cache.
Forward(S, token) ==
    /\ kv' = [r \in Request |-> IF r \in S THEN Append(kv[r], token[r]) ELSE kv[r]]
    /\ versions' = [r \in Request |->
                      IF r \in S THEN versions[r] \cup {weights} ELSE versions[r]]
    /\ logits' = [r \in Request |-> IF r \in S THEN Len(kv[r]) + 1 ELSE logits[r]]

\* decode_step of a request that is not finished, up to its second test of
\* state.finished.
DecodeSample(r) ==
    \E token \in [{r} -> Token] :
        Sample({r}, token) /\ UNCHANGED <<kv, versions, logits>>

\* The rest of decode_step: no forward for a request that is finished by now.
DecodeForward(r) ==
    /\ IF finished[r]
       THEN UNCHANGED <<kv, versions, logits>>
       ELSE Forward({r}, [q \in {r} |-> gen[q][Len(gen[q])]])
    /\ UNCHANGED <<prefilled, gen, finished, cancelled, weights, prefixCache>>

\* decode_group_batched and decode_ragged_batched: one forward for every row,
\* finished ones included.
DecodeGroupBatched(group) ==
    \E token \in [group -> Token] : Sample(group, token) /\ Forward(group, token)

\* The two writes of RequestState.cancel(), in their order.
SetCancelled(r) ==
    /\ cancelled' = [cancelled EXCEPT ![r] = TRUE]
    /\ UNCHANGED <<prefilled, kv, versions, logits, gen, finished, weights, prefixCache>>

SetFinished(r) ==
    /\ finished' = [finished EXCEPT ![r] = TRUE]
    /\ UNCHANGED <<prefilled, kv, versions, logits, gen, cancelled, weights, prefixCache>>

\* New weights are loaded and the prefix cache is cleared.
SyncWeights ==
    /\ weights' = weights + 1
    /\ prefixCache' = <<>>
    /\ UNCHANGED requestVars

----------------------------------------------------------------------------

\* Per request and in the prefix cache, tokens, rows and weight versions have their types
\* (engine.py, prefix_cache.py).
EngineTypeOK ==
    /\ prefilled \in [Request -> Nat]
    /\ kv \in [Request -> Seq(Token)]
    /\ versions \in [Request -> SUBSET Nat]
    /\ logits \in [Request -> Nat]
    /\ gen \in [Request -> Seq(Token)]
    /\ finished \in [Request -> BOOLEAN]
    /\ cancelled \in [Request -> BOOLEAN]
    /\ weights \in Nat
    /\ prefixCache \in Seq(PrefixEntry)

============================================================================
