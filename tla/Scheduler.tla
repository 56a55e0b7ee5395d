----------------------------- MODULE Scheduler -----------------------------
(***************************************************************************)
(* RequestScheduler (inference/scheduler.py): one tick decodes one token   *)
(* for every decoding request, in cohorts that share a batched forward,    *)
(* and then prefills one chunk of every queued request.  A tick is cut     *)
(* where another thread's cancel() can come between two reads of a         *)
(* request's flags: before the decode scan, around the forward of a        *)
(* decode_step, before the flags read after a cohort, and around every     *)
(* prefill chunk.  Spec is the scheduler driven by a client that submits   *)
(* between ticks and cancels at any time.                                  *)
(***************************************************************************)
EXTENDS Engine

CONSTANTS
    Sig,        \* Sig[r]: the sampling parameters cohort members must share
    Ragged,     \* RequestScheduler(ragged=True) on an all-sliding_mqa model
    NoRequest

ASSUME SchedulerAssumption ==
    /\ Ragged \in BOOLEAN
    /\ NoRequest \notin Request

VARIABLES
    tick,            \* where the tick is; "idle" between two ticks
    prefillQueue,    \* _prefill_queue
    stillPrefilling, \* still_prefilling, local to _prefill_step
    chunking,        \* the request whose chunk _prefill_step is about to run
    decodeQueue,     \* _decode_queue; its order only orders cohorts in a tick
    active,          \* decoding requests whose cohort has not run in this tick
    cohort,          \* the cohort that ran and whose flags are not yet read
    nextDecode,      \* next_decode, local to _decode_step
    submitted,       \* the requests submit returned a state for
    retired          \* how often each request was appended to _completed

queueVars == <<prefillQueue, stillPrefilling, chunking, decodeQueue, active,
               cohort, nextDecode>>
schedulerVars == <<tick, queueVars, submitted, retired>>
vars == <<engineVars, schedulerVars>>

SchedulerInit ==
    /\ tick = "idle"
    /\ prefillQueue = <<>>
    /\ stillPrefilling = <<>>
    /\ chunking = NoRequest
    /\ decodeQueue = {}
    /\ active = {}
    /\ cohort = {}
    /\ nextDecode = {}
    /\ submitted = {}
    /\ retired = [r \in Request |-> 0]

HasWork == prefillQueue # <<>> \/ decodeQueue # {}

\* The first n tokens of the prompt of r are not all of it.
Incomplete(r, n) == n < Len(Prompt[r])

\* submit: the request joins the queue its warm start calls for.
Submit(r) ==
    /\ NewRequest(r)
    /\ IF Incomplete(r, prefilled'[r])
       THEN prefillQueue' = Append(prefillQueue, r) /\ UNCHANGED decodeQueue
       ELSE decodeQueue' = decodeQueue \cup {r} /\ UNCHANGED prefillQueue
    /\ submitted' = submitted \cup {r}
    /\ UNCHANGED <<tick, stillPrefilling, chunking, active, cohort, nextDecode, retired>>

\* _retire of every request in gone.
Retire(gone) ==
    /\ finished' = [r \in Request |-> finished[r] \/ r \in gone]
    /\ retired' = [r \in Request |-> IF r \in gone THEN retired[r] + 1 ELSE retired[r]]
    /\ UNCHANGED <<prefilled, kv, versions, logits, gen, cancelled, weights, prefixCache>>

\* The test for requests that decode no further, made before and after a cohort.
Done(r) == cancelled[r] \/ finished[r] \/ RemainingDecode(r) <= 0

\* _decode_step up to the grouping.
DecodeScan ==
    /\ tick = "idle"
    /\ Retire({r \in decodeQueue : Done(r)})
    /\ active' = {r \in decodeQueue : ~Done(r)}
    /\ tick' = "cohorts"
    /\ UNCHANGED <<prefillQueue, stillPrefilling, chunking, decodeQueue, cohort, nextDecode,
                   submitted>>

SameCohort(r, s) == Sig[r] = Sig[s] /\ (Ragged \/ Len(kv[r]) = Len(kv[s]))

Cohort(lead) == {r \in active : SameCohort(r, lead)}

\* _advance of a cohort of two or more requests.
AdvanceGroup(lead) ==
    /\ tick = "cohorts"
    /\ lead \in active
    /\ Cohort(lead) # {lead}
    /\ DecodeGroupBatched(Cohort(lead))
    /\ cohort' = Cohort(lead)
    /\ active' = active \ Cohort(lead)
    /\ tick' = "settle"
    /\ UNCHANGED <<prefillQueue, stillPrefilling, chunking, decodeQueue, nextDecode,
                   submitted, retired>>

\* _advance of a request that is alone in its cohort: decode_step does nothing
\* when the request was cancelled after the scan.
AdvanceAlone(r) ==
    /\ tick = "cohorts"
    /\ r \in active
    /\ Cohort(r) = {r}
    /\ IF finished[r]
       THEN tick' = "settle" /\ UNCHANGED engineVars
       ELSE tick' = "feed" /\ DecodeSample(r)
    /\ cohort' = {r}
    /\ active' = active \ {r}
    /\ UNCHANGED <<prefillQueue, stillPrefilling, chunking, decodeQueue, nextDecode,
                   submitted, retired>>

Feed ==
    /\ tick = "feed"
    /\ \E r \in cohort : DecodeForward(r)
    /\ tick' = "settle"
    /\ UNCHANGED <<queueVars, submitted, retired>>

\* Mutant of GoOn: the members that are done stay in the decode queue.
GoOnRegardless == cohort

\* The members of the cohort that decode on.
GoOn == {r \in cohort : ~Done(r)}

\* The flags of the cohort's members are read after its forward.
Settle ==
    /\ tick = "settle"
    /\ Retire({r \in cohort : Done(r)})
    /\ nextDecode' = nextDecode \cup GoOn
    /\ cohort' = {}
    /\ tick' = "cohorts"
    /\ UNCHANGED <<prefillQueue, stillPrefilling, chunking, decodeQueue, active, submitted>>

\* The decode queue becomes the requests that go on; _prefill_step begins.
DecodeEnd ==
    /\ tick = "cohorts"
    /\ active = {}
    /\ decodeQueue' = nextDecode
    /\ nextDecode' = {}
    /\ tick' = "prefill"
    /\ UNCHANGED <<engineVars, prefillQueue, stillPrefilling, chunking, active, cohort,
                   submitted, retired>>

\* Mutant of PrefillPop: the cancelled check is missing.
PrefillPopUnchecked ==
    /\ tick = "prefill"
    /\ prefillQueue # <<>>
    /\ prefillQueue' = Tail(prefillQueue)
    /\ chunking' = Head(prefillQueue)
    /\ tick' = "chunk"
    /\ UNCHANGED <<engineVars, stillPrefilling, decodeQueue, active, cohort, nextDecode,
                   submitted, retired>>

\* popleft and the cancelled check of _prefill_step.
PrefillPop ==
    /\ tick = "prefill"
    /\ prefillQueue # <<>>
    /\ prefillQueue' = Tail(prefillQueue)
    /\ IF cancelled[Head(prefillQueue)]
       THEN /\ Retire({Head(prefillQueue)})
            /\ UNCHANGED <<tick, chunking>>
       ELSE /\ chunking' = Head(prefillQueue)
            /\ tick' = "chunk"
            /\ UNCHANGED <<engineVars, retired>>
    /\ UNCHANGED <<stillPrefilling, decodeQueue, active, cohort, nextDecode, submitted>>

\* The chunk, the commit of a complete prompt, and the queue that comes next.
PrefillRun ==
    /\ tick = "chunk"
    /\ PrefillAndCommit(chunking)
    /\ IF Incomplete(chunking, prefilled'[chunking])
       THEN stillPrefilling' = Append(stillPrefilling, chunking) /\ UNCHANGED decodeQueue
       ELSE decodeQueue' = decodeQueue \cup {chunking} /\ UNCHANGED stillPrefilling
    /\ chunking' = NoRequest
    /\ tick' = "prefill"
    /\ UNCHANGED <<prefillQueue, active, cohort, nextDecode, submitted, retired>>

\* Mutant of StillPrefilling: the requests that still prefill are forgotten.
StillPrefillingLost == prefillQueue

\* What _prefill_step leaves in its queue.
StillPrefilling == stillPrefilling

\* _prefill_step, and the tick, end.
PrefillEnd ==
    /\ tick = "prefill"
    /\ prefillQueue = <<>>
    /\ prefillQueue' = StillPrefilling
    /\ stillPrefilling' = <<>>
    /\ tick' = "idle"
    /\ UNCHANGED <<engineVars, chunking, decodeQueue, active, cohort, nextDecode, submitted,
                   retired>>

\* Everything a tick does after it has begun.
TickStep ==
    \/ \E r \in Request : AdvanceGroup(r) \/ AdvanceAlone(r)
    \/ Feed
    \/ Settle
    \/ DecodeEnd
    \/ PrefillPop
    \/ PrefillRun
    \/ PrefillEnd

\* The client that owns the scheduler: a request is submitted between two ticks
\* and can be cancelled from any thread.
ClientSubmit(r) ==
    /\ tick = "idle"
    /\ r \notin submitted
    /\ Admissible(r)
    /\ Submit(r)

ClientCancel(r) ==
    /\ r \in submitted
    /\ ~cancelled[r]
    /\ SetCancelled(r)
    /\ UNCHANGED schedulerVars

ClientCancelEnd(r) ==
    /\ cancelled[r]
    /\ ~finished[r]
    /\ SetFinished(r)
    /\ UNCHANGED schedulerVars

Tick == HasWork /\ DecodeScan

Init == EngineInit /\ SchedulerInit

Next ==
    \/ Tick
    \/ TickStep
    \/ \E r \in Request : ClientSubmit(r) \/ ClientCancel(r) \/ ClientCancelEnd(r)

Spec == Init /\ [][Next]_vars /\ WF_vars(Tick \/ TickStep)

----------------------------------------------------------------------------

InSeq(r, seq) == \E i \in DOMAIN seq : seq[i] = r

Prefilling(r) == InSeq(r, prefillQueue) \/ InSeq(r, stillPrefilling) \/ chunking = r

\* Requests between two decode steps.  During a tick decodeQueue is the list the
\* tick began with, so the ones still decoding are in active or nextDecode.
Decoding(r) ==
    \/ r \in active \cup cohort \cup nextDecode
    \/ r \in decodeQueue /\ tick \in {"idle", "prefill", "chunk"}

\* The variables of a tick have their types: queues are sequences of requests, the decode
\* step's locals are sets of requests, retired counts deliveries (batched.py).
SchedulerTypeOK ==
    /\ tick \in {"idle", "cohorts", "feed", "settle", "prefill", "chunk"}
    /\ prefillQueue \in Seq(Request)
    /\ stillPrefilling \in Seq(Request)
    /\ chunking \in Request \cup {NoRequest}
    /\ decodeQueue \subseteq Request
    /\ active \subseteq Request
    /\ cohort \subseteq Request
    /\ nextDecode \subseteq Request
    /\ submitted \subseteq Request
    /\ retired \in [Request -> Nat]

\* Hazard: a chunk, a warm start or a batched forward that feeds the model a
\* token twice, skips one or feeds it out of order.  While a request prefills its
\* KV cache holds exactly the prompt tokens counted in prefilled; while it decodes
\* the cache is its prompt and all it generated, but for the last token while it
\* is sampled and not yet fed, and of a request that ended in a step of its own.
KVExact ==
    \A r \in Request :
        /\ Prefilling(r) => kv[r] = SubSeq(Prompt[r], 1, prefilled[r])
        /\ Decoding(r) =>
             \/ kv[r] = Prompt[r] \o gen[r]
             \/ /\ finished[r] \/ (tick = "feed" /\ r \in cohort)
                /\ gen[r] # <<>>
                /\ kv[r] = Prompt[r] \o SubSeq(gen[r], 1, Len(gen[r]) - 1)

\* Hazard: sampling from logits that are missing or older than the KV cache (the
\* RuntimeErrors of decode_step).  A request that may be sampled has its whole
\* prompt prefilled and logits computed from all of its KV rows.
DecodeReady ==
    \A r \in Request :
        Decoding(r) /\ ~finished[r] =>
            /\ RemainingPrefill(r) = 0
            /\ logits[r] = Len(kv[r])

\* Hazard: the model raises when the KV cache outgrows context_length, which in a
\* tick would end the thread that runs it.  The admission check leaves room for
\* every forward, the ones for finished rows of a cohort included.
ContextRespected == \A r \in Request : Len(kv[r]) <= ContextLength

\* Hazard: generation past its budget or past end-of-sequence in a cohort whose
\* members end at different steps.
GenerationBounded ==
    \A r \in Request :
        /\ Len(gen[r]) <= MaxNew[r]
        /\ r \in StopsAtEos => \A i \in 1 .. Len(gen[r]) - 1 : gen[r][i] # Eos

\* A request keeps within both its limits, in whatever cohort it decodes (engine.py,
\* new_request; batched.py).
LimitsKept == ContextRespected /\ GenerationBounded

\* Hazard: a request lost or in two queues as it moves between queues, cohorts and
\* _completed; retired twice, it would be reported twice by run_until_done.
OnePlace ==
    \A r \in Request :
        /\ retired[r] <= 1
        /\ retired[r] = 1 => ~Prefilling(r) /\ ~Decoding(r)
        /\ ~(Prefilling(r) /\ Decoding(r))
        /\ Cardinality({i \in DOMAIN prefillQueue : prefillQueue[i] = r})
             + Cardinality({i \in DOMAIN stillPrefilling : stillPrefilling[i] = r})
             + (IF chunking = r THEN 1 ELSE 0) <= 1

\* Hazard: a cancel() that lands inside a tick.  It lets the request have at most
\* the chunk or the token that is under way: a cancelled request never becomes
\* active again, and what it still gets takes it out of the active set or out of
\* the prefill loop.
CancelStops ==
    [][\A r \in Request : cancelled[r] =>
          /\ r \in active' => r \in active
          /\ gen'[r] # gen[r] => r \in active /\ r \notin active'
          /\ chunking' = r => chunking = r
          /\ prefilled'[r] # prefilled[r] => chunking = r /\ chunking' # r]_vars

\* Hazard: a request that is dropped, or passed over by the cohorts of every tick.
\* Whatever the mix of chunks, cohorts and cancels, every submitted request is
\* retired, as long as whoever owns the scheduler keeps ticking.
EveryRequestRetires == \A r \in Request : r \in submitted ~> retired[r] = 1

\* Hazard: a cached prefix whose KV rows belong to another prompt or to more
\* tokens than its key (a commit of a partly prefilled or already decoding cache).
PrefixCacheExact ==
    /\ Len(prefixCache) <= PrefixCapacity
    /\ \A i \in DOMAIN prefixCache :
         /\ prefixCache[i].kv = prefixCache[i].prefix
         /\ prefixCache[i].logits = Len(prefixCache[i].prefix)
         /\ \A j \in DOMAIN prefixCache :
              prefixCache[i].prefix = prefixCache[j].prefix => i = j

\* Hazard: after new weights are loaded, a prefix whose KV rows were computed
\* under older weights is still handed to new requests.
PrefixCacheFresh ==
    \A i \in DOMAIN prefixCache : prefixCache[i].versions \subseteq {weights}

============================================================================
