------------------------ MODULE RolloutEngine_proofs ------------------------
(***************************************************************************)
(* Proofs about the rollouts of the on-policy trainers, for every set of   *)
(* requests, every batch and every number of updates: a running batch and  *)
(* the prefixes it can start from are of the current weights, a returned   *)
(* sample is a whole one, and no forward outgrows the context.  The        *)
(* scheduler's own invariant (Scheduler_proofs) carries over, since every  *)
(* tick and every submission of a call is a step it was proved for.        *)
(***************************************************************************)
EXTENDS RolloutEngine, Scheduler_proofs

USE EngineAssumption, SchedulerAssumption, PrefixCapacityAssumption, RolloutAssumption

----------------------------------------------------------------------------
(* The inductive invariant. *)

\* What each point of generate_batch knows.
Calls ==
    /\ call = "idle" => batch = {} /\ left = <<>> /\ leader = NoRequest /\ tick = "idle"
    /\ call = "groups" => leader = NoRequest
    /\ call = "groups" /\ left # <<>> => tick = "idle"
    /\ call = "prefill" => leader \in batch
    /\ trainer = "stale" => call = "idle"

\* The requests of a call are submitted one after the other, each once.
Queued ==
    /\ batch \subseteq submitted
    /\ \A i \in DOMAIN left : left[i] \notin submitted
    /\ Distinct(left)

\* The scheduler holds requests of the batch only, and has retired the others of it.
Members ==
    /\ \A r \in Request : InScheduler(r) => r \in batch
    /\ \A r \in batch : InScheduler(r) \/ (finished[r] /\ retired[r] = 1)

\* generate_batch never cancels.
NoCancel == \A r \in Request : ~cancelled[r]

RolloutInv ==
    /\ Inv /\ UnbornInv /\ EndsInv
    /\ RolloutTypeOK
    /\ Calls
    /\ Queued
    /\ Members
    /\ NoCancel
    /\ SamplesOnPolicy
    /\ SamplesComplete

----------------------------------------------------------------------------
(* Sequences. *)

\* A sequence without its k-th element.
Removed(s, k) == SubSeq(s, 1, k - 1) \o SubSeq(s, k + 1, Len(s))

LEMMA RemovedFacts ==
    ASSUME NEW S, NEW s \in Seq(S), NEW k \in 1 .. Len(s)
    PROVE  /\ Removed(s, k) \in Seq(S)
           /\ \A i \in DOMAIN Removed(s, k) :
                \E j \in DOMAIN s : j # k /\ Removed(s, k)[i] = s[j]
           /\ Distinct(s) => Distinct(Removed(s, k))
<1> DEFINE t == Removed(s, k)
           front == SubSeq(s, 1, k - 1)
           back == SubSeq(s, k + 1, Len(s))
           Old(i) == IF i < k THEN i ELSE i + 1
<1>1. Len(s) \in Nat /\ DOMAIN s = 1 .. Len(s) /\ k \in Nat
  OBVIOUS
<1>2. /\ front \in Seq(S) /\ Len(front) = k - 1
      /\ \A i \in 1 .. k - 1 : front[i] = s[i]
  OBVIOUS
<1>3. /\ back \in Seq(S) /\ Len(back) = Len(s) - k
      /\ \A i \in 1 .. Len(s) - k : back[i] = s[k + i]
  OBVIOUS
<1>a. t = front \o back
  BY DEF Removed
<1> HIDE DEF front, back, t
<1>b. /\ t \in Seq(S) /\ Len(t) = Len(front) + Len(back)
      /\ \A i \in 1 .. Len(front) : t[i] = front[i]
      /\ \A i \in 1 .. Len(back) : t[Len(front) + i] = back[i]
  <2>1. front \in Seq(S) /\ back \in Seq(S)
    BY <1>2, <1>3
  <2>2. /\ front \o back \in Seq(S) /\ Len(front \o back) = Len(front) + Len(back)
        /\ \A i \in 1 .. Len(front) : (front \o back)[i] = front[i]
        /\ \A i \in 1 .. Len(back) : (front \o back)[Len(front) + i] = back[i]
    BY <2>1, ConcatFacts
  <2> QED
    BY <1>a, <2>2, Zenon
<1>c. Len(t) = Len(s) - 1
  BY <1>1, <1>2, <1>3, <1>b
<1>4. t \in Seq(S) /\ DOMAIN t = 1 .. Len(s) - 1
  <2>1. t \in Seq(S)
    BY <1>b
  <2>2. DOMAIN t = 1 .. Len(t)
    BY <2>1
  <2> QED
    BY <1>c, <2>1, <2>2
<1>5. ASSUME NEW i \in DOMAIN t
      PROVE  Old(i) \in DOMAIN s /\ Old(i) # k /\ t[i] = s[Old(i)]
  <2>1. i \in 1 .. Len(s) - 1
    BY <1>1, <1>4
  <2>2. CASE i < k
    BY <1>1, <1>2, <1>b, <2>1, <2>2
  <2>3. CASE ~(i < k)
    <3>1. i - Len(front) \in 1 .. Len(back) /\ k + (i - Len(front)) = i + 1 /\ Old(i) = i + 1
      BY <1>1, <1>2, <1>3, <2>1, <2>3
    <3>2. t[i] = back[i - Len(front)]
      <4>1. Len(front) + (i - Len(front)) = i
        BY <1>1, <1>2, <2>1
      <4> QED
        BY <1>b, <3>1, <4>1
    <3>3. back[i - Len(front)] = s[i + 1]
      BY <1>3, <3>1
    <3>4. i + 1 \in DOMAIN s /\ i + 1 # k
      BY <1>1, <2>1, <2>3
    <3> QED
      BY <3>1, <3>2, <3>3, <3>4
  <2> QED
    BY <2>2, <2>3
<1>6. ASSUME NEW i \in DOMAIN t, NEW j \in DOMAIN t, Old(i) = Old(j) PROVE i = j
  <2>1. i \in Int /\ j \in Int /\ k \in Int
    BY <1>1, <1>4
  <2> QED
    BY <1>6, <2>1
<1> HIDE DEF Old
<1> QED
  BY <1>4, <1>5, <1>6 DEF Distinct, t

\* A set of positions of a sequence that is not empty has a first one.
LEMMA FirstPosition ==
    ASSUME NEW T, T \subseteq Nat, T # {}
    PROVE  \E i \in T : \A j \in T : i <= j
<1>1. PICK x \in T : \A y \in T : ~(<<y, x>> \in OpToRel(<, Nat))
  BY NatLessThanWellFounded, WFMin
<1>2. \A y \in T : ~(y < x)
  BY <1>1 DEF OpToRel
<1> QED
  BY <1>2

----------------------------------------------------------------------------
(* The prefix cache keeps what all its entries have in common. *)

LEMMA WithoutIn ==
    ASSUME NEW S, NEW cache \in Seq(S), NEW prefix
    PROVE  Without(cache, prefix) \in Seq(S)
<1>1. CASE prefix \in Keys(cache)
  <2> DEFINE at == IndexOf(cache, prefix)
  <2>1. at \in 1 .. Len(cache)
    BY <1>1 DEF Keys, IndexOf
  <2> HIDE DEF at
  <2>2. SubSeq(cache, 1, at - 1) \in Seq(S) /\ SubSeq(cache, at + 1, Len(cache)) \in Seq(S)
    BY <2>1
  <2>3. SubSeq(cache, 1, at - 1) \o SubSeq(cache, at + 1, Len(cache)) \in Seq(S)
    BY <2>2
  <2> QED
    BY <1>1, <2>3 DEF Without, at
<1> QED
  BY <1>1 DEF Without

LEMMA LookupIn ==
    ASSUME NEW S, NEW cache \in Seq(S), NEW prefix \in Keys(cache)
    PROVE  Lookup(cache, prefix) \in S
<1>1. IndexOf(cache, prefix) \in DOMAIN cache
  BY DEF Keys, IndexOf
<1> QED
  BY <1>1 DEF Lookup

LEMMA TouchIn ==
    ASSUME NEW S, NEW cache \in Seq(S), NEW prefix \in Keys(cache)
    PROVE  Touch(cache, prefix) \in Seq(S)
BY WithoutIn, LookupIn DEF Touch

LEMMA PutIn ==
    ASSUME NEW S, NEW cache \in Seq(S), NEW entry \in S
    PROVE  Put(cache, entry) \in Seq(S)
<1> DEFINE full == Append(Without(cache, entry.prefix), entry)
<1>1. full \in Seq(S)
  BY WithoutIn
<1> HIDE DEF full
<1>2. CASE Len(full) > PrefixCapacity
  <2>1. SubSeq(full, Len(full) - PrefixCapacity + 1, Len(full)) \in Seq(S)
    <3>1. Len(full) \in Nat /\ Len(full) - PrefixCapacity + 1 \in 1 .. Len(full) + 1
      BY <1>1, <1>2, PrefixCapacityAssumption
    <3> QED
      BY <1>1, <3>1
  <2> QED
    BY <1>2, <2>1 DEF Put, full
<1> QED
  BY <1>1, <1>2 DEF Put, full

\* The entry a warm start finds is one of the cache.
LEMMA HitIn ==
    ASSUME NEW S, NEW cache \in Seq(S), NEW prompt \in Seq(Token), HitLengths(cache, prompt) # {}
    PROVE  /\ LongestHit(cache, prompt) \in S
           /\ \E prefix \in Keys(cache) : LongestHit(cache, prompt) = Lookup(cache, prefix)
<1> DEFINE n == CHOOSE i \in HitLengths(cache, prompt) :
                    \A j \in HitLengths(cache, prompt) : j <= i
<1>1. HitLengths(cache, prompt) \in SUBSET (1 .. Len(prompt)) /\ Len(prompt) \in Nat
  BY DEF HitLengths
<1>2. n \in HitLengths(cache, prompt)
  BY <1>1, Greatest
<1>3. SubSeq(prompt, 1, n) \in Keys(cache)
  BY <1>2 DEF HitLengths
<1>4. LongestHit(cache, prompt) = Lookup(cache, SubSeq(prompt, 1, n))
  BY DEF LongestHit
<1> HIDE DEF n
<1> QED
  BY <1>3, <1>4, LookupIn

----------------------------------------------------------------------------
(* The weight versions of a tick and of a submission. *)

\* The entries of the prefix cache whose rows were computed under the current weights.
FreshEntry == {entry \in PrefixEntry : entry.versions \subseteq {weights}}

LEMMA FreshMeansFresh ==
    ASSUME Inv
    PROVE  PrefixCacheFresh <=> prefixCache \in Seq(FreshEntry)
<1>1. prefixCache \in Seq(PrefixEntry) /\ Len(prefixCache) \in Nat
  BY DEF Inv, TypeInv, EngineTypeOK
<1>2. ASSUME PrefixCacheFresh PROVE prefixCache \in Seq(FreshEntry)
  <2>1. \A i \in 1 .. Len(prefixCache) : prefixCache[i] \in FreshEntry
    BY <1>1, <1>2 DEF PrefixCacheFresh, FreshEntry
  <2> QED
    BY <1>1, <2>1
<1>3. ASSUME prefixCache \in Seq(FreshEntry) PROVE PrefixCacheFresh
  BY <1>3 DEF PrefixCacheFresh, FreshEntry
<1> QED
  BY <1>2, <1>3

\* A forward leaves its version, and no other, with the requests it is of.
LEMMA ForwardVersions ==
    ASSUME NEW G, NEW t, Forward(G, t), NEW q \in Request, versions[q] \subseteq {weights}
    PROVE  versions'[q] \subseteq {weights}
<1>1. versions'[q] = IF q \in G THEN versions[q] \cup {weights} ELSE versions[q]
  BY DEF Forward
<1> QED
  BY <1>1

\* What a tick computes, and what it commits to the prefix cache, is of the current weights.
LEMMA TickVersions ==
    ASSUME Inv, DecodeScan \/ TickStep,
           NEW S \in SUBSET Request, \A r \in Request : InScheduler(r) => r \in S,
           \A r \in S : versions[r] \subseteq {weights}, PrefixCacheFresh
    PROVE  /\ \A r \in S : versions'[r] \subseteq {weights}
           /\ prefixCache' \in Seq(FreshEntry) /\ weights' = weights
<1>0. /\ EngineTypeOK /\ SchedulerTypeOK /\ Phases /\ versions \in [Request -> SUBSET Nat]
      /\ prefixCache \in Seq(FreshEntry)
  BY FreshMeansFresh DEF Inv, TypeInv, EngineTypeOK
<1>1. CASE UNCHANGED <<versions, prefixCache, weights>>
  BY <1>0, <1>1
<1>2. CASE DecodeScan \/ Settle \/ DecodeEnd \/ PrefillPop \/ PrefillEnd
  BY <1>1, <1>2 DEF DecodeScan, Settle, DecodeEnd, PrefillPop, PrefillEnd, Retire, engineVars,
                    requestVars
<1>3. ASSUME NEW r \in Request, AdvanceGroup(r) \/ AdvanceAlone(r)
      PROVE  /\ \A q \in S : versions'[q] \subseteq {weights}
             /\ UNCHANGED <<prefixCache, weights>>
  <2>1. CASE AdvanceGroup(r)
    <3>1. PICK token \in [Cohort(r) -> Token] :
            Sample(Cohort(r), token) /\ Forward(Cohort(r), token)
      BY <2>1 DEF AdvanceGroup, DecodeGroupBatched
    <3>2. UNCHANGED <<prefixCache, weights>>
      BY <3>1 DEF Sample
    <3> QED
      BY <3>1, <3>2, ForwardVersions
  <2>2. CASE AdvanceAlone(r)
    BY <2>2 DEF AdvanceAlone, DecodeSample, Sample, engineVars, requestVars
  <2> QED
    BY <1>3, <2>1, <2>2
<1>4. CASE Feed
  <2>1. PICK r \in cohort : DecodeForward(r)
    BY <1>4 DEF Feed
  <2>2. UNCHANGED <<prefixCache, weights>>
    BY <2>1 DEF DecodeForward
  <2>3. CASE finished[r]
    BY <2>1, <2>2, <2>3, <1>0 DEF DecodeForward
  <2>4. CASE ~finished[r]
    <3>1. \E t : Forward({r}, t)
      BY <2>1, <2>4 DEF DecodeForward
    <3>2. \A q \in S : versions'[q] \subseteq {weights}
      BY <3>1, ForwardVersions
    <3> QED
      BY <1>0, <2>2, <3>2
  <2> QED
    BY <2>3, <2>4
<1>5. CASE PrefillRun
  <2>1. /\ chunking \in Request /\ PrefillAndCommit(chunking) /\ tick = "chunk"
    BY <1>0, <1>5 DEF PrefillRun, Phases, SchedulerTypeOK
  <2>2. chunking \in S
    BY <2>1 DEF InScheduler, Prefilling
  <2> DEFINE n == ChunkSize(chunking)
             fed == IF n = 0 THEN versions[chunking] ELSE versions[chunking] \cup {weights}
             rows == IF n = 0 THEN logits[chunking] ELSE Len(ChunkedKv(chunking))
             entry == [prefix |-> Prompt[chunking], kv |-> ChunkedKv(chunking),
                       versions |-> fed, logits |-> rows]
  <2>3. fed \subseteq {weights} /\ fed \in SUBSET Nat
    BY <1>0, <2>1, <2>2 DEF EngineTypeOK
  <2>4. versions' = [versions EXCEPT ![chunking] = fed] /\ weights' = weights
    BY <2>1 DEF PrefillAndCommit
  <2>5. prefixCache' = prefixCache \/ prefixCache' = Put(prefixCache, entry)
    BY <2>1 DEF PrefillAndCommit
  <2>6. entry \in PrefixEntry
    <3>1. ChunkedKv(chunking) = kv'[chunking] /\ rows = logits'[chunking]
      BY <1>0, <2>1 DEF PrefillAndCommit, EngineTypeOK
    <3>2. kv'[chunking] \in Seq(Token) /\ logits'[chunking] \in Nat
      BY <2>1, ChunkRun
    <3>3. Prompt[chunking] \in Seq(Token)
      BY <2>1, WholePrompt
    <3> HIDE DEF fed, rows
    <3> QED
      BY <2>3, <3>1, <3>2, <3>3 DEF PrefixEntry
  <2>7. entry \in FreshEntry
    <3>1. entry.versions = fed
      OBVIOUS
    <3> HIDE DEF entry
    <3> QED
      BY <2>3, <2>6, <3>1 DEF FreshEntry
  <2> HIDE DEF fed, entry
  <2>8. prefixCache' \in Seq(FreshEntry)
    BY <1>0, <2>5, <2>7, PutIn
  <2>9. \A q \in S : versions'[q] \subseteq {weights}
    BY <1>0, <2>3, <2>4
  <2> QED
    BY <2>4, <2>8, <2>9
<1> QED
  BY <1>0, <1>1, <1>2, <1>3, <1>4, <1>5 DEF TickStep

\* A request starts from nothing or from a cached prefix.
LEMMA SubmitVersions ==
    ASSUME Inv, NEW r \in Request, FirstSubmit(r), PrefixCacheFresh
    PROVE  /\ versions'[r] \subseteq {weights}
           /\ \A q \in Request \ {r} : versions'[q] = versions[q]
           /\ prefixCache' \in Seq(FreshEntry) /\ weights' = weights
<1>1. /\ NewRequest(r) /\ versions[r] = {} /\ versions \in [Request -> SUBSET Nat]
      /\ prefixCache \in Seq(FreshEntry) /\ Prompt[r] \in Seq(Token)
  BY FreshMeansFresh, WholePrompt DEF FirstSubmit, Submit, Unborn, Inv, TypeInv, EngineTypeOK
<1>2. weights' = weights
  BY <1>1 DEF NewRequest
<1>3. CASE PrefixCapacity > 0 /\ HitLengths(prefixCache, Prompt[r]) # {}
  <2> DEFINE hit == LongestHit(prefixCache, Prompt[r])
  <2>1. /\ versions' = [versions EXCEPT ![r] = hit.versions]
        /\ prefixCache' = Touch(prefixCache, hit.prefix)
    BY <1>1, <1>3 DEF NewRequest
  <2>2. hit \in FreshEntry
    BY <1>1, <1>3, HitIn
  <2>3. hit.prefix \in Keys(prefixCache)
    <3>1. Exact(prefixCache)
      BY CacheIsExact DEF Inv
    <3> QED
      BY <1>1, <1>3, <3>1, HitFacts
  <2>4. prefixCache' \in Seq(FreshEntry)
    BY <1>1, <2>1, <2>3, TouchIn
  <2> HIDE DEF hit
  <2>5. hit.versions \subseteq {weights}
    BY <2>2 DEF FreshEntry
  <2> QED
    BY <1>1, <1>2, <2>1, <2>4, <2>5
<1>4. CASE ~(PrefixCapacity > 0 /\ HitLengths(prefixCache, Prompt[r]) # {})
  BY <1>1, <1>2, <1>4 DEF NewRequest
<1> QED
  BY <1>3, <1>4

----------------------------------------------------------------------------
(* The steps. *)

\* The parts that do not speak of where generate_batch is.
RequestsInv ==
    /\ Inv /\ UnbornInv /\ EndsInv
    /\ Members /\ NoCancel
    /\ SamplesOnPolicy /\ SamplesComplete

LEMMA InitRollout == RolloutInit => RolloutInv
<1> SUFFICES ASSUME RolloutInit PROVE RolloutInv
  OBVIOUS
<1>0. Init /\ tick = "idle" /\ prefillQueue = <<>> /\ decodeQueue = {} /\ prefixCache = <<>>
  BY DEF RolloutInit, Init, SchedulerInit, EngineInit
<1>1. Inv /\ UnbornInv /\ EndsInv
  BY <1>0, InitInv, InitUnborn, InitEnds
<1>2. \A r \in Request : ~InScheduler(r)
  BY <1>0, <1>1, IdleEmpty DEF HasWork
<1>3. Members /\ NoCancel /\ SamplesComplete
  BY <1>2 DEF RolloutInit, Init, EngineInit, Members, NoCancel, SamplesComplete
<1>4. SamplesOnPolicy
  BY <1>0 DEF RolloutInit, SamplesOnPolicy, PrefixCacheFresh
<1>5. Calls /\ Queued
  BY <1>0 DEF RolloutInit, Calls, Queued, Distinct
<1>6. RolloutTypeOK
  BY <1>1 DEF RolloutInit, RolloutTypeOK, Inv, TypeInv
<1> QED
  BY <1>1, <1>3, <1>4, <1>5, <1>6 DEF RolloutInv

\* A tick: what it lets go of is retired, what it computes is of the current weights.
LEMMA TickRollout ==
    ASSUME RolloutInv, BeginTick \/ RunTick
    PROVE  RolloutInv'
<1>0. /\ Inv /\ UnbornInv /\ EndsInv /\ RolloutTypeOK /\ Calls /\ Queued /\ Members /\ NoCancel
      /\ SamplesOnPolicy /\ SamplesComplete
  BY DEF RolloutInv
<1>1. /\ DecodeScan \/ TickStep
      /\ UNCHANGED <<call, left, batch, leader, trainer, sampled>>
  BY DEF BeginTick, RunTick, rolloutVars
<1>2. call # "idle" /\ ~(call = "groups" /\ left # <<>>)
  <2>1. CASE BeginTick
    BY <2>1 DEF BeginTick
  <2>2. CASE RunTick
    <3>1. tick # "idle"
      BY <2>2 DEF RunTick, TickStep, AdvanceGroup, AdvanceAlone, Feed, Settle, DecodeEnd,
                  PrefillPop, PrefillRun, PrefillEnd
    <3> QED
      BY <1>0, <3>1 DEF Calls
  <2> QED
    BY <2>1, <2>2
<1>3. submitted' = submitted
  BY <1>1 DEF DecodeScan, TickStep, AdvanceGroup, AdvanceAlone, Feed, Settle, DecodeEnd,
              PrefillPop, PrefillRun, PrefillEnd, queueVars
<1>4. Inv' /\ UnbornInv' /\ EndsInv'
  BY <1>0, <1>1, CoreInv, CoreUnborn, EndsStep DEF CoreStep
<1>5. batch \in SUBSET Request /\ sampled \in SUBSET Request
  BY <1>0 DEF RolloutTypeOK
<1>6. Members'
  <2>1. ASSUME NEW r \in Request, InScheduler(r)' PROVE r \in batch
    BY <1>0, <1>1, <2>1, OutsideFrame DEF Members
  <2>2. ASSUME NEW r \in batch PROVE InScheduler(r)' \/ (finished'[r] /\ retired'[r] = 1)
    <3>1. CASE InScheduler(r)
      BY <1>0, <1>1, <1>5, <3>1, LeavesRetired
    <3>2. CASE ~InScheduler(r)
      BY <1>0, <1>1, <1>5, <3>2, OutsideFrame DEF Members
    <3> QED
      BY <3>1, <3>2
  <2> QED
    BY <1>1, <2>1, <2>2 DEF Members
<1>7. NoCancel'
  BY <1>0, <1>1 DEF NoCancel, DecodeScan, TickStep, AdvanceGroup, AdvanceAlone, Feed, Settle,
                    DecodeEnd, PrefillPop, PrefillRun, PrefillEnd, Retire, DecodeGroupBatched,
                    DecodeSample, DecodeForward, Sample, PrefillAndCommit, engineVars, requestVars
<1>8. SamplesOnPolicy'
  <2>1. trainer = "synced" /\ PrefixCacheFresh
    BY <1>0, <1>2 DEF Calls, RolloutTypeOK, SamplesOnPolicy
  <2>2. /\ \A r \in batch : versions'[r] \subseteq {weights}
        /\ prefixCache' \in Seq(FreshEntry) /\ weights' = weights
    BY <1>0, <1>1, <1>5, <2>1, TickVersions DEF Members, SamplesOnPolicy
  <2> QED
    BY <1>1, <2>2 DEF SamplesOnPolicy, PrefixCacheFresh, FreshEntry
<1>9. SamplesComplete'
  <2>1. ASSUME NEW r \in sampled PROVE ~InScheduler(r)
    BY <1>0, <1>5, <2>1, InMeansSubmitted DEF SamplesComplete
  <2>2. ASSUME NEW r \in sampled
        PROVE  finished'[r] = finished[r] /\ retired'[r] = retired[r] /\ gen'[r] = gen[r]
    BY <1>0, <1>1, <1>5, <2>1, OutsideFrame
  <2> QED
    BY <1>0, <1>1, <2>2 DEF SamplesComplete
<1>10. Calls' /\ Queued'
  BY <1>0, <1>1, <1>2, <1>3 DEF Calls, Queued
<1>11. RolloutTypeOK'
  BY <1>0, <1>1, <1>4 DEF RolloutTypeOK, Inv, TypeInv
<1> QED
  BY <1>4, <1>6, <1>7, <1>8, <1>9, <1>10, <1>11 DEF RolloutInv

\* A submission: the warm start is of the current weights, whatever entry it finds.
LEMMA SubmitRollout ==
    ASSUME RolloutInv, NEW r \in Request, tick = "idle", r \notin submitted, Admissible(r),
           Submit(r), trainer = "synced", batch' = batch \cup {r}, UNCHANGED <<trainer, sampled>>
    PROVE  RequestsInv'
<1>0. /\ Inv /\ UnbornInv /\ EndsInv /\ RolloutTypeOK /\ Calls /\ Queued /\ Members /\ NoCancel
      /\ SamplesOnPolicy /\ SamplesComplete
  BY DEF RolloutInv
<1>1. FirstSubmit(r)
  BY <1>0 DEF FirstSubmit, UnbornInv
<1>2. Inv' /\ UnbornInv' /\ EndsInv'
  BY <1>0, <1>1, CoreInv, CoreUnborn, EndsStep DEF CoreStep
<1>3. UNCHANGED <<finished, gen, cancelled, retired>>
  BY <1>1 DEF FirstSubmit, Submit, NewRequest
<1>4. Members'
  <2>1. \A q \in Request : InScheduler(q)' => InScheduler(q) \/ q = r
    BY <1>0, <1>1, SubmitMoves DEF InScheduler
  <2>2. InScheduler(r)' /\ \A q \in Request : InScheduler(q) => InScheduler(q)'
    BY <1>0, <1>1, SubmitEnters
  <2> QED
    BY <1>0, <1>3, <2>1, <2>2 DEF Members, RolloutTypeOK
<1>5. NoCancel' /\ SamplesComplete'
  BY <1>0, <1>3 DEF NoCancel, SamplesComplete
<1>6. SamplesOnPolicy'
  <2>1. /\ versions'[r] \subseteq {weights}
        /\ \A q \in Request \ {r} : versions'[q] = versions[q]
        /\ prefixCache' \in Seq(FreshEntry) /\ weights' = weights
    BY <1>0, <1>1, SubmitVersions DEF SamplesOnPolicy
  <2>2. ASSUME NEW q \in batch \cup {r} PROVE versions'[q] \subseteq {weights}
    BY <1>0, <2>1, <2>2 DEF SamplesOnPolicy, RolloutTypeOK
  <2>3. PrefixCacheFresh'
    BY <2>1 DEF PrefixCacheFresh, FreshEntry
  <2> QED
    BY <2>1, <2>2, <2>3 DEF SamplesOnPolicy
<1> QED
  BY <1>2, <1>4, <1>5, <1>6 DEF RequestsInv

\* Nothing of the scheduler and the engine changes.
LEMMA SameVars ==
    ASSUME RolloutInv, UNCHANGED vars
    PROVE  /\ Inv' /\ UnbornInv' /\ EndsInv' /\ NoCancel'
           /\ \A r \in Request : InScheduler(r)' <=> InScheduler(r)
           /\ PrefixCacheFresh => PrefixCacheFresh'
           /\ UNCHANGED <<tick, submitted, finished, retired, gen, versions, weights>>
<1>1. /\ UNCHANGED <<prefilled, kv, versions, logits, gen, finished, cancelled, weights>>
      /\ UNCHANGED <<prefixCache, tick, prefillQueue, stillPrefilling, chunking, decodeQueue>>
      /\ UNCHANGED <<active, cohort, nextDecode, submitted, retired>>
  BY DEF vars, engineVars, requestVars, schedulerVars, queueVars
<1>2. Inv'
  BY StutterInv DEF RolloutInv
<1>3. \A r \in Request : InScheduler(r)' <=> InScheduler(r)
  BY <1>1 DEF InScheduler, Prefilling, Decoding
<1>4. UnbornInv' /\ EndsInv' /\ NoCancel'
  BY <1>1, <1>3 DEF RolloutInv, UnbornInv, Unborn, EndsInv, EndsOf, AtEnd, NoCancel
<1>5. PrefixCacheFresh => PrefixCacheFresh'
  BY <1>1 DEF PrefixCacheFresh
<1> QED
  BY <1>1, <1>2, <1>3, <1>4, <1>5

LEMMA GenerateRollout ==
    ASSUME RolloutInv, NEW requests \in Batches, GenerateBatch(requests)
    PROVE  RolloutInv'
<1>0. /\ RolloutTypeOK /\ Calls /\ Queued /\ Members /\ SamplesOnPolicy /\ SamplesComplete
  BY DEF RolloutInv
<1>1. /\ call = "idle" /\ trainer = "synced" /\ call' = "groups" /\ left' = requests
      /\ \A i \in DOMAIN requests : requests[i] \notin submitted
      /\ UNCHANGED <<vars, batch, leader, trainer, sampled>>
  BY DEF GenerateBatch
<1>2. requests \in Seq(Request) /\ Distinct(requests)
  BY DEF Distinct
<1>3. /\ Inv' /\ UnbornInv' /\ EndsInv' /\ NoCancel'
      /\ \A r \in Request : InScheduler(r)' <=> InScheduler(r)
      /\ PrefixCacheFresh => PrefixCacheFresh'
      /\ UNCHANGED <<tick, submitted, finished, retired, gen, versions, weights>>
  BY <1>1, SameVars
<1>4. RolloutTypeOK'
  BY <1>0, <1>1, <1>2, <1>3 DEF RolloutTypeOK, Inv, TypeInv
<1>5. Calls' /\ Queued'
  BY <1>0, <1>1, <1>2, <1>3 DEF Calls, Queued
<1>6. Members'
  BY <1>0, <1>1, <1>3 DEF Members, RolloutTypeOK
<1>7. SamplesOnPolicy'
  BY <1>0, <1>1, <1>3 DEF SamplesOnPolicy
<1>8. SamplesComplete'
  BY <1>0, <1>1, <1>3 DEF SamplesComplete
<1> QED
  BY <1>3, <1>4, <1>5, <1>6, <1>7, <1>8 DEF RolloutInv

LEMMA LeaderRollout ==
    ASSUME RolloutInv, SubmitLeader
    PROVE  RolloutInv'
<1> DEFINE r == Head(left)
<1>0. /\ RolloutTypeOK /\ Calls /\ Queued /\ Inv
  BY DEF RolloutInv
<1>1. /\ call = "groups" /\ left # <<>> /\ Admissible(r) /\ Submit(r) /\ call' = "prefill"
      /\ leader' = r /\ left' = Tail(left) /\ batch' = batch \cup {r}
      /\ UNCHANGED <<trainer, sampled>>
  BY DEF SubmitLeader
<1>2. /\ Tail(left) \in Seq(Request) /\ r \in Request /\ InSeq(r, left)
      /\ \A y : InSeq(y, left) <=> y = r \/ InSeq(y, Tail(left))
      /\ Distinct(Tail(left)) /\ ~InSeq(r, Tail(left))
  BY <1>0, <1>1, TailFacts DEF RolloutTypeOK, Queued
<1> HIDE DEF r
<1>3. tick = "idle" /\ r \notin submitted /\ trainer = "synced" /\ tick' = tick
  BY <1>0, <1>1, <1>2 DEF Calls, Queued, InSeq, RolloutTypeOK, Submit
<1>4. RequestsInv'
  BY <1>1, <1>2, <1>3, SubmitRollout
<1>5. submitted' = submitted \cup {r}
  BY <1>1 DEF Submit
<1>6. \A i \in DOMAIN Tail(left) : Tail(left)[i] \notin submitted'
  <2>1. ASSUME NEW i \in DOMAIN Tail(left) PROVE Tail(left)[i] \notin submitted /\ Tail(left)[i] # r
    <3>1. InSeq(Tail(left)[i], Tail(left))
      BY DEF InSeq
    <3>2. InSeq(Tail(left)[i], left) /\ Tail(left)[i] # r
      BY <1>2, <3>1
    <3> QED
      BY <1>0, <3>2 DEF Queued, InSeq
  <2> QED
    BY <1>5, <2>1
<1>7. Queued'
  <2>1. batch' \subseteq submitted'
    BY <1>0, <1>1, <1>5 DEF Queued
  <2> QED
    BY <1>1, <1>2, <1>6, <2>1 DEF Queued
<1>8. Calls'
  BY <1>1, <1>3 DEF Calls
<1>9. RolloutTypeOK'
  BY <1>0, <1>1, <1>2, <1>4 DEF RolloutTypeOK, Inv, TypeInv, RequestsInv
<1> QED
  BY <1>4, <1>7, <1>8, <1>9 DEF RolloutInv, RequestsInv

\* The next request of the leader's group is one of those left.
LEMMA NextInLeft ==
    ASSUME left \in Seq(Request), GroupLeft # {}
    PROVE  NextInGroup \in DOMAIN left /\ Prompt[left[NextInGroup]] = Prompt[leader]
<1>1. GroupLeft \subseteq DOMAIN left /\ GroupLeft \subseteq Nat
  BY DEF GroupLeft
<1>2. \E i \in GroupLeft : \A j \in GroupLeft : i <= j
  BY <1>1, FirstPosition
<1>3. NextInGroup \in GroupLeft
  BY <1>2 DEF NextInGroup
<1> QED
  BY <1>3 DEF GroupLeft

LEMMA FollowerRollout ==
    ASSUME RolloutInv, SubmitFollower
    PROVE  RolloutInv'
<1> DEFINE k == NextInGroup
           r == left[k]
<1>0. /\ RolloutTypeOK /\ Calls /\ Queued /\ Inv
  BY DEF RolloutInv
<1>1. /\ call = "prefill" /\ LeaderReady /\ Admissible(r) /\ Submit(r)
      /\ left' = Removed(left, k) /\ batch' = batch \cup {r}
      /\ UNCHANGED <<call, leader, trainer, sampled>>
  BY DEF SubmitFollower, Removed
<1>2. k \in DOMAIN left /\ left \in Seq(Request)
  BY <1>0, NextInLeft DEF SubmitFollower, RolloutTypeOK
<1> HIDE DEF k
<1>3. k \in 1 .. Len(left) /\ r \in Request
  BY <1>2
<1>4. /\ Removed(left, k) \in Seq(Request) /\ Distinct(Removed(left, k))
      /\ \A i \in DOMAIN Removed(left, k) :
           \E j \in DOMAIN left : j # k /\ Removed(left, k)[i] = left[j]
  BY <1>0, <1>2, <1>3, RemovedFacts DEF Queued
<1>5. tick = "idle" /\ r \notin submitted /\ trainer = "synced" /\ tick' = tick
  BY <1>0, <1>1, <1>2 DEF Calls, Queued, RolloutTypeOK, Submit, LeaderReady
<1>6. \A j \in DOMAIN left : j # k => left[j] # r
  BY <1>0, <1>2 DEF Queued, Distinct
<1> HIDE DEF r
<1>7. RequestsInv'
  BY <1>1, <1>3, <1>5, SubmitRollout
<1>8. submitted' = submitted \cup {r}
  BY <1>1 DEF Submit
<1>9. Queued'
  <2>1. \A i \in DOMAIN Removed(left, k) : Removed(left, k)[i] \notin submitted'
    BY <1>0, <1>4, <1>6, <1>8 DEF Queued
  <2>2. batch' \subseteq submitted'
    BY <1>0, <1>1, <1>8 DEF Queued
  <2> QED
    BY <1>1, <1>4, <2>1, <2>2 DEF Queued
<1>10. Calls'
  BY <1>0, <1>1, <1>5 DEF Calls
<1>11. RolloutTypeOK'
  BY <1>0, <1>1, <1>3, <1>4, <1>7 DEF RolloutTypeOK, Inv, TypeInv, RequestsInv
<1> QED
  BY <1>7, <1>9, <1>10, <1>11 DEF RolloutInv, RequestsInv

\* A scheduler that is dropped between two ticks: its queues are not seen again.
LEMMA DropScheduler ==
    ASSUME Inv, EndsInv, UnbornInv, tick = "idle", prefillQueue' = <<>>, decodeQueue' = {},
           UNCHANGED <<engineVars, tick, stillPrefilling, chunking, active, cohort, nextDecode,
                       submitted, retired>>
    PROVE  /\ Inv' /\ EndsInv' /\ UnbornInv'
           /\ \A r \in Request : ~InScheduler(r)'
<1>1. UNCHANGED <<prefilled, kv, versions, logits, gen, finished, cancelled, weights, prefixCache>>
  BY DEF engineVars, requestVars
<1>2. /\ active = {} /\ cohort = {} /\ nextDecode = {} /\ stillPrefilling = <<>>
      /\ chunking = NoRequest /\ SchedulerTypeOK
  BY DEF Inv, TypeInv, Phases
<1>3. \A r \in Request : ~Prefilling(r)' /\ ~Decoding(r)'
  BY <1>2, EmptyFacts DEF Prefilling, Decoding
<1>4. TypeInv' /\ Phases'
  BY <1>1 DEF Inv, TypeInv, EngineTypeOK, SchedulerTypeOK, Phases
<1>5. Places'
  <2>1. Distinct(<<>>)
    BY DEF Distinct
  <2>2. ASSUME NEW r \in Request PROVE Placed(r)'
    BY <1>2, <1>3, EmptyFacts DEF Placed, Inv, Places
  <2> QED
    BY <1>2, <2>1, <2>2 DEF Places
<1>6. PrefixCacheExact'
  BY <1>1 DEF Inv, PrefixCacheExact
<1>7. KVInv'
  BY <1>1, <1>2, <1>3 DEF Inv, KVInv, KVOf
<1>8. BoundInv'
  BY <1>1, <1>2, <1>3 DEF Inv, BoundInv, BoundsOf, Admissible
<1>9. EndsInv' /\ UnbornInv'
  BY <1>1, <1>3 DEF EndsInv, EndsOf, AtEnd, InScheduler, UnbornInv, Unborn
<1> QED
  BY <1>3, <1>4, <1>5, <1>6, <1>7, <1>8, <1>9 DEF Inv, InScheduler

LEMMA RejectRollout ==
    ASSUME RolloutInv, Reject
    PROVE  RolloutInv'
<1>0. /\ Inv /\ UnbornInv /\ EndsInv /\ RolloutTypeOK /\ Calls /\ Queued /\ Members /\ NoCancel
      /\ SamplesOnPolicy /\ SamplesComplete
  BY DEF RolloutInv
<1>1. /\ prefillQueue' = <<>> /\ decodeQueue' = {} /\ call' = "idle" /\ left' = <<>>
      /\ batch' = {} /\ leader' = NoRequest
      /\ UNCHANGED <<engineVars, tick, stillPrefilling, chunking, active, cohort, nextDecode,
                     submitted, retired, trainer, sampled>>
  BY DEF Reject
<1>2. tick = "idle"
  BY <1>0 DEF Reject, LeaderReady, Calls
<1>3. /\ Inv' /\ EndsInv' /\ UnbornInv'
      /\ \A r \in Request : ~InScheduler(r)'
  BY <1>0, <1>1, <1>2, DropScheduler
<1>4. UNCHANGED <<finished, cancelled, gen, weights, prefixCache>>
  BY <1>1 DEF engineVars, requestVars
<1>5. Members' /\ NoCancel' /\ SamplesComplete'
  BY <1>0, <1>1, <1>3, <1>4 DEF Members, NoCancel, SamplesComplete
<1>6. SamplesOnPolicy'
  BY <1>0, <1>1, <1>4 DEF SamplesOnPolicy, PrefixCacheFresh
<1>7. Calls' /\ Queued'
  BY <1>0, <1>1, <1>2 DEF Calls, Queued, Distinct
<1>8. RolloutTypeOK'
  BY <1>0, <1>1, <1>3 DEF RolloutTypeOK, Inv, TypeInv
<1> QED
  BY <1>3, <1>5, <1>6, <1>7, <1>8 DEF RolloutInv

\* run_until_done returned: every request of the batch has come to its end.
LEMMA ReturnRollout ==
    ASSUME RolloutInv, Return
    PROVE  RolloutInv'
<1>0. /\ Inv /\ EndsInv /\ RolloutTypeOK /\ Calls /\ Queued /\ Members /\ NoCancel
      /\ SamplesOnPolicy /\ SamplesComplete
  BY DEF RolloutInv
<1>1. /\ call = "groups" /\ tick = "idle" /\ left = <<>> /\ ~HasWork /\ call' = "idle"
      /\ sampled' = sampled \cup batch /\ batch' = {}
      /\ UNCHANGED <<vars, left, leader, trainer>>
  BY DEF Return
<1>2. /\ Inv' /\ UnbornInv' /\ EndsInv' /\ NoCancel'
      /\ \A r \in Request : InScheduler(r)' <=> InScheduler(r)
      /\ PrefixCacheFresh => PrefixCacheFresh'
      /\ UNCHANGED <<tick, submitted, finished, retired, gen, versions, weights>>
  BY <1>1, SameVars
<1>3. \A r \in Request : ~InScheduler(r)
  BY <1>0, <1>1, IdleEmpty
<1>4. SamplesComplete'
  <2>1. ASSUME NEW r \in batch PROVE finished[r] /\ retired[r] = 1 /\ AtEnd(r)
    BY <1>0, <1>3 DEF Members, EndsInv, EndsOf, NoCancel, RolloutTypeOK
  <2> QED
    BY <1>0, <1>1, <1>2, <2>1 DEF SamplesComplete, AtEnd
<1>5. Members' /\ SamplesOnPolicy' /\ Calls' /\ Queued'
  BY <1>0, <1>1, <1>2, <1>3 DEF Members, SamplesOnPolicy, Calls, Queued
<1>6. RolloutTypeOK'
  BY <1>0, <1>1, <1>2 DEF RolloutTypeOK, Inv, TypeInv
<1> QED
  BY <1>2, <1>4, <1>5, <1>6 DEF RolloutInv

LEMMA EndGroupRollout ==
    ASSUME RolloutInv, EndGroup
    PROVE  RolloutInv'
<1>0. /\ RolloutTypeOK /\ Calls /\ Queued /\ Members /\ SamplesOnPolicy /\ SamplesComplete
  BY DEF RolloutInv
<1>1. /\ call = "prefill" /\ tick = "idle" /\ call' = "groups" /\ leader' = NoRequest
      /\ UNCHANGED <<vars, left, batch, trainer, sampled>>
  BY DEF EndGroup, LeaderReady
<1>2. /\ Inv' /\ UnbornInv' /\ EndsInv' /\ NoCancel'
      /\ \A r \in Request : InScheduler(r)' <=> InScheduler(r)
      /\ PrefixCacheFresh => PrefixCacheFresh'
      /\ UNCHANGED <<tick, submitted, finished, retired, gen, versions, weights>>
  BY <1>1, SameVars
<1>3. Members' /\ SamplesOnPolicy' /\ SamplesComplete' /\ Calls' /\ Queued'
  BY <1>0, <1>1, <1>2 DEF Members, RolloutTypeOK, SamplesOnPolicy, SamplesComplete, Calls,
                            Queued
<1>4. RolloutTypeOK'
  BY <1>0, <1>1, <1>2 DEF RolloutTypeOK, Inv, TypeInv
<1> QED
  BY <1>2, <1>3, <1>4 DEF RolloutInv

\* Between two calls no request is running, so that other weights mix with nothing.
LEMMA WeightsRollout ==
    ASSUME RolloutInv, Update \/ Sync
    PROVE  RolloutInv'
<1>0. /\ Inv /\ UnbornInv /\ EndsInv /\ RolloutTypeOK /\ Calls /\ Queued /\ Members /\ NoCancel
      /\ SamplesOnPolicy /\ SamplesComplete
  BY DEF RolloutInv
<1>1. /\ UNCHANGED <<requestVars, schedulerVars, call, left, batch, leader, sampled>>
      /\ call = "idle" /\ batch = {}
      /\ trainer' = "synced" => prefixCache' = <<>>
      /\ prefixCache' = prefixCache \/ prefixCache' = <<>>
      /\ weights' = weights \/ weights' = weights + 1
      /\ trainer' \in {"synced", "stale"}
  BY <1>0 DEF Update, Sync, Calls
<1>2. weights' \in Nat
  BY <1>0, <1>1 DEF Inv, TypeInv, EngineTypeOK
<1>3. Inv' /\ EndsInv'
  BY <1>0, <1>1, <1>2, WeightsInv
<1>4. UNCHANGED <<tick, prefillQueue, stillPrefilling, chunking, decodeQueue, active, cohort,
                  nextDecode, submitted, retired, gen, versions, finished, cancelled>>
  BY <1>1 DEF requestVars, schedulerVars, queueVars
<1>5. UnbornInv' /\ NoCancel' /\ SamplesComplete' /\ Calls' /\ Queued'
  BY <1>0, <1>1, <1>4 DEF UnbornInv, Unborn, NoCancel, SamplesComplete, Calls, Queued
<1>6. Members'
  BY <1>0, <1>1, <1>4 DEF Members, InScheduler, Prefilling, Decoding
<1>7. SamplesOnPolicy'
  BY <1>1 DEF SamplesOnPolicy, PrefixCacheFresh
<1>8. RolloutTypeOK'
  BY <1>0, <1>1, <1>3 DEF RolloutTypeOK, Inv, TypeInv
<1> QED
  BY <1>3, <1>5, <1>6, <1>7, <1>8 DEF RolloutInv

LEMMA NextRollout == RolloutInv /\ [RolloutNext]_allVars => RolloutInv'
<1> SUFFICES ASSUME RolloutInv, [RolloutNext]_allVars PROVE RolloutInv'
  OBVIOUS
<1>1. CASE RolloutNext
  BY <1>1, GenerateRollout, LeaderRollout, FollowerRollout, EndGroupRollout, RejectRollout,
     TickRollout, ReturnRollout, WeightsRollout DEF RolloutNext, EngineStep
<1>2. CASE UNCHANGED allVars
  <2>0. /\ RolloutTypeOK /\ Calls /\ Queued /\ Members /\ SamplesOnPolicy /\ SamplesComplete
    BY DEF RolloutInv
  <2>1. UNCHANGED vars /\ UNCHANGED <<call, left, batch, leader, trainer, sampled>>
    BY <1>2 DEF allVars, rolloutVars
  <2>2. /\ Inv' /\ UnbornInv' /\ EndsInv' /\ NoCancel'
        /\ \A r \in Request : InScheduler(r)' <=> InScheduler(r)
        /\ PrefixCacheFresh => PrefixCacheFresh'
        /\ UNCHANGED <<tick, submitted, finished, retired, gen, versions, weights>>
    BY <2>1, SameVars
  <2>3. Members' /\ SamplesOnPolicy' /\ SamplesComplete' /\ Calls' /\ Queued'
    BY <2>0, <2>1, <2>2 DEF Members, RolloutTypeOK, SamplesOnPolicy, SamplesComplete, Calls,
                            Queued
  <2>4. RolloutTypeOK'
    BY <2>0, <2>1, <2>2 DEF RolloutTypeOK, Inv, TypeInv
  <2> QED
    BY <2>2, <2>3, <2>4 DEF RolloutInv
<1> QED
  BY <1>1, <1>2

----------------------------------------------------------------------------

\* The inductive invariant of the rollouts holds of every behaviour (rollout.py).
THEOREM RolloutInvariant == RolloutSpec => []RolloutInv
BY InitRollout, NextRollout, PTL DEF RolloutSpec

\* The call, the engine and the scheduler it made have their types (rollout.py).
THEOREM RolloutTypes == RolloutSpec => []RolloutTypeOK
<1>1. RolloutInv => RolloutTypeOK
  BY DEF RolloutInv
<1> QED
  BY <1>1, RolloutInvariant, PTL

\* Whatever the trainer asks for, however often it updates: the rows of a running batch,
\* and of every prefix it can start from, are of the current weights (rollout.py,
\* sync_weights; prefix_cache.py).
THEOREM RolloutsOnPolicy == RolloutSpec => []SamplesOnPolicy
<1>1. RolloutInv => SamplesOnPolicy
  BY DEF RolloutInv
<1> QED
  BY <1>1, RolloutInvariant, PTL

\* No sample is returned before its request ended, by its budget or by end-of-sequence
\* (rollout.py, _build_sample).
THEOREM RolloutsComplete == RolloutSpec => []SamplesComplete
<1>1. RolloutInv => SamplesComplete
  BY DEF RolloutInv
<1> QED
  BY <1>1, RolloutInvariant, PTL

\* No rollout outgrows the context or its budget (rollout.py; engine.py, new_request).
THEOREM RolloutsFit == RolloutSpec => []LimitsKept
<1>1. RolloutInv => LimitsKept
  BY InvContext, InvBounded DEF RolloutInv, LimitsKept
<1> QED
  BY <1>1, RolloutInvariant, PTL

----------------------------------------------------------------------------
(***************************************************************************)
(* One prefill per prompt.  The leader's prompt is in the cache from the   *)
(* commit that completes it to the end of its group, because nothing else  *)
(* prefills meanwhile: only a commit evicts.                               *)
(***************************************************************************)

Prefills == \A r \in Request :
    Prefilling(r) => call = "prefill" /\ r = leader /\ Incomplete(r, prefilled[r])

Committed ==
    call = "prefill" /\ ~Incomplete(leader, prefilled[leader])
        => Prompt[leader] \in Keys(prefixCache)

\* What is left of a call shares a prompt with the group under way only.
GroupsApart ==
    \A s \in batch : \A i \in DOMAIN left :
        Prompt[left[i]] = Prompt[s] => call = "prefill" /\ Prompt[s] = Prompt[leader]

GroupInv == Prefills /\ Committed /\ GroupsApart

\* The entry put or touched last is there.
LEMMA PutKey ==
    ASSUME NEW S, NEW cache \in Seq(S), NEW entry \in S, PrefixCapacity > 0
    PROVE  entry.prefix \in Keys(Put(cache, entry))
<1> DEFINE full == Append(Without(cache, entry.prefix), entry)
           recent == SubSeq(full, Len(full) - PrefixCapacity + 1, Len(full))
<1>1. full \in Seq(S) /\ Len(full) \in Nat \ {0} /\ full[Len(full)] = entry
  <2>1. Without(cache, entry.prefix) \in Seq(S)
    BY WithoutIn
  <2> QED
    BY <2>1
<1> HIDE DEF full
<1>2. CASE Len(full) > PrefixCapacity
  <2>1. /\ recent \in Seq(S) /\ Len(recent) = PrefixCapacity
        /\ recent[PrefixCapacity] = full[Len(full)]
    <3>1. PrefixCapacity \in Nat /\ Len(full) - PrefixCapacity + 1 \in 1 .. Len(full)
      BY <1>1, <1>2
    <3> QED
      BY <1>1, <3>1
  <2>2. PrefixCapacity \in DOMAIN recent
    BY <2>1
  <2>3. Put(cache, entry) = recent
    BY <1>2 DEF Put, full
  <2> QED
    BY <1>1, <2>1, <2>2, <2>3, Zenon DEF Keys
<1>3. CASE ~(Len(full) > PrefixCapacity)
  <2>1. Put(cache, entry) = full
    BY <1>3 DEF Put, full
  <2>2. Len(full) \in DOMAIN full
    BY <1>1
  <2> QED
    BY <1>1, <2>1, <2>2, Zenon DEF Keys
<1> QED
  BY <1>2, <1>3

LEMMA TouchKey ==
    ASSUME NEW S, NEW cache \in Seq(S), NEW prefix \in Keys(cache)
    PROVE  prefix \in Keys(Touch(cache, prefix))
<1>1. Without(cache, prefix) \in Seq(S) /\ Lookup(cache, prefix) \in S
  BY WithoutIn, LookupIn
<1>2. Lookup(cache, prefix).prefix = prefix
  BY DEF Lookup, IndexOf, Keys
<1> DEFINE new == Touch(cache, prefix)
<1>3. Len(new) \in DOMAIN new /\ new[Len(new)] = Lookup(cache, prefix)
  BY <1>1 DEF Touch
<1> QED
  BY <1>2, <1>3, Zenon DEF Keys

LEMMA Squeeze == \A k \in Nat : \A i \in 1 .. k : (k <= i \/ ~(i < k)) => i = k
OBVIOUS

\* A prompt that a warm start finds whole is still in the cache after it.
LEMMA WarmKey ==
    ASSUME Inv, NEW r \in Request, FirstSubmit(r), ~Incomplete(r, prefilled'[r])
    PROVE  Prompt[r] \in Keys(prefixCache')
<1>1. /\ NewRequest(r) /\ r \notin submitted
      /\ prefixCache \in Seq(PrefixEntry) /\ prefilled \in [Request -> Nat]
  BY DEF FirstSubmit, Submit, Inv, TypeInv, EngineTypeOK
<1>2. /\ Prompt[r] \in Seq(Token) /\ Len(Prompt[r]) \in Nat \ {0}
      /\ SubSeq(Prompt[r], 1, Len(Prompt[r])) = Prompt[r]
  BY WholePrompt
<1>3. prefilled[r] = 0
  BY <1>1 DEF Inv, KVInv, KVOf
<1>4. PrefixCapacity > 0 /\ HitLengths(prefixCache, Prompt[r]) # {}
  <2>1. SUFFICES ASSUME ~(PrefixCapacity > 0 /\ HitLengths(prefixCache, Prompt[r]) # {})
                 PROVE  FALSE
    OBVIOUS
  <2>2. prefilled' = prefilled
    BY <1>1, <2>1 DEF NewRequest
  <2> QED
    BY <1>2, <1>3, <2>2 DEF Incomplete
<1> DEFINE hit == LongestHit(prefixCache, Prompt[r])
<1>5. PICK n \in 1 .. Len(Prompt[r]) :
           /\ hit.prefix \in Keys(prefixCache)
           /\ hit.prefix = SubSeq(Prompt[r], 1, n)
           /\ Len(hit.prefix) = n
  <2>1. Exact(prefixCache)
    BY CacheIsExact DEF Inv
  <2> QED
    BY <1>2, <1>4, <2>1, HitFacts
<1>6. /\ prefilled' = [prefilled EXCEPT ![r] = Len(hit.prefix)]
      /\ prefixCache' = Touch(prefixCache, hit.prefix)
  BY <1>1, <1>4 DEF NewRequest
<1> HIDE DEF hit
<1>7. n = Len(Prompt[r])
  <2>1. prefilled'[r] = n
    BY <1>1, <1>5, <1>6
  <2>2. ~(n < Len(Prompt[r]))
    BY <2>1 DEF Incomplete
  <2> QED
    BY <1>2, <2>2, Squeeze
<1>8. hit.prefix = Prompt[r]
  BY <1>2, <1>5, <1>7
<1>9. hit.prefix \in Keys(Touch(prefixCache, hit.prefix))
  BY <1>1, <1>5, TouchKey
<1> QED
  BY <1>6, <1>8, <1>9

\* A request whose prompt is in the cache has nothing to prefill.
LEMMA WarmWhole ==
    ASSUME Inv, NEW r \in Request, NewRequest(r), PrefixCapacity > 0,
           Prompt[r] \in Keys(prefixCache)
    PROVE  ~Incomplete(r, prefilled'[r])
<1>1. /\ Prompt[r] \in Seq(Token) /\ Len(Prompt[r]) \in Nat \ {0}
      /\ SubSeq(Prompt[r], 1, Len(Prompt[r])) = Prompt[r]
  BY WholePrompt
<1> DEFINE hits == HitLengths(prefixCache, Prompt[r])
           n == CHOOSE i \in hits : \A j \in hits : j <= i
           hit == LongestHit(prefixCache, Prompt[r])
<1>2. hits \in SUBSET (1 .. Len(Prompt[r])) /\ Len(Prompt[r]) \in hits
  <2>1. Len(Prompt[r]) \in 1 .. Len(Prompt[r])
    BY <1>1
  <2>2. SubSeq(Prompt[r], 1, Len(Prompt[r])) \in Keys(prefixCache)
    BY <1>1
  <2> QED
    BY <2>1, <2>2, Zenon DEF HitLengths
<1>3. n \in hits /\ \A j \in hits : j <= n
  <2>1. \E i \in hits : \A j \in hits : j <= i
    BY <1>1, <1>2, Greatest
  <2> HIDE DEF hits
  <2> QED
    BY <2>1
<1>4. n = Len(Prompt[r])
  <2> HIDE DEF n, hits
  <2>1. n \in 1 .. Len(Prompt[r]) /\ Len(Prompt[r]) <= n
    BY <1>2, <1>3
  <2> QED
    BY <1>1, <2>1, Squeeze
<1>5. hit = Lookup(prefixCache, Prompt[r])
  <2>1. hit = Lookup(prefixCache, SubSeq(Prompt[r], 1, n))
    BY DEF LongestHit
  <2> QED
    BY <1>1, <1>4, <2>1
<1>6. hit.prefix = Prompt[r]
  BY <1>5 DEF Lookup, IndexOf, Keys
<1>7. prefilled' = [prefilled EXCEPT ![r] = Len(hit.prefix)] /\ prefilled \in [Request -> Nat]
  BY <1>2 DEF NewRequest, Inv, TypeInv, EngineTypeOK
<1> HIDE DEF hit
<1> QED
  BY <1>1, <1>6, <1>7 DEF Incomplete

LEMMA TickGroup ==
    ASSUME RolloutInv, GroupInv, PrefixCapacity > 0, BeginTick \/ RunTick
    PROVE  GroupInv'
<1>0. /\ Inv /\ Phases /\ SchedulerTypeOK /\ Calls /\ batch \subseteq Request
      /\ DecodeScan \/ TickStep
      /\ UNCHANGED <<call, left, batch, leader>>
  BY DEF RolloutInv, BeginTick, RunTick, rolloutVars, Inv, TypeInv, RolloutTypeOK
<1>1. CASE PrefillRun
  <2>1. tick = "chunk" /\ PrefillAndCommit(chunking) /\ chunking \in Request
    BY <1>0, <1>1 DEF PrefillRun, Phases, SchedulerTypeOK
  <2>2. call = "prefill" /\ chunking = leader /\ Prefilling(chunking)
    BY <2>1 DEF GroupInv, Prefills, Prefilling
  <2>3. Prefills'
    BY <1>0, <1>1, <2>2, RunMoves DEF GroupInv, Prefills
  <2>4. Committed'
    <3>1. SUFFICES ASSUME ~Incomplete(leader, prefilled'[leader])
                   PROVE  Prompt[leader] \in Keys(prefixCache')
      BY <1>0 DEF Committed
    <3> DEFINE r == chunking
               n == ChunkSize(r)
               fed == IF n = 0 THEN versions[r] ELSE versions[r] \cup {weights}
               rows == IF n = 0 THEN logits[r] ELSE Len(ChunkedKv(r))
               entry == [prefix |-> Prompt[r], kv |-> ChunkedKv(r), versions |-> fed,
                         logits |-> rows]
    <3>2. /\ prefilled' = [prefilled EXCEPT ![r] = @ + n]
          /\ prefixCache' = IF PrefixCapacity > 0 /\ RemainingPrefill(r) = n
                            THEN Put(prefixCache, entry) ELSE prefixCache
      BY <2>1 DEF PrefillAndCommit
    <3>3. /\ prefilled \in [Request -> Nat] /\ prefixCache \in Seq(PrefixEntry)
          /\ Len(Prompt[r]) \in Nat
      BY <1>0, <2>1, WholePrompt DEF Inv, TypeInv, EngineTypeOK
    <3>4. prefilled'[r] <= Len(Prompt[r])
      BY <1>0, <2>1, <3>3, ChunkRun
    <3>5. n \in Int
      BY <2>1, <3>3 DEF ChunkSize, RemainingPrefill
    <3> HIDE DEF n
    <3>6. prefilled'[r] = prefilled[r] + n
      BY <2>1, <3>2, <3>3
    <3>7. RemainingPrefill(r) = n
      BY <2>1, <2>2, <3>1, <3>3, <3>4, <3>5, <3>6 DEF Incomplete, RemainingPrefill
    <3> DEFINE Any == PrefixEntry \cup {entry}
    <3>8. prefixCache \in Seq(Any) /\ entry \in Any /\ entry.prefix = Prompt[r]
      <4>1. PrefixEntry \subseteq Any /\ entry \in Any /\ entry.prefix = Prompt[r]
        OBVIOUS
      <4> HIDE DEF Any, entry
      <4>2. prefixCache \in Seq(Any)
        BY <3>3, <4>1
      <4> QED
        BY <4>1, <4>2
    <3> HIDE DEF entry, Any
    <3>9. entry.prefix \in Keys(Put(prefixCache, entry))
      BY <3>8, PutKey
    <3> QED
      BY <2>2, <3>2, <3>7, <3>8, <3>9
  <2> QED
    BY <1>0, <2>3, <2>4 DEF GroupInv, GroupsApart
<1>2. CASE ~PrefillRun
  <2>1. UNCHANGED <<prefilled, prefixCache>>
    BY <1>0, <1>2 DEF DecodeScan, TickStep, AdvanceGroup, AdvanceAlone, Feed, Settle,
                    DecodeEnd, PrefillPop, PrefillEnd, Retire, DecodeGroupBatched,
                    DecodeSample, DecodeForward, Sample, engineVars, requestVars
  <2>2. \A q \in Request : Prefilling(q)' => Prefilling(q)
    BY <1>0, <1>2, DecodeMoves, PopMoves DEF DecodeSide, QueueSide, TickStep
  <2>3. Prefills'
    BY <1>0, <2>1, <2>2 DEF GroupInv, Prefills, Incomplete
  <2>4. Committed'
    BY <1>0, <2>1 DEF GroupInv, Committed, Incomplete
  <2> QED
    BY <1>0, <2>3, <2>4 DEF GroupInv, GroupsApart
<1> QED
  BY <1>1, <1>2

LEMMA LeaderGroup ==
    ASSUME RolloutInv, GroupInv, SubmitLeader
    PROVE  /\ GroupInv'
           /\ \A r \in batch' \ batch : \A s \in batch : Prompt[s] # Prompt[r]
<1> DEFINE r == Head(left)
<1>0. /\ RolloutTypeOK /\ Calls /\ Queued /\ Inv /\ UnbornInv
  BY DEF RolloutInv
<1>1. /\ call = "groups" /\ left # <<>> /\ Admissible(r) /\ Submit(r) /\ call' = "prefill"
      /\ leader' = r /\ left' = Tail(left) /\ batch' = batch \cup {r}
  BY DEF SubmitLeader
<1>2. /\ Tail(left) \in Seq(Request) /\ r \in Request /\ InSeq(r, left)
      /\ \A y : InSeq(y, left) <=> y = r \/ InSeq(y, Tail(left))
  BY <1>0, <1>1, TailFacts DEF RolloutTypeOK
<1> HIDE DEF r
<1>3. FirstSubmit(r)
  BY <1>0, <1>1, <1>2 DEF FirstSubmit, UnbornInv, Calls, Queued, InSeq
<1>4. Prefills'
  <2>1. \A q \in Request : ~Prefilling(q)
    BY <1>1 DEF GroupInv, Prefills
  <2>2. \A q \in Request : Prefilling(q)' => q = r /\ Incomplete(q, prefilled'[q])
    BY <1>0, <1>2, <1>3, <2>1, SubmitMoves
  <2> QED
    BY <1>1, <2>2 DEF Prefills, Incomplete
<1>5. Committed'
  BY <1>0, <1>1, <1>2, <1>3, WarmKey DEF Committed
<1>6. \A s \in batch : \A y : InSeq(y, left) => Prompt[y] # Prompt[s]
  BY <1>1 DEF GroupInv, GroupsApart, InSeq
<1>7. GroupsApart'
  <2>1. ASSUME NEW i \in DOMAIN Tail(left), NEW s \in batch
        PROVE  Prompt[Tail(left)[i]] # Prompt[s]
    <3>1. InSeq(Tail(left)[i], Tail(left))
      BY DEF InSeq
    <3> QED
      BY <1>2, <1>6, <3>1
  <2> QED
    BY <1>1, <2>1 DEF GroupsApart
<1> QED
  BY <1>1, <1>2, <1>4, <1>5, <1>6, <1>7 DEF GroupInv

LEMMA FollowerGroup ==
    ASSUME RolloutInv, GroupInv, PrefixCapacity > 0, SubmitFollower
    PROVE  /\ GroupInv'
           /\ batch' \ batch \subseteq decodeQueue'
<1> DEFINE k == NextInGroup
           r == left[k]
<1>0. /\ RolloutTypeOK /\ Calls /\ Queued /\ Inv /\ UnbornInv /\ leader \in Request
  BY DEF RolloutInv, SubmitFollower, Calls, RolloutTypeOK
<1>1. /\ call = "prefill" /\ LeaderReady /\ Admissible(r) /\ Submit(r)
      /\ left' = Removed(left, k) /\ batch' = batch \cup {r}
      /\ UNCHANGED <<call, leader>>
  BY DEF SubmitFollower, Removed
<1>2. k \in DOMAIN left /\ left \in Seq(Request) /\ Prompt[r] = Prompt[leader]
  BY <1>0, NextInLeft DEF SubmitFollower, RolloutTypeOK
<1> HIDE DEF k
<1>3. k \in 1 .. Len(left) /\ r \in Request
  BY <1>2
<1>4. \A i \in DOMAIN Removed(left, k) :
        \E j \in DOMAIN left : j # k /\ Removed(left, k)[i] = left[j]
  BY <1>2, <1>3, RemovedFacts
<1>5. FirstSubmit(r) /\ NewRequest(r)
  BY <1>0, <1>1, <1>2, <1>3 DEF FirstSubmit, UnbornInv, LeaderReady, Queued, Submit
<1> HIDE DEF r
<1>6. ~Incomplete(leader, prefilled[leader])
  <2>1. Len(Prompt[leader]) \in Nat /\ prefilled[leader] \in Nat
    BY <1>0, WholePrompt DEF RolloutTypeOK, EngineTypeOK
  <2> QED
    BY <1>1, <2>1 DEF LeaderReady, RemainingPrefill, Incomplete
<1>7. ~Incomplete(r, prefilled'[r])
  <2>1. Prompt[r] \in Keys(prefixCache)
    BY <1>1, <1>2, <1>6 DEF GroupInv, Committed
  <2> QED
    BY <1>0, <1>3, <1>5, <2>1, WarmWhole
<1>8. Prefills'
  <2>1. \A q \in Request : Prefilling(q)' => Prefilling(q)
    BY <1>0, <1>3, <1>5, <1>7, SubmitMoves
  <2>2. \A q \in Request : ~Prefilling(q)
    BY <1>0, <1>6 DEF GroupInv, Prefills
  <2> QED
    BY <2>1, <2>2 DEF Prefills
<1>9. Committed'
  <2>1. Prompt[r] \in Keys(prefixCache')
    BY <1>0, <1>3, <1>5, <1>7, WarmKey
  <2> QED
    BY <1>1, <1>2, <2>1 DEF Committed
<1>10. GroupsApart'
  <2>1. ASSUME NEW i \in DOMAIN Removed(left, k), NEW s \in batch \cup {r},
               Prompt[Removed(left, k)[i]] = Prompt[s]
        PROVE  Prompt[s] = Prompt[leader]
    <3>1. PICK j \in DOMAIN left : Removed(left, k)[i] = left[j]
      BY <1>4
    <3> QED
      BY <1>2, <2>1, <3>1 DEF GroupInv, GroupsApart
  <2> QED
    BY <1>1, <2>1 DEF GroupsApart
<1>11. r \in decodeQueue'
  BY <1>1, <1>7 DEF Submit
<1> QED
  BY <1>1, <1>8, <1>9, <1>10, <1>11 DEF GroupInv

\* The steps that submit nothing and tick nothing.
LEMMA OtherGroup ==
    ASSUME RolloutInv, GroupInv,
           \/ \E requests \in Batches : GenerateBatch(requests)
           \/ EndGroup \/ Reject \/ Return \/ Update \/ Sync \/ UNCHANGED allVars
    PROVE  GroupInv' /\ batch' \subseteq batch
<1>0. /\ RolloutTypeOK /\ Calls /\ Queued /\ Inv /\ Phases /\ SchedulerTypeOK
  BY DEF RolloutInv, Inv, TypeInv
<1>1. UNCHANGED <<prefilled, stillPrefilling, chunking>>
  BY DEF GenerateBatch, EndGroup, Reject, Return, Update, Sync, allVars, vars, engineVars,
         requestVars, schedulerVars, queueVars
<1>2. batch' = batch \/ batch' = {}
  BY DEF GenerateBatch, EndGroup, Reject, Return, Update, Sync, allVars, rolloutVars
<1>3. CASE EndGroup
  <2>1. /\ call = "prefill" /\ LeaderReady /\ GroupLeft = {} /\ call' = "groups"
        /\ UNCHANGED <<prefillQueue, left, batch>> /\ leader \in Request
    BY <1>0, <1>3 DEF EndGroup, vars, schedulerVars, queueVars, Calls, RolloutTypeOK
  <2>2. ~Incomplete(leader, prefilled[leader])
    <3>1. Len(Prompt[leader]) \in Nat /\ prefilled[leader] \in Nat
      BY <1>0, <2>1, WholePrompt DEF RolloutTypeOK, EngineTypeOK
    <3> QED
      BY <2>1, <3>1 DEF LeaderReady, RemainingPrefill, Incomplete
  <2>3. \A q \in Request : ~Prefilling(q)'
    BY <1>1, <2>1, <2>2 DEF GroupInv, Prefills, Prefilling
  <2>4. GroupsApart'
    BY <2>1 DEF GroupInv, GroupsApart, GroupLeft
  <2> QED
    BY <2>1, <2>3, <2>4 DEF GroupInv, Prefills, Committed
<1>4. CASE Reject
  <2>1. tick = "idle" /\ prefillQueue' = <<>> /\ call' = "idle" /\ batch' = {}
    BY <1>0, <1>4 DEF Reject, LeaderReady, Calls
  <2>2. \A q \in Request : ~Prefilling(q)'
    BY <1>0, <1>1, <2>1, EmptyFacts DEF Prefilling, Phases
  <2> QED
    BY <2>1, <2>2 DEF GroupInv, Prefills, Committed, GroupsApart
<1>5. CASE \/ \E requests \in Batches : GenerateBatch(requests)
           \/ Return \/ Update \/ Sync
  <2>1. /\ call # "prefill" /\ call' # "prefill" /\ UNCHANGED prefillQueue
        /\ batch' = {}
    BY <1>0, <1>5 DEF GenerateBatch, Return, Update, Sync, vars, schedulerVars, queueVars, Calls
  <2>2. \A q \in Request : ~Prefilling(q)'
    BY <1>1, <2>1 DEF GroupInv, Prefills, Prefilling
  <2> QED
    BY <2>1, <2>2 DEF GroupInv, Prefills, Committed, GroupsApart
<1>6. CASE UNCHANGED allVars
  <2>1. /\ UNCHANGED <<prefilled, stillPrefilling, chunking, prefillQueue, prefixCache>>
        /\ UNCHANGED <<call, left, batch, leader>>
    BY <1>6 DEF allVars, vars, engineVars, requestVars, schedulerVars, queueVars, rolloutVars
  <2> QED
    BY <2>1 DEF GroupInv, Prefills, Committed, GroupsApart, Prefilling, Incomplete
<1> QED
  BY <1>2, <1>3, <1>4, <1>5, <1>6

\* Every prompt of a call is prefilled once: a request submitted after another one of its
\* call with the same prompt goes straight to the decode queue (rollout.py, generate_batch;
\* the constructor refuses a capacity of 0).
THEOREM PromptsPrefillOnce == ASSUME PrefixCapacity > 0 PROVE RolloutSpec => GroupPrefillsOnce
<1> DEFINE Step == \A r \in batch' \ batch :
                      (\E s \in batch : Prompt[s] = Prompt[r]) => r \in decodeQueue'
<1>1. RolloutInit => GroupInv
  <2>1. RolloutInit => RolloutInv /\ ~HasWork /\ tick = "idle" /\ call = "idle" /\ batch = {}
    BY InitRollout DEF RolloutInit, Init, SchedulerInit, HasWork
  <2>2. ASSUME RolloutInit PROVE \A r \in Request : ~Prefilling(r)
    BY <2>1, <2>2, IdleEmpty DEF RolloutInv, InScheduler
  <2> QED
    BY <2>1, <2>2 DEF GroupInv, Prefills, Committed, GroupsApart
<1>2. RolloutInv /\ GroupInv /\ [RolloutNext]_allVars => GroupInv' /\ Step
  <2> SUFFICES ASSUME RolloutInv, GroupInv, [RolloutNext]_allVars PROVE GroupInv' /\ Step
    OBVIOUS
  <2>1. CASE SubmitLeader
    BY <2>1, LeaderGroup
  <2>2. CASE SubmitFollower
    BY <2>2, FollowerGroup
  <2>3. CASE BeginTick \/ RunTick
    BY <2>3, TickGroup DEF BeginTick, RunTick, rolloutVars
  <2>4. CASE \/ \E requests \in Batches : GenerateBatch(requests)
             \/ EndGroup \/ Reject \/ Return \/ Update \/ Sync \/ UNCHANGED allVars
    BY <2>4, OtherGroup
  <2> QED
    BY <2>1, <2>2, <2>3, <2>4 DEF RolloutNext, EngineStep
<1>3. RolloutInv /\ GroupInv /\ [RolloutNext]_allVars => GroupInv' /\ [Step]_allVars
  BY <1>2
<1> QED
  BY <1>1, <1>3, RolloutInvariant, PTL DEF RolloutSpec, GroupPrefillsOnce

=============================================================================
