-------------------------- MODULE Scheduler_proofs --------------------------
(***************************************************************************)
(* Proofs about Scheduler, for every set of requests, prompts, budgets,    *)
(* chunk size, context length and cache capacity.  The inductive invariant *)
(* has one part per question: types, where a request can be (Phases and    *)
(* Places), what the prefix cache holds, what the KV caches hold, what has *)
(* been generated, and who can have been cancelled.                        *)
(***************************************************************************)
EXTENDS Scheduler, NaturalsInduction, WellFoundedInduction, FiniteSetTheorems, TLAPS

TypeInv == EngineTypeOK /\ SchedulerTypeOK

\* What each point of a tick knows of the variables local to _decode_step and
\* _prefill_step.
Phases ==
    /\ tick \in {"idle", "prefill", "chunk"} => active = {} /\ cohort = {} /\ nextDecode = {}
    /\ tick = "cohorts" => cohort = {}
    /\ tick = "feed" => \E r \in Request : cohort = {r}
    /\ chunking = NoRequest <=> tick # "chunk"
    /\ tick \notin {"prefill", "chunk"} => stillPrefilling = <<>>

Distinct(seq) == \A i, j \in DOMAIN seq : seq[i] = seq[j] => i = j

\* A request waits in one queue, or is in one of the sets of the decode step; then it
\* is submitted and not retired.
Placed(r) ==
    /\ ~(InSeq(r, prefillQueue) /\ InSeq(r, stillPrefilling))
    /\ chunking = r => ~InSeq(r, prefillQueue) /\ ~InSeq(r, stillPrefilling)
    /\ ~(Prefilling(r) /\ Decoding(r))
    /\ Prefilling(r) \/ Decoding(r) => r \in submitted /\ retired[r] = 0
    /\ retired[r] <= 1
    /\ r \notin submitted => retired[r] = 0

Places ==
    /\ Distinct(prefillQueue)
    /\ Distinct(stillPrefilling)
    /\ active \cap cohort = {} /\ active \cap nextDecode = {} /\ cohort \cap nextDecode = {}
    /\ \A r \in Request : Placed(r)

\* The KV cache holds the prompt and all that was generated.
Whole(r) == kv[r] = Prompt[r] \o gen[r]

\* The last token generated was not fed to the model.
Short(r) ==
    /\ gen[r] # <<>>
    /\ kv[r] = Prompt[r] \o SubSeq(gen[r], 1, Len(gen[r]) - 1)

\* A member of a cohort is short between sampling and feeding, and after that only
\* if it is finished.
InCohort(r) == IF tick = "feed" THEN Short(r) ELSE Whole(r) \/ (finished[r] /\ Short(r))

KVOf(r) ==
    /\ logits[r] = Len(kv[r])
    /\ r \notin submitted => prefilled[r] = 0 /\ kv[r] = <<>>
    /\ Prefilling(r) =>
         /\ prefilled[r] <= Len(Prompt[r])
         /\ kv[r] = SubSeq(Prompt[r], 1, prefilled[r])
         /\ gen[r] = <<>>
    /\ Decoding(r) => prefilled[r] = Len(Prompt[r])
    /\ Decoding(r) /\ r \notin cohort => Whole(r)
    /\ r \in cohort => InCohort(r)

KVInv == \A r \in Request : KVOf(r)

\* No end-of-sequence token was generated by a request that stops at it.
Open(r) == r \in StopsAtEos => \A i \in DOMAIN gen[r] : gen[r][i] # Eos

BoundsOf(r) ==
    /\ r \in submitted => Admissible(r)
    /\ Len(gen[r]) <= MaxNew[r]
    /\ r \in StopsAtEos => \A i \in 1 .. Len(gen[r]) - 1 : gen[r][i] # Eos
    /\ r \in active => Len(gen[r]) < MaxNew[r]
    /\ Decoding(r) /\ r \notin cohort => Open(r)
    /\ r \in cohort => finished[r] \/ Open(r)
    /\ Len(kv[r]) <= Len(Prompt[r]) + Len(gen[r])

BoundInv == \A r \in Request : BoundsOf(r)

Inv ==
    /\ TypeInv
    /\ Phases
    /\ Places
    /\ PrefixCacheExact
    /\ KVInv
    /\ BoundInv

----------------------------------------------------------------------------
(***************************************************************************)
(* Sequences: queues of requests, and the prefix cache.                    *)
(***************************************************************************)

LEMMA AppendFacts ==
    ASSUME NEW S, NEW s \in Seq(S), NEW x \in S
    PROVE  /\ Append(s, x) \in Seq(S)
           /\ \A y : InSeq(y, Append(s, x)) <=> InSeq(y, s) \/ y = x
           /\ Distinct(s) /\ ~InSeq(x, s) => Distinct(Append(s, x))
<1>1. /\ Append(s, x) \in Seq(S)
      /\ DOMAIN Append(s, x) = 1 .. Len(s) + 1
      /\ DOMAIN s = 1 .. Len(s) /\ Len(s) \in Nat
      /\ \A i \in 1 .. Len(s) : Append(s, x)[i] = s[i]
      /\ Append(s, x)[Len(s) + 1] = x
  OBVIOUS
<1>2. ASSUME NEW y PROVE InSeq(y, Append(s, x)) <=> InSeq(y, s) \/ y = x
  BY <1>1 DEF InSeq
<1>3. ASSUME Distinct(s), ~InSeq(x, s) PROVE Distinct(Append(s, x))
  BY <1>1, <1>3 DEF Distinct, InSeq
<1> QED
  BY <1>1, <1>2, <1>3

LEMMA TailFacts ==
    ASSUME NEW S, NEW s \in Seq(S), s # <<>>
    PROVE  /\ Tail(s) \in Seq(S)
           /\ Head(s) \in S
           /\ InSeq(Head(s), s)
           /\ \A y : InSeq(y, s) <=> y = Head(s) \/ InSeq(y, Tail(s))
           /\ Distinct(s) => Distinct(Tail(s)) /\ ~InSeq(Head(s), Tail(s))
<1>1. /\ Tail(s) \in Seq(S)
      /\ Head(s) \in S /\ Head(s) = s[1]
      /\ Len(s) \in Nat /\ Len(s) >= 1
      /\ DOMAIN s = 1 .. Len(s)
      /\ DOMAIN Tail(s) = 1 .. Len(s) - 1
      /\ \A i \in 1 .. Len(s) - 1 : Tail(s)[i] = s[i + 1]
  OBVIOUS
<1>2. ASSUME NEW y PROVE InSeq(y, s) <=> y = Head(s) \/ InSeq(y, Tail(s))
  <2>1. ASSUME NEW i \in DOMAIN s, s[i] = y, i # 1 PROVE InSeq(y, Tail(s))
    <3>1. i - 1 \in DOMAIN Tail(s) /\ Tail(s)[i - 1] = y
      BY <1>1, <2>1
    <3> QED
      BY <3>1 DEF InSeq
  <2> QED
    BY <1>1, <2>1 DEF InSeq
<1>3. ASSUME Distinct(s) PROVE Distinct(Tail(s)) /\ ~InSeq(Head(s), Tail(s))
  BY <1>1, <1>3 DEF Distinct, InSeq
<1> QED
  BY <1>1, <1>2, <1>3

LEMMA EmptyFacts ==
    \A y : ~InSeq(y, <<>>)
BY DEF InSeq

LEMMA ConcatFacts ==
    ASSUME NEW S, NEW s \in Seq(S), NEW t \in Seq(S)
    PROVE  /\ s \o t \in Seq(S)
           /\ Len(s \o t) = Len(s) + Len(t)
           /\ \A i \in 1 .. Len(s) : (s \o t)[i] = s[i]
           /\ \A i \in 1 .. Len(t) : (s \o t)[Len(s) + i] = t[i]
<1>1. s \o t \in Seq(S)
  OBVIOUS
<1>2. Len(s \o t) = Len(s) + Len(t)
  OBVIOUS
<1>3. ASSUME NEW i \in 1 .. Len(s) PROVE (s \o t)[i] = s[i]
  OBVIOUS
<1>4. ASSUME NEW i \in 1 .. Len(t) PROVE (s \o t)[Len(s) + i] = t[i]
  OBVIOUS
<1> QED
  BY <1>1, <1>2, <1>3, <1>4

\* A sequence that has the elements of two others, one after the other.
LEMMA SameConcat ==
    ASSUME NEW S, NEW s \in Seq(S), NEW t \in Seq(S), NEW both \in Seq(S),
           Len(both) = Len(s) + Len(t),
           \A i \in 1 .. Len(s) : both[i] = s[i],
           \A i \in 1 .. Len(t) : both[Len(s) + i] = t[i]
    PROVE  s \o t = both
<1>1. s \o t \in Seq(S) /\ Len(s \o t) = Len(both)
  BY ConcatFacts
<1>2. ASSUME NEW i \in 1 .. Len(both) PROVE (s \o t)[i] = both[i]
  <2>1. CASE i <= Len(s)
    BY <2>1
  <2>2. CASE ~(i <= Len(s))
    <3>1. i - Len(s) \in 1 .. Len(t) /\ Len(s) + (i - Len(s)) = i
      BY <2>2
    <3>2. both[i] = t[i - Len(s)]
      BY <3>1
    <3>3. (s \o t)[i] = t[i - Len(s)]
      BY <2>2, <3>1
    <3> QED
      BY <3>2, <3>3
  <2> QED
    BY <2>1, <2>2
<1> QED
  BY <1>1, <1>2

LEMMA SubSeqFacts ==
    ASSUME NEW S, NEW s \in Seq(S), NEW m \in Nat, NEW n \in Nat, m + n <= Len(s)
    PROVE  /\ SubSeq(s, 1, m) \o SubSeq(s, m + 1, m + n) = SubSeq(s, 1, m + n)
           /\ SubSeq(s, 1, m + n) \in Seq(S)
           /\ Len(SubSeq(s, 1, m + n)) = m + n
<1> DEFINE left == SubSeq(s, 1, m)
           right == SubSeq(s, m + 1, m + n)
           both == SubSeq(s, 1, m + n)
<1>1. left \in Seq(S) /\ Len(left) = m /\ \A i \in 1 .. m : left[i] = s[i]
  OBVIOUS
<1>2. right \in Seq(S) /\ Len(right) = n /\ \A i \in 1 .. n : right[i] = s[m + i]
  OBVIOUS
<1>3. both \in Seq(S) /\ Len(both) = m + n /\ \A i \in 1 .. m + n : both[i] = s[i]
  OBVIOUS
<1> HIDE DEF left, right, both
<1>4. /\ \A i \in 1 .. Len(left) : both[i] = left[i]
      /\ \A i \in 1 .. Len(right) : both[Len(left) + i] = right[i]
      /\ Len(both) = Len(left) + Len(right)
  <2>1. ASSUME NEW i \in 1 .. m PROVE both[i] = left[i]
    BY <1>1, <1>3
  <2>2. ASSUME NEW i \in 1 .. n PROVE both[m + i] = right[i]
    <3>1. m + i \in 1 .. m + n
      OBVIOUS
    <3> QED
      BY <1>2, <1>3, <3>1
  <2> QED
    BY <1>1, <1>2, <1>3, <2>1, <2>2
<1>5. left \o right = both
  BY <1>1, <1>2, <1>3, <1>4, SameConcat
<1> QED
  BY <1>3, <1>5 DEF left, right, both

\* One more token at the end of a continuation.
LEMMA Extend ==
    ASSUME NEW S, NEW s \in Seq(S), NEW t \in Seq(S), NEW x \in S
    PROVE  /\ Append(s \o t, x) = s \o Append(t, x)
           /\ SubSeq(Append(t, x), 1, Len(Append(t, x)) - 1) = t
           /\ Append(t, x) # <<>>
<1>1. Append(s \o t, x) = s \o Append(t, x)
  OBVIOUS
<1>2. SubSeq(Append(t, x), 1, Len(Append(t, x)) - 1) = t
  OBVIOUS
<1> QED
  BY <1>1, <1>2

LEMMA ExtendTokens ==
    \A s, t \in Seq(Token), x \in Token : Append(s \o t, x) = s \o Append(t, x)
<1>1. ASSUME NEW s \in Seq(Token), NEW t \in Seq(Token), NEW x \in Token
      PROVE  Append(s \o t, x) = s \o Append(t, x)
  OBVIOUS
<1> QED
  BY <1>1

\* The last token put back.
LEMMA Restore ==
    ASSUME NEW S, NEW s \in Seq(S), NEW t \in Seq(S), t # <<>>
    PROVE  /\ Append(s \o SubSeq(t, 1, Len(t) - 1), t[Len(t)]) = s \o t
           /\ t[Len(t)] \in S
<1>1. Len(t) \in Nat \ {0}
  OBVIOUS
<1>2. t[Len(t)] \in S /\ SubSeq(t, 1, Len(t) - 1) \in Seq(S)
  BY <1>1
<1>3. Append(SubSeq(t, 1, Len(t) - 1), t[Len(t)]) = t
  BY <1>1
<1> DEFINE start == SubSeq(t, 1, Len(t) - 1)
           last == t[Len(t)]
<1> HIDE DEF start, last
<1>4. Append(s \o start, last) = s \o Append(start, last)
  <2>1. start \in Seq(S) /\ last \in S
    BY <1>2 DEF start, last
  <2> QED
    BY <2>1
<1> QED
  BY <1>2, <1>3, <1>4 DEF start, last

\* The entries of a cache hold what their prefixes say, and each prefix has one.
Exact(cache) ==
    /\ cache \in Seq(PrefixEntry)
    /\ \A i \in DOMAIN cache :
         /\ cache[i].kv = cache[i].prefix
         /\ cache[i].logits = Len(cache[i].prefix)
         /\ \A j \in DOMAIN cache : cache[i].prefix = cache[j].prefix => i = j

\* Without removes the entry of a prefix, and no other.
LEMMA WithoutFacts ==
    ASSUME NEW cache, Exact(cache), NEW prefix
    PROVE  /\ Exact(Without(cache, prefix))
           /\ prefix \notin Keys(Without(cache, prefix))
           /\ Len(Without(cache, prefix)) <= Len(cache)
           /\ prefix \in Keys(cache) => Len(Without(cache, prefix)) + 1 = Len(cache)
<1>1. CASE prefix \notin Keys(cache)
  BY <1>1 DEF Without, Exact
<1>2. CASE prefix \in Keys(cache)
  <2> DEFINE at == IndexOf(cache, prefix)
             left == SubSeq(cache, 1, at - 1)
             right == SubSeq(cache, at + 1, Len(cache))
             rest == Without(cache, prefix)
  <2>1. at \in DOMAIN cache /\ cache[at].prefix = prefix
    BY <1>2 DEF Keys, IndexOf
  <2>2. rest = left \o right
    BY <1>2 DEF Without
  <2>3. cache \in Seq(PrefixEntry) /\ Len(cache) \in Nat /\ at \in 1 .. Len(cache)
    BY <2>1 DEF Exact
  <2> HIDE DEF at
  <2>4. /\ left \in Seq(PrefixEntry) /\ Len(left) = at - 1
        /\ \A i \in 1 .. at - 1 : left[i] = cache[i]
    BY <2>3
  <2>5. /\ right \in Seq(PrefixEntry) /\ Len(right) = Len(cache) - at
        /\ \A i \in 1 .. Len(cache) - at : right[i] = cache[at + i]
    BY <2>3
  <2> HIDE DEF left, right, rest
  <2>6. rest \in Seq(PrefixEntry) /\ Len(rest) = Len(cache) - 1
    BY <2>2, <2>3, <2>4, <2>5
  <2> DEFINE Old(i) == IF i < at THEN i ELSE i + 1
  <2>7. ASSUME NEW i \in DOMAIN rest
        PROVE  Old(i) \in DOMAIN cache /\ Old(i) # at /\ rest[i] = cache[Old(i)]
    <3>1. i \in 1 .. Len(cache) - 1
      BY <2>3, <2>6
    <3>2. CASE i < at
      BY <2>2, <2>3, <2>4, <2>5, <3>1, <3>2
    <3>3. CASE ~(i < at)
      <4>1. i - Len(left) \in 1 .. Len(right)
        BY <2>3, <2>4, <2>5, <3>1, <3>3
      <4>2. rest[i] = right[i - Len(left)]
        BY <2>2, <2>3, <2>4, <2>5, <3>1, <3>3
      <4>3. at + (i - Len(left)) = i + 1 /\ Old(i) = i + 1
        BY <2>3, <2>4, <3>1, <3>3
      <4>4. right[i - Len(left)] = cache[i + 1]
        BY <2>5, <4>1, <4>3
      <4>5. i + 1 \in DOMAIN cache /\ i + 1 # at
        BY <2>3, <3>1, <3>3
      <4> QED
        BY <4>2, <4>3, <4>4, <4>5
    <3> QED
      BY <3>2, <3>3
  <2>8. ASSUME NEW i \in DOMAIN rest, NEW j \in DOMAIN rest, Old(i) = Old(j)
        PROVE  i = j
    BY <2>3, <2>6, <2>8
  <2> HIDE DEF Old
  <2>9. Exact(rest)
    BY <2>6, <2>7, <2>8 DEF Exact
  <2>10. prefix \notin Keys(rest)
    BY <2>1, <2>7 DEF Keys, Exact
  <2> QED
    BY <2>3, <2>6, <2>9, <2>10 DEF rest
<1> QED
  BY <1>1, <1>2

LEMMA LookupFacts ==
    ASSUME NEW cache, Exact(cache), NEW prefix \in Keys(cache)
    PROVE  /\ Lookup(cache, prefix) \in PrefixEntry
           /\ Lookup(cache, prefix).prefix = prefix
           /\ Lookup(cache, prefix).kv = prefix
           /\ Lookup(cache, prefix).logits = Len(prefix)
<1>1. IndexOf(cache, prefix) \in DOMAIN cache /\ cache[IndexOf(cache, prefix)].prefix = prefix
  BY DEF Keys, IndexOf
<1> QED
  BY <1>1 DEF Lookup, Exact

LEMMA AppendEntry ==
    ASSUME NEW cache, Exact(cache), NEW entry \in PrefixEntry,
           entry.kv = entry.prefix, entry.logits = Len(entry.prefix),
           entry.prefix \notin Keys(cache)
    PROVE  Exact(Append(cache, entry)) /\ Len(Append(cache, entry)) = Len(cache) + 1
<1> DEFINE new == Append(cache, entry)
<1>1. /\ new \in Seq(PrefixEntry) /\ Len(new) = Len(cache) + 1
      /\ DOMAIN new = 1 .. Len(cache) + 1
      /\ DOMAIN cache = 1 .. Len(cache) /\ Len(cache) \in Nat
      /\ new[Len(cache) + 1] = entry
      /\ \A i \in 1 .. Len(cache) : new[i] = cache[i]
  BY DEF Exact
<1>2. \A i \in DOMAIN cache : cache[i].prefix # entry.prefix
  BY DEF Keys
<1> HIDE DEF new
<1>3. ASSUME NEW i \in DOMAIN new
      PROVE  /\ new[i].kv = new[i].prefix
             /\ new[i].logits = Len(new[i].prefix)
  BY <1>1 DEF Exact
<1>4. ASSUME NEW i \in DOMAIN new, NEW j \in DOMAIN new, new[i].prefix = new[j].prefix
      PROVE  i = j
  BY <1>1, <1>2, <1>4 DEF Exact
<1>5. Exact(new)
  BY <1>1, <1>3, <1>4 DEF Exact
<1> QED
  BY <1>1, <1>5 DEF new

\* The most recent n entries of a cache.
LEMMA RecentFacts ==
    ASSUME NEW cache, Exact(cache), NEW n \in Nat, n < Len(cache)
    PROVE  /\ Exact(SubSeq(cache, Len(cache) - n + 1, Len(cache)))
           /\ Len(SubSeq(cache, Len(cache) - n + 1, Len(cache))) = n
<1> DEFINE m == Len(cache) - n
           recent == SubSeq(cache, m + 1, Len(cache))
<1>1. cache \in Seq(PrefixEntry) /\ Len(cache) \in Nat
  BY DEF Exact
<1>2. /\ recent \in Seq(PrefixEntry) /\ Len(recent) = n
      /\ m \in Nat
      /\ \A i \in 1 .. n : m + i \in 1 .. Len(cache) /\ recent[i] = cache[m + i]
  BY <1>1
<1> HIDE DEF recent, m
<1>3. DOMAIN recent = 1 .. n /\ DOMAIN cache = 1 .. Len(cache)
  BY <1>1, <1>2
<1>4. ASSUME NEW i \in 1 .. n, NEW j \in 1 .. n, m + i = m + j PROVE i = j
  BY <1>2, <1>4
<1>5. ASSUME NEW i \in DOMAIN recent
      PROVE  /\ recent[i].kv = recent[i].prefix
             /\ recent[i].logits = Len(recent[i].prefix)
  BY <1>2, <1>3 DEF Exact
<1>6. ASSUME NEW i \in DOMAIN recent, NEW j \in DOMAIN recent,
             recent[i].prefix = recent[j].prefix
      PROVE  i = j
  <2>1. /\ recent[i] = cache[m + i] /\ recent[j] = cache[m + j]
        /\ m + i \in DOMAIN cache /\ m + j \in DOMAIN cache
    BY <1>2, <1>3
  <2>2. m + i = m + j
    BY <1>6, <2>1 DEF Exact
  <2> QED
    BY <1>3, <1>4, <2>2
<1>7. Exact(recent)
  BY <1>2, <1>5, <1>6 DEF Exact
<1> QED
  BY <1>2, <1>7 DEF recent, m

\* get() of a present key changes the order only.
LEMMA TouchFacts ==
    ASSUME NEW cache, Exact(cache), NEW prefix \in Keys(cache)
    PROVE  Exact(Touch(cache, prefix)) /\ Len(Touch(cache, prefix)) = Len(cache)
<1>1. /\ Exact(Without(cache, prefix))
      /\ prefix \notin Keys(Without(cache, prefix))
      /\ Len(Without(cache, prefix)) + 1 = Len(cache)
  BY WithoutFacts
<1> QED
  BY <1>1, LookupFacts, AppendEntry DEF Touch

\* put() keeps the cache exact, and within its capacity.
LEMMA PutFacts ==
    ASSUME NEW cache, Exact(cache), Len(cache) <= PrefixCapacity,
           NEW entry \in PrefixEntry,
           entry.kv = entry.prefix, entry.logits = Len(entry.prefix)
    PROVE  Exact(Put(cache, entry)) /\ Len(Put(cache, entry)) <= PrefixCapacity
<1> DEFINE full == Append(Without(cache, entry.prefix), entry)
<1>1. Exact(full)
  BY WithoutFacts, AppendEntry
<1>2. Len(full) \in Nat
  BY <1>1 DEF Exact
<1> HIDE DEF full
<1>3. CASE Len(full) > PrefixCapacity
  <2>1. /\ Exact(SubSeq(full, Len(full) - PrefixCapacity + 1, Len(full)))
        /\ Len(SubSeq(full, Len(full) - PrefixCapacity + 1, Len(full))) = PrefixCapacity
    BY <1>1, <1>2, <1>3, RecentFacts, PrefixCapacityAssumption
  <2>2. Put(cache, entry) = SubSeq(full, Len(full) - PrefixCapacity + 1, Len(full))
    BY <1>3 DEF Put, full
  <2> QED
    BY <2>1, <2>2, PrefixCapacityAssumption
<1>4. CASE ~(Len(full) > PrefixCapacity)
  BY <1>1, <1>2, <1>4, PrefixCapacityAssumption DEF Put, full
<1> QED
  BY <1>3, <1>4

\* A bounded set of numbers that is not empty has a greatest element.
LEMMA Greatest ==
    ASSUME NEW n \in Nat, NEW S \in SUBSET (1 .. n), S # {}
    PROVE  \E i \in S : \A j \in S : j <= i
<1> DEFINE T == {n - i : i \in S}
<1>1. T \subseteq Nat /\ T # {}
  <2>1. ASSUME NEW i \in S PROVE n - i \in Nat
    OBVIOUS
  <2> QED
    BY <2>1
<1> HIDE DEF T
<1>2. PICK x \in T : \A y \in T : ~(<<y, x>> \in OpToRel(<, Nat))
  BY <1>1, NatLessThanWellFounded, WFMin
<1>3. \A y \in T : ~(y < x)
  BY <1>1, <1>2 DEF OpToRel
<1>4. PICK i \in S : x = n - i
  BY DEF T
<1>5. ASSUME NEW j \in S PROVE j <= i
  <2>1. n - j \in T
    BY DEF T
  <2> QED
    BY <1>3, <1>4, <2>1
<1> QED
  BY <1>5

\* The warm-up loop ends at an entry whose prefix is one of the prompt.
LEMMA HitFacts ==
    ASSUME NEW cache, Exact(cache), NEW prompt \in Seq(Token),
           HitLengths(cache, prompt) # {}
    PROVE  \E n \in 1 .. Len(prompt) :
             LET hit == LongestHit(cache, prompt)
             IN  /\ hit \in PrefixEntry
                 /\ hit.prefix \in Keys(cache)
                 /\ hit.prefix = SubSeq(prompt, 1, n)
                 /\ Len(hit.prefix) = n
                 /\ hit.kv = hit.prefix
                 /\ hit.logits = n
<1> DEFINE n == CHOOSE i \in HitLengths(cache, prompt) :
                    \A j \in HitLengths(cache, prompt) : j <= i
           hit == LongestHit(cache, prompt)
<1>1. HitLengths(cache, prompt) \in SUBSET (1 .. Len(prompt)) /\ Len(prompt) \in Nat
  BY DEF HitLengths
<1>2. n \in HitLengths(cache, prompt)
  BY <1>1, Greatest
<1>3. hit = Lookup(cache, SubSeq(prompt, 1, n))
  BY DEF LongestHit
<1> HIDE DEF n, hit
<1>4. n \in 1 .. Len(prompt) /\ SubSeq(prompt, 1, n) \in Keys(cache)
  BY <1>2 DEF HitLengths
<1>5. Len(SubSeq(prompt, 1, n)) = n
  BY <1>4
<1>6. /\ hit \in PrefixEntry /\ hit.prefix = SubSeq(prompt, 1, n)
      /\ hit.kv = hit.prefix /\ hit.logits = n
  <2> DEFINE found == SubSeq(prompt, 1, n)
  <2>1. found \in Keys(cache) /\ hit = Lookup(cache, found) /\ Len(found) = n
    BY <1>3, <1>4, <1>5
  <2> HIDE DEF found
  <2>2. /\ Lookup(cache, found) \in PrefixEntry
        /\ Lookup(cache, found).prefix = found
        /\ Lookup(cache, found).kv = found
        /\ Lookup(cache, found).logits = Len(found)
    BY <2>1, LookupFacts
  <2> QED
    BY <2>1, <2>2 DEF found
<1>7. hit.prefix \in Keys(cache) /\ Len(hit.prefix) = n
  BY <1>4, <1>5, <1>6
<1>8. n \in 1 .. Len(prompt)
  BY <1>4
<1> WITNESS n \in 1 .. Len(prompt)
<1> QED
  BY <1>6, <1>7 DEF hit

----------------------------------------------------------------------------
(***************************************************************************)
(* Steps.  CoreStep is what every module built on Scheduler does with it:  *)
(* the steps of a tick, a submission between two ticks, and the writes of  *)
(* cancels at any time.                                                    *)
(***************************************************************************)

\* A state that new_request has just made.
Unborn(r) == gen[r] = <<>> /\ versions[r] = {} /\ ~finished[r] /\ ~cancelled[r]

FirstSubmit(r) ==
    /\ tick = "idle"
    /\ r \notin submitted /\ Unborn(r)
    /\ Admissible(r)
    /\ Submit(r)

\* Some requests are cancelled; some of the cancelled are finished.
Flag ==
    /\ cancelled' \in [Request -> BOOLEAN] /\ finished' \in [Request -> BOOLEAN]
    /\ \A r \in Request : /\ cancelled[r] => cancelled'[r]
                          /\ finished[r] => finished'[r]
                          /\ finished'[r] => finished[r] \/ cancelled'[r]
    /\ UNCHANGED <<prefilled, kv, versions, logits, gen, weights, prefixCache, schedulerVars>>

CoreStep ==
    \/ DecodeScan
    \/ TickStep
    \/ \E r \in Request : FirstSubmit(r)
    \/ Flag

USE EngineAssumption, SchedulerAssumption, PrefixCapacityAssumption

\* Both writes of a cancel are flags.
LEMMA CancelIsFlag ==
    ASSUME EngineTypeOK, NEW r \in Request, UNCHANGED schedulerVars,
           SetCancelled(r) \/ (cancelled[r] /\ SetFinished(r))
    PROVE  Flag
BY DEF EngineTypeOK, SetCancelled, SetFinished, Flag

LEMMA InitInv == Init => Inv
<1> SUFFICES ASSUME Init PROVE Inv
  OBVIOUS
<1>1. TypeInv
  <2>1. <<>> \in Seq(Token) /\ <<>> \in Seq(Request) /\ <<>> \in Seq(PrefixEntry)
    OBVIOUS
  <2> QED
    BY <2>1 DEF Init, EngineInit, SchedulerInit, TypeInv, EngineTypeOK, SchedulerTypeOK
<1>2. Phases
  BY DEF Init, SchedulerInit, Phases
<1>3. \A r \in Request : ~Prefilling(r) /\ ~Decoding(r)
  BY EmptyFacts DEF Init, SchedulerInit, Prefilling, Decoding
<1>4. Places
  <2>1. Distinct(<<>>)
    BY DEF Distinct
  <2> QED
    BY <1>3, <2>1, EmptyFacts DEF Init, SchedulerInit, Places, Placed
<1>5. PrefixCacheExact
  BY DEF Init, EngineInit, PrefixCacheExact
<1>6. KVInv
  BY <1>3 DEF Init, EngineInit, SchedulerInit, KVInv, KVOf
<1>7. BoundInv
  <2>1. \A r \in Request : Len(Prompt[r]) \in Nat /\ MaxNew[r] \in Nat
    OBVIOUS
  <2> QED
    BY <1>3, <2>1 DEF Init, EngineInit, SchedulerInit, BoundInv, BoundsOf
<1> QED
  BY <1>1, <1>2, <1>4, <1>5, <1>6, <1>7 DEF Inv

LEMMA CacheIsExact ==
    ASSUME TypeInv, PrefixCacheExact
    PROVE  Exact(prefixCache) /\ Len(prefixCache) <= PrefixCapacity
BY DEF TypeInv, EngineTypeOK, PrefixCacheExact, Exact

LEMMA ExactIsCache ==
    ASSUME Exact(prefixCache), Len(prefixCache) <= PrefixCapacity
    PROVE  PrefixCacheExact
BY DEF PrefixCacheExact, Exact

\* What a warm start leaves.
LEMMA WarmStart ==
    ASSUME Inv, NEW r \in Request, r \notin submitted, NewRequest(r)
    PROVE  /\ prefilled'[r] \in 0 .. Len(Prompt[r])
           /\ kv'[r] = SubSeq(Prompt[r], 1, prefilled'[r])
           /\ logits'[r] = Len(kv'[r])
           /\ prefilled' \in [Request -> Nat]
           /\ kv' \in [Request -> Seq(Token)]
           /\ versions' \in [Request -> SUBSET Nat]
           /\ logits' \in [Request -> Nat]
           /\ Exact(prefixCache') /\ Len(prefixCache') <= PrefixCapacity
           /\ \A q \in Request \ {r} :
                prefilled'[q] = prefilled[q] /\ kv'[q] = kv[q] /\ logits'[q] = logits[q]
           /\ UNCHANGED <<gen, finished, cancelled, weights>>
<1>1. Exact(prefixCache) /\ Len(prefixCache) <= PrefixCapacity
  BY CacheIsExact DEF Inv
<1>2. /\ prefilled \in [Request -> Nat] /\ kv \in [Request -> Seq(Token)]
      /\ versions \in [Request -> SUBSET Nat] /\ logits \in [Request -> Nat]
  BY DEF Inv, TypeInv, EngineTypeOK
<1>3. UNCHANGED <<gen, finished, cancelled, weights>>
  BY DEF NewRequest
<1>4. Prompt[r] \in Seq(Token) /\ Len(Prompt[r]) \in Nat
  OBVIOUS
<1>5. CASE PrefixCapacity > 0 /\ HitLengths(prefixCache, Prompt[r]) # {}
  <2> DEFINE hit == LongestHit(prefixCache, Prompt[r])
  <2>1. PICK n \in 1 .. Len(Prompt[r]) :
               /\ hit \in PrefixEntry
               /\ hit.prefix \in Keys(prefixCache)
               /\ hit.prefix = SubSeq(Prompt[r], 1, n)
               /\ Len(hit.prefix) = n
               /\ hit.kv = hit.prefix
               /\ hit.logits = n
    BY <1>1, <1>4, <1>5, HitFacts
  <2>2. /\ prefilled' = [prefilled EXCEPT ![r] = Len(hit.prefix)]
        /\ kv' = [kv EXCEPT ![r] = hit.kv]
        /\ versions' = [versions EXCEPT ![r] = hit.versions]
        /\ logits' = [logits EXCEPT ![r] = hit.logits]
        /\ prefixCache' = Touch(prefixCache, hit.prefix)
    BY <1>5 DEF NewRequest
  <2>3. hit.kv \in Seq(Token) /\ hit.versions \in SUBSET Nat /\ hit.logits \in Nat
    BY <2>1 DEF PrefixEntry
  <2>4. Exact(prefixCache') /\ Len(prefixCache') <= PrefixCapacity
    BY <1>1, <2>1, <2>2, TouchFacts
  <2> HIDE DEF hit
  <2>5. /\ prefilled'[r] = n /\ kv'[r] = hit.kv /\ logits'[r] = n
        /\ \A q \in Request \ {r} :
             prefilled'[q] = prefilled[q] /\ kv'[q] = kv[q] /\ logits'[q] = logits[q]
        /\ prefilled' \in [Request -> Nat] /\ kv' \in [Request -> Seq(Token)]
        /\ versions' \in [Request -> SUBSET Nat] /\ logits' \in [Request -> Nat]
    BY <1>2, <2>1, <2>2, <2>3
  <2> QED
    BY <1>3, <2>1, <2>4, <2>5
<1>6. CASE ~(PrefixCapacity > 0 /\ HitLengths(prefixCache, Prompt[r]) # {})
  <2>1. UNCHANGED <<prefilled, kv, versions, logits, prefixCache>>
    BY <1>6 DEF NewRequest
  <2>2. prefilled[r] = 0 /\ kv[r] = <<>> /\ logits[r] = Len(kv[r])
    BY DEF Inv, KVInv, KVOf
  <2>3. SubSeq(Prompt[r], 1, 0) = <<>>
    BY <1>4
  <2> QED
    BY <1>1, <1>2, <1>3, <1>4, <2>1, <2>2, <2>3
<1> QED
  BY <1>5, <1>6

LEMMA WholePrompt ==
    ASSUME NEW r \in Request
    PROVE  /\ Prompt[r] \in Seq(Token)
           /\ Len(Prompt[r]) \in Nat \ {0}
           /\ SubSeq(Prompt[r], 1, Len(Prompt[r])) = Prompt[r]
           /\ Prompt[r] \o <<>> = Prompt[r]
OBVIOUS

\* What a chunk leaves: the KV cache of a longer part of the prompt, and a commit
\* of the whole prompt only.
LEMMA ChunkRun ==
    ASSUME Inv, tick = "chunk", PrefillAndCommit(chunking)
    PROVE  /\ chunking \in Request
           /\ prefilled'[chunking] \in prefilled[chunking] .. Len(Prompt[chunking])
           /\ kv'[chunking] = SubSeq(Prompt[chunking], 1, prefilled'[chunking])
           /\ logits'[chunking] = Len(kv'[chunking])
           /\ prefilled' \in [Request -> Nat]
           /\ kv' \in [Request -> Seq(Token)]
           /\ versions' \in [Request -> SUBSET Nat]
           /\ logits' \in [Request -> Nat]
           /\ Exact(prefixCache') /\ Len(prefixCache') <= PrefixCapacity
           /\ \A q \in Request \ {chunking} :
                prefilled'[q] = prefilled[q] /\ kv'[q] = kv[q] /\ logits'[q] = logits[q]
           /\ UNCHANGED <<gen, finished, cancelled, weights>>
<1> DEFINE r == chunking
           n == ChunkSize(r)
           fed == IF n = 0 THEN versions[r] ELSE versions[r] \cup {weights}
           rows == IF n = 0 THEN logits[r] ELSE Len(ChunkedKv(r))
           entry == [prefix |-> Prompt[r], kv |-> ChunkedKv(r), versions |-> fed,
                     logits |-> rows]
<1>1. r \in Request
  BY DEF Inv, TypeInv, SchedulerTypeOK, Phases
<1>2. /\ prefilled \in [Request -> Nat] /\ kv \in [Request -> Seq(Token)]
      /\ versions \in [Request -> SUBSET Nat] /\ logits \in [Request -> Nat]
      /\ weights \in Nat
  BY DEF Inv, TypeInv, EngineTypeOK
<1>3. Prefilling(r)
  BY DEF Prefilling
<1>4. /\ prefilled[r] <= Len(Prompt[r])
      /\ kv[r] = SubSeq(Prompt[r], 1, prefilled[r])
      /\ logits[r] = Len(kv[r])
  BY <1>1, <1>3 DEF Inv, KVInv, KVOf
<1>5. Prompt[r] \in Seq(Token) /\ Len(Prompt[r]) \in Nat
  BY <1>1, WholePrompt
<1>6. prefilled[r] \in 0 .. Len(Prompt[r])
  BY <1>1, <1>2, <1>4, <1>5
<1>7. n \in 0 .. Len(Prompt[r]) - prefilled[r]
  BY <1>5, <1>6 DEF ChunkSize, RemainingPrefill
<1>8. /\ prefilled' = [prefilled EXCEPT ![r] = @ + n]
      /\ kv' = [kv EXCEPT ![r] = ChunkedKv(r)]
      /\ versions' = [versions EXCEPT ![r] = fed]
      /\ logits' = [logits EXCEPT ![r] = rows]
      /\ prefixCache' = IF PrefixCapacity > 0 /\ RemainingPrefill(r) = n
                        THEN Put(prefixCache, entry) ELSE prefixCache
      /\ UNCHANGED <<gen, finished, cancelled, weights>>
  BY DEF PrefillAndCommit
<1>9. ChunkedKv(r) = kv[r] \o SubSeq(Prompt[r], prefilled[r] + 1, prefilled[r] + n)
  BY DEF ChunkedKv
<1>10. fed \in SUBSET Nat
  BY <1>1, <1>2
<1> HIDE DEF r, n, fed
<1>11. /\ ChunkedKv(r) = SubSeq(Prompt[r], 1, prefilled[r] + n)
       /\ ChunkedKv(r) \in Seq(Token)
       /\ Len(ChunkedKv(r)) = prefilled[r] + n
  <2>1. /\ SubSeq(Prompt[r], 1, prefilled[r]) \o
              SubSeq(Prompt[r], prefilled[r] + 1, prefilled[r] + n)
                = SubSeq(Prompt[r], 1, prefilled[r] + n)
        /\ SubSeq(Prompt[r], 1, prefilled[r] + n) \in Seq(Token)
        /\ Len(SubSeq(Prompt[r], 1, prefilled[r] + n)) = prefilled[r] + n
    <3>1. prefilled[r] \in Nat /\ n \in Nat /\ prefilled[r] + n <= Len(Prompt[r])
      BY <1>5, <1>6, <1>7
    <3>2. \A m, k \in Nat : m + k <= Len(Prompt[r]) =>
            /\ SubSeq(Prompt[r], 1, m) \o SubSeq(Prompt[r], m + 1, m + k)
                 = SubSeq(Prompt[r], 1, m + k)
            /\ SubSeq(Prompt[r], 1, m + k) \in Seq(Token)
            /\ Len(SubSeq(Prompt[r], 1, m + k)) = m + k
      BY <1>5, SubSeqFacts
    <3> QED
      BY <3>1, <3>2, Zenon
  <2>2. ChunkedKv(r) = SubSeq(Prompt[r], 1, prefilled[r] + n)
    BY <1>4, <1>9, <2>1
  <2> QED
    BY <2>1, <2>2
<1>12. rows = prefilled[r] + n
  <2>1. CASE n = 0
    <3>1. Len(kv[r]) = prefilled[r]
      BY <1>4, <1>5, <1>6
    <3> QED
      BY <1>4, <1>6, <2>1, <3>1
  <2>2. CASE n # 0
    BY <1>11, <2>2
  <2> QED
    BY <2>1, <2>2
<1> HIDE DEF rows
<1>13. prefilled[r] + n \in prefilled[r] .. Len(Prompt[r]) /\ prefilled[r] + n \in Nat
  BY <1>5, <1>6, <1>7
<1>14. /\ prefilled'[r] = prefilled[r] + n /\ kv'[r] = ChunkedKv(r) /\ logits'[r] = rows
       /\ \A q \in Request \ {r} :
            prefilled'[q] = prefilled[q] /\ kv'[q] = kv[q] /\ logits'[q] = logits[q]
       /\ prefilled' \in [Request -> Nat] /\ kv' \in [Request -> Seq(Token)]
       /\ versions' \in [Request -> SUBSET Nat] /\ logits' \in [Request -> Nat]
  BY <1>1, <1>2, <1>8, <1>10, <1>11, <1>12, <1>13
<1>15. Exact(prefixCache') /\ Len(prefixCache') <= PrefixCapacity
  <2>1. Exact(prefixCache) /\ Len(prefixCache) <= PrefixCapacity
    BY CacheIsExact DEF Inv
  <2>2. CASE PrefixCapacity > 0 /\ RemainingPrefill(r) = n
    <3>1. prefilled[r] + n = Len(Prompt[r])
      BY <1>5, <1>6, <2>2 DEF RemainingPrefill
    <3>2. ChunkedKv(r) = Prompt[r] /\ rows = Len(Prompt[r])
      BY <1>1, <1>11, <1>12, <3>1, WholePrompt
    <3>3. /\ entry \in PrefixEntry /\ entry.kv = entry.prefix
          /\ entry.logits = Len(entry.prefix)
      BY <1>5, <1>10, <3>2 DEF PrefixEntry
    <3> QED
      BY <1>8, <2>1, <2>2, <3>3, PutFacts
  <2>3. CASE ~(PrefixCapacity > 0 /\ RemainingPrefill(r) = n)
    BY <1>8, <2>1, <2>3
  <2> QED
    BY <2>2, <2>3
<1> QED
  BY <1>1, <1>8, <1>11, <1>12, <1>13, <1>14, <1>15 DEF r

LEMMA CohortTypes ==
    ASSUME TypeInv, NEW lead PROVE Cohort(lead) \subseteq Request
BY DEF Cohort, TypeInv, SchedulerTypeOK

\* The type of what a batched or single decode samples and feeds.
LEMMA SampleTypes ==
    ASSUME TypeInv, NEW S \in SUBSET Request, NEW token \in [S -> Token], Sample(S, token)
    PROVE  gen' \in [Request -> Seq(Token)] /\ finished' \in [Request -> BOOLEAN]
<1>1. gen \in [Request -> Seq(Token)] /\ finished \in [Request -> BOOLEAN]
  BY DEF TypeInv, EngineTypeOK
<1>2. gen' = [r \in Request |-> IF r \in S THEN Append(gen[r], token[r]) ELSE gen[r]]
  BY DEF Sample
<1>3. ASSUME NEW r \in Request
      PROVE  (IF r \in S THEN Append(gen[r], token[r]) ELSE gen[r]) \in Seq(Token)
  BY <1>1
<1>4. gen' \in [Request -> Seq(Token)]
  BY <1>2, <1>3
<1>5. finished' = [r \in Request |-> finished[r] \/ (r \in S /\ EndsWith(r, token[r]))]
  BY DEF Sample
<1>6. finished' \in [Request -> BOOLEAN]
  BY <1>5
<1> QED
  BY <1>4, <1>6

LEMMA ForwardTypes ==
    ASSUME TypeInv, NEW S \in SUBSET Request, NEW token \in [S -> Token], Forward(S, token)
    PROVE  /\ kv' \in [Request -> Seq(Token)]
           /\ versions' \in [Request -> SUBSET Nat]
           /\ logits' \in [Request -> Nat]
<1>1. /\ kv \in [Request -> Seq(Token)] /\ versions \in [Request -> SUBSET Nat]
      /\ logits \in [Request -> Nat] /\ weights \in Nat
  BY DEF TypeInv, EngineTypeOK
<1>2. kv' \in [Request -> Seq(Token)]
  <2>1. ASSUME NEW r \in Request
        PROVE  (IF r \in S THEN Append(kv[r], token[r]) ELSE kv[r]) \in Seq(Token)
    BY <1>1
  <2> QED
    BY <2>1 DEF Forward
<1>3. versions' \in [Request -> SUBSET Nat]
  <2>1. ASSUME NEW r \in Request
        PROVE  (IF r \in S THEN versions[r] \cup {weights} ELSE versions[r]) \in SUBSET Nat
    BY <1>1
  <2> QED
    BY <2>1 DEF Forward
<1>4. logits' \in [Request -> Nat]
  <2>1. ASSUME NEW r \in Request
        PROVE  (IF r \in S THEN Len(kv[r]) + 1 ELSE logits[r]) \in Nat
    BY <1>1
  <2> QED
    BY <2>1 DEF Forward
<1> QED
  BY <1>2, <1>3, <1>4

LEMMA RetireTypes ==
    ASSUME TypeInv, NEW gone, Retire(gone)
    PROVE  EngineTypeOK' /\ retired' \in [Request -> Nat]
<1>1. finished' \in [Request -> BOOLEAN]
  BY DEF Retire
<1>2. retired' \in [Request -> Nat]
  <2>1. retired \in [Request -> Nat]
    BY DEF TypeInv, SchedulerTypeOK
  <2> QED
    BY <2>1 DEF Retire
<1>3. UNCHANGED <<prefilled, kv, versions, logits, gen, cancelled, weights, prefixCache>>
  BY DEF Retire
<1>4. EngineTypeOK
  BY DEF TypeInv
<1> QED
  BY <1>1, <1>2, <1>3, <1>4, SMTT(30) DEF EngineTypeOK

LEMMA TypeStep == Inv /\ CoreStep => TypeInv'
<1> SUFFICES ASSUME Inv, CoreStep PROVE TypeInv'
  OBVIOUS
<1>0. TypeInv
  BY DEF Inv
<1>1. CASE DecodeScan
  <2>1. EngineTypeOK' /\ retired' \in [Request -> Nat]
    BY <1>0, <1>1, RetireTypes DEF DecodeScan
  <2> QED
    BY <1>0, <1>1, <2>1 DEF DecodeScan, TypeInv, SchedulerTypeOK
<1>2. ASSUME NEW r \in Request, AdvanceGroup(r) PROVE TypeInv'
  <2>1. Cohort(r) \subseteq Request
    BY <1>0, CohortTypes
  <2>2. PICK token \in [Cohort(r) -> Token] :
               Sample(Cohort(r), token) /\ Forward(Cohort(r), token)
    BY <1>2 DEF AdvanceGroup, DecodeGroupBatched
  <2>3. EngineTypeOK'
    <3>1. gen' \in [Request -> Seq(Token)] /\ finished' \in [Request -> BOOLEAN]
      BY <1>0, <2>1, <2>2, SampleTypes
    <3>2. /\ kv' \in [Request -> Seq(Token)] /\ versions' \in [Request -> SUBSET Nat]
          /\ logits' \in [Request -> Nat]
      BY <1>0, <2>1, <2>2, ForwardTypes
    <3>3. UNCHANGED <<prefilled, cancelled, weights, prefixCache>>
      BY <2>2 DEF Sample
    <3> QED
      BY <1>0, <3>1, <3>2, <3>3 DEF TypeInv, EngineTypeOK
  <2> QED
    BY <1>0, <1>2, <2>1, <2>3 DEF AdvanceGroup, TypeInv, SchedulerTypeOK
<1>3. ASSUME NEW r \in Request, AdvanceAlone(r) PROVE TypeInv'
  <2>1. EngineTypeOK'
    <3>1. CASE finished[r]
      BY <1>0, <1>3, <3>1 DEF AdvanceAlone, engineVars, requestVars, TypeInv, EngineTypeOK
    <3>2. CASE ~finished[r]
      <4>1. PICK token \in [{r} -> Token] :
                   Sample({r}, token) /\ UNCHANGED <<kv, versions, logits>>
        BY <1>3, <3>2 DEF AdvanceAlone, DecodeSample
      <4> QED
        BY <1>0, <4>1, SampleTypes DEF Sample, TypeInv, EngineTypeOK
    <3> QED
      BY <3>1, <3>2
  <2> QED
    BY <1>0, <1>3, <2>1 DEF AdvanceAlone, TypeInv, SchedulerTypeOK
<1>4. CASE Feed
  <2>1. PICK r \in cohort : DecodeForward(r)
    BY <1>4 DEF Feed
  <2>2. EngineTypeOK'
    <3>1. CASE finished[r]
      BY <1>0, <2>1, <3>1 DEF DecodeForward, TypeInv, EngineTypeOK
    <3>2. CASE ~finished[r]
      <4>1. r \in Request /\ gen[r] # <<>> /\ gen[r] \in Seq(Token)
        BY <1>4 DEF Feed, Inv, TypeInv, EngineTypeOK, SchedulerTypeOK, KVInv, KVOf, InCohort, Short
      <4>2. [q \in {r} |-> gen[q][Len(gen[q])]] \in [{r} -> Token]
        BY <4>1
      <4>3. Forward({r}, [q \in {r} |-> gen[q][Len(gen[q])]])
        BY <2>1, <3>2 DEF DecodeForward
      <4>4. /\ kv' \in [Request -> Seq(Token)]
            /\ versions' \in [Request -> SUBSET Nat]
            /\ logits' \in [Request -> Nat]
        BY <1>0, <4>1, <4>2, <4>3, ForwardTypes
      <4> QED
        BY <1>0, <2>1, <4>4 DEF DecodeForward, TypeInv, EngineTypeOK
    <3> QED
      BY <3>1, <3>2
  <2> QED
    BY <1>0, <1>4, <2>2 DEF Feed, queueVars, TypeInv, SchedulerTypeOK
<1>5. CASE Settle
  <2>1. EngineTypeOK' /\ retired' \in [Request -> Nat]
    BY <1>0, <1>5, RetireTypes DEF Settle
  <2> QED
    BY <1>0, <1>5, <2>1 DEF Settle, GoOn, TypeInv, SchedulerTypeOK
<1>6. CASE DecodeEnd
  BY <1>0, <1>6 DEF DecodeEnd, engineVars, requestVars, TypeInv, EngineTypeOK, SchedulerTypeOK
<1>7. CASE PrefillPop
  <2>1. /\ prefillQueue \in Seq(Request)
        /\ Tail(prefillQueue) \in Seq(Request) /\ Head(prefillQueue) \in Request
    BY <1>0, <1>7 DEF PrefillPop, TypeInv, SchedulerTypeOK
  <2>2. EngineTypeOK' /\ retired' \in [Request -> Nat]
    <3>1. CASE cancelled[Head(prefillQueue)]
      BY <1>0, <1>7, <3>1, RetireTypes DEF PrefillPop
    <3>2. CASE ~cancelled[Head(prefillQueue)]
      BY <1>0, <1>7, <3>2 DEF PrefillPop, engineVars, requestVars, TypeInv, EngineTypeOK,
                              SchedulerTypeOK
    <3> QED
      BY <3>1, <3>2
  <2>3. /\ tick' \in {"idle", "cohorts", "feed", "settle", "prefill", "chunk"}
        /\ chunking' \in Request \cup {NoRequest}
    BY <1>0, <1>7, <2>1 DEF PrefillPop, TypeInv, SchedulerTypeOK
  <2>4. /\ prefillQueue' \in Seq(Request)
        /\ UNCHANGED <<stillPrefilling, decodeQueue, active, cohort, nextDecode, submitted>>
    BY <1>7, <2>1 DEF PrefillPop
  <2> QED
    BY <1>0, <2>2, <2>3, <2>4 DEF TypeInv, SchedulerTypeOK
<1>8. CASE PrefillRun
  <2>1. tick = "chunk" /\ PrefillAndCommit(chunking)
    BY <1>8 DEF PrefillRun
  <2>2. EngineTypeOK' /\ chunking \in Request
    BY <1>0, <2>1, ChunkRun DEF Exact, TypeInv, EngineTypeOK
  <2>3. stillPrefilling' \in Seq(Request) /\ decodeQueue' \subseteq Request
    <3>1. Append(stillPrefilling, chunking) \in Seq(Request)
      BY <1>0, <2>2 DEF TypeInv, SchedulerTypeOK
    <3> QED
      BY <1>0, <1>8, <2>2, <3>1 DEF PrefillRun, TypeInv, SchedulerTypeOK
  <2> QED
    BY <1>0, <1>8, <2>2, <2>3 DEF PrefillRun, TypeInv, SchedulerTypeOK
<1>9. CASE PrefillEnd
  BY <1>0, <1>9 DEF PrefillEnd, StillPrefilling, engineVars, requestVars, TypeInv, EngineTypeOK,
                    SchedulerTypeOK
<1>10. ASSUME NEW r \in Request, FirstSubmit(r) PROVE TypeInv'
  <2>1. Submit(r) /\ NewRequest(r) /\ r \notin submitted
    BY <1>10 DEF FirstSubmit, Submit
  <2>2. EngineTypeOK'
    BY <1>0, <2>1, WarmStart DEF Exact, TypeInv, EngineTypeOK
  <2>3. prefillQueue' \in Seq(Request) /\ decodeQueue' \subseteq Request
    <3>1. Append(prefillQueue, r) \in Seq(Request)
      BY <1>0 DEF TypeInv, SchedulerTypeOK
    <3> QED
      BY <1>0, <2>1, <3>1 DEF Submit, TypeInv, SchedulerTypeOK
  <2> QED
    BY <1>0, <2>1, <2>2, <2>3 DEF Submit, TypeInv, SchedulerTypeOK
<1>11. CASE Flag
  BY <1>0, <1>11 DEF Flag, schedulerVars, queueVars, TypeInv, EngineTypeOK, SchedulerTypeOK
<1> QED
  BY <1>1, <1>2, <1>3, <1>4, <1>5, <1>6, <1>7, <1>8, <1>9, <1>10, <1>11 DEF CoreStep, TickStep

LEMMA PhasesStep == Inv /\ CoreStep => Phases'
<1> SUFFICES ASSUME Inv, CoreStep PROVE Phases'
  OBVIOUS
<1>0. Phases /\ SchedulerTypeOK
  BY DEF Inv, TypeInv
<1>1. CASE DecodeScan
  BY <1>0, <1>1 DEF DecodeScan, Phases
<1>2. ASSUME NEW r \in Request, AdvanceGroup(r) PROVE Phases'
  BY <1>0, <1>2 DEF AdvanceGroup, Phases
<1>3. ASSUME NEW r \in Request, AdvanceAlone(r) PROVE Phases'
  BY <1>0, <1>3 DEF AdvanceAlone, Phases
<1>4. CASE Feed
  BY <1>0, <1>4 DEF Feed, queueVars, Phases
<1>5. CASE Settle
  BY <1>0, <1>5 DEF Settle, Phases
<1>6. CASE DecodeEnd
  BY <1>0, <1>6 DEF DecodeEnd, Phases
<1>7. CASE PrefillPop
  <2>1. Head(prefillQueue) \in Request
    BY <1>0, <1>7 DEF PrefillPop, SchedulerTypeOK
  <2> QED
    BY <1>0, <1>7, <2>1 DEF PrefillPop, Phases
<1>8. CASE PrefillRun
  BY <1>0, <1>8 DEF PrefillRun, Phases
<1>9. CASE PrefillEnd
  BY <1>0, <1>9 DEF PrefillEnd, Phases
<1>10. ASSUME NEW r \in Request, FirstSubmit(r) PROVE Phases'
  BY <1>0, <1>10 DEF FirstSubmit, Submit, Phases
<1>11. CASE Flag
  BY <1>0, <1>11 DEF Flag, schedulerVars, queueVars, Phases
<1> QED
  BY <1>1, <1>2, <1>3, <1>4, <1>5, <1>6, <1>7, <1>8, <1>9, <1>10, <1>11 DEF CoreStep, TickStep

\* The steps of a decode step and of a cancel move no request into a queue, nor back
\* into the decode step.
DecodeSide ==
    \/ DecodeScan \/ Feed \/ Settle \/ DecodeEnd
    \/ \E r \in Request : AdvanceGroup(r) \/ AdvanceAlone(r)
    \/ Flag

LEMMA DecodeMoves ==
    ASSUME Inv, DecodeSide
    PROVE  /\ UNCHANGED <<prefillQueue, stillPrefilling, chunking, submitted>>
           /\ \A q \in Request : /\ Prefilling(q)' <=> Prefilling(q)
                                 /\ Decoding(q)' => Decoding(q)
<1>1. UNCHANGED <<prefillQueue, stillPrefilling, chunking, submitted>>
  BY DEF DecodeSide, DecodeScan, Feed, Settle, DecodeEnd, AdvanceGroup, AdvanceAlone, Flag,
         queueVars, schedulerVars
<1>2. \A q \in Request : Prefilling(q)' <=> Prefilling(q)
  BY <1>1 DEF Prefilling
<1>3. ASSUME NEW q \in Request PROVE Decoding(q)' => Decoding(q)
  <2>0. Phases
    BY DEF Inv
  <2>1. CASE DecodeScan
    BY <2>0, <2>1 DEF DecodeScan, Phases, Decoding
  <2>2. CASE Feed
    BY <2>0, <2>2 DEF Feed, queueVars, Decoding
  <2>3. CASE Settle
    BY <2>0, <2>3 DEF Settle, GoOn, Decoding
  <2>4. CASE DecodeEnd
    BY <2>0, <2>4 DEF DecodeEnd, Phases, Decoding
  <2>5. ASSUME NEW r \in Request, AdvanceGroup(r) PROVE Decoding(q)' => Decoding(q)
    BY <2>0, <2>5 DEF AdvanceGroup, Cohort, Phases, Decoding
  <2>6. ASSUME NEW r \in Request, AdvanceAlone(r) PROVE Decoding(q)' => Decoding(q)
    BY <2>0, <2>6 DEF AdvanceAlone, Phases, Decoding
  <2>7. CASE Flag
    BY <2>7 DEF Flag, schedulerVars, queueVars, Decoding
  <2> QED
    BY <2>1, <2>2, <2>3, <2>4, <2>5, <2>6, <2>7 DEF DecodeSide
<1> QED
  BY <1>1, <1>2, <1>3

\* popleft, and _prefill_step's end, take requests out of the queues, or from one of
\* them to the other.
QueueSide == PrefillPop \/ PrefillEnd

LEMMA PopMoves ==
    ASSUME Inv, QueueSide
    PROVE  \A q \in Request : /\ Prefilling(q)' => Prefilling(q)
                              /\ Decoding(q)' => Decoding(q)
<1>0. Phases /\ SchedulerTypeOK
  BY DEF Inv, TypeInv
<1>1. CASE PrefillPop
  <2>1. /\ InSeq(Head(prefillQueue), prefillQueue)
        /\ \A q : InSeq(q, Tail(prefillQueue)) => InSeq(q, prefillQueue)
        /\ prefillQueue' = Tail(prefillQueue)
    BY <1>0, <1>1, TailFacts DEF PrefillPop, SchedulerTypeOK
  <2>2. \A q \in Request : Prefilling(q)' => Prefilling(q)
    BY <1>1, <2>1 DEF PrefillPop, Prefilling
  <2>3. \A q \in Request : Decoding(q)' => Decoding(q)
    BY <1>1 DEF PrefillPop, Decoding
  <2> QED
    BY <2>2, <2>3
<1>2. CASE PrefillEnd
  <2>1. \A q \in Request : Prefilling(q)' => Prefilling(q)
    BY <1>2, EmptyFacts DEF PrefillEnd, StillPrefilling, Prefilling
  <2>2. \A q \in Request : Decoding(q)' => Decoding(q)
    BY <1>2 DEF PrefillEnd, Decoding
  <2> QED
    BY <2>1, <2>2
<1> QED
  BY <1>1, <1>2 DEF QueueSide

\* A chunk moves its request to the requests still prefilling or to the decode queue.
LEMMA RunMoves ==
    ASSUME Inv, PrefillRun
    PROVE  \A q \in Request :
             /\ Prefilling(q)' => Prefilling(q)
             /\ chunking = q /\ Prefilling(q)' => Incomplete(q, prefilled'[q])
             /\ Decoding(q)' =>
                  \/ Decoding(q)
                  \/ chunking = q /\ ~Incomplete(q, prefilled'[q])
<1>0. Phases /\ SchedulerTypeOK /\ Places
  BY DEF Inv, TypeInv
<1>1. chunking \in Request /\ tick = "chunk"
  BY <1>0 DEF PrefillRun, Phases, SchedulerTypeOK
<1>2. Placed(chunking)
  BY <1>0, <1>1 DEF Places
<1>3. chunking' = NoRequest /\ prefillQueue' = prefillQueue /\ tick' = "prefill"
  BY DEF PrefillRun
<1>4. CASE Incomplete(chunking, prefilled'[chunking])
  <2>1. stillPrefilling' = Append(stillPrefilling, chunking) /\ decodeQueue' = decodeQueue
    BY <1>4 DEF PrefillRun
  <2>2. \A q : InSeq(q, stillPrefilling') <=> InSeq(q, stillPrefilling) \/ q = chunking
    BY <1>0, <1>1, <2>1, AppendFacts DEF SchedulerTypeOK
  <2>3. \A q \in Request : Prefilling(q)' => Prefilling(q)
    BY <1>3, <2>2 DEF Prefilling
  <2>4. \A q \in Request : Decoding(q)' => Decoding(q)
    BY <1>1, <1>3, <2>1 DEF PrefillRun, Decoding
  <2> QED
    BY <1>4, <2>3, <2>4
<1>5. CASE ~Incomplete(chunking, prefilled'[chunking])
  <2>1. /\ stillPrefilling' = stillPrefilling
        /\ decodeQueue' = decodeQueue \cup {chunking}
    BY <1>5 DEF PrefillRun
  <2>2. ASSUME NEW q \in Request, Prefilling(q)' PROVE Prefilling(q) /\ q # chunking
    BY <1>2, <1>3, <2>1, <2>2 DEF Prefilling, Placed
  <2>3. \A q \in Request : Decoding(q)' => Decoding(q) \/ q = chunking
    BY <1>1, <1>3, <2>1 DEF PrefillRun, Decoding
  <2> QED
    BY <1>5, <2>2, <2>3
<1> QED
  BY <1>4, <1>5

\* A submission moves its own request only.
LEMMA SubmitMoves ==
    ASSUME Inv, NEW r \in Request, FirstSubmit(r)
    PROVE  /\ ~Prefilling(r) /\ ~Decoding(r)
           /\ \A q \in Request :
                /\ Prefilling(q)' =>
                     Prefilling(q) \/ (q = r /\ Incomplete(r, prefilled'[r]))
                /\ Decoding(q)' =>
                     Decoding(q) \/ (q = r /\ ~Incomplete(r, prefilled'[r]))
<1>0. Phases /\ SchedulerTypeOK /\ Places
  BY DEF Inv, TypeInv
<1>1. ~Prefilling(r) /\ ~Decoding(r)
  BY <1>0 DEF Places, Placed, FirstSubmit
<1>2. CASE Incomplete(r, prefilled'[r])
  <2>1. prefillQueue' = Append(prefillQueue, r)
        /\ UNCHANGED <<decodeQueue, stillPrefilling, chunking, active, cohort, nextDecode, tick>>
    BY <1>2 DEF FirstSubmit, Submit
  <2>2. \A q : InSeq(q, prefillQueue') <=> InSeq(q, prefillQueue) \/ q = r
    BY <1>0, <2>1, AppendFacts DEF SchedulerTypeOK
  <2> QED
    BY <1>1, <1>2, <2>1, <2>2 DEF Prefilling, Decoding
<1>3. CASE ~Incomplete(r, prefilled'[r])
  <2>1. /\ decodeQueue' = decodeQueue \cup {r}
        /\ UNCHANGED <<prefillQueue, stillPrefilling, chunking, active, cohort, nextDecode,
                       tick>>
    BY <1>3 DEF FirstSubmit, Submit
  <2> QED
    BY <1>1, <1>3, <2>1 DEF Prefilling, Decoding
<1> QED
  BY <1>2, <1>3

\* In a step of the decode side a request is retired at most once, as it leaves.
LEMMA DecodePlaces ==
    ASSUME Inv, DecodeSide,
           active' \cap cohort' = {}, active' \cap nextDecode' = {}, cohort' \cap nextDecode' = {},
           \A q \in Request : \/ retired'[q] = retired[q]
                              \/ /\ retired'[q] = retired[q] + 1
                                 /\ Decoding(q) /\ ~Decoding(q)'
    PROVE  Places'
<1>0. Places
  BY DEF Inv
<1>1. /\ UNCHANGED <<prefillQueue, stillPrefilling, chunking, submitted>>
      /\ \A q \in Request : /\ Prefilling(q)' <=> Prefilling(q)
                            /\ Decoding(q)' => Decoding(q)
  BY DecodeMoves
<1>2. ASSUME NEW q \in Request PROVE Placed(q)'
  <2>1. Placed(q)
    BY <1>0 DEF Places
  <2>2. CASE retired'[q] = retired[q]
    BY <1>1, <2>1, <2>2 DEF Placed
  <2>3. CASE retired'[q] = retired[q] + 1 /\ Decoding(q) /\ ~Decoding(q)'
    <3>1. retired[q] = 0 /\ q \in submitted /\ ~Prefilling(q)
      BY <2>1, <2>3 DEF Placed
    <3>2. retired'[q] = 1
      BY <2>3, <3>1
    <3> QED
      BY <1>1, <2>1, <2>3, <3>1, <3>2 DEF Placed
  <2> QED
    BY <2>2, <2>3
<1> QED
  BY <1>0, <1>1, <1>2 DEF Places

LEMMA PlacesStep == Inv /\ CoreStep => Places'
<1> SUFFICES ASSUME Inv, CoreStep PROVE Places'
  OBVIOUS
<1>0. Phases /\ SchedulerTypeOK /\ Places
  BY DEF Inv, TypeInv
<1>a. active \subseteq Request /\ cohort \subseteq Request /\ retired \in [Request -> Nat]
  BY <1>0 DEF SchedulerTypeOK
<1>b. active \cap cohort = {} /\ active \cap nextDecode = {} /\ cohort \cap nextDecode = {}
  BY <1>0 DEF Places
<1>1. CASE DecodeScan
  <2>1. /\ tick = "idle" /\ tick' = "cohorts"
        /\ active' = {r \in decodeQueue : ~Done(r)} /\ UNCHANGED <<cohort, nextDecode>>
        /\ retired' = [r \in Request |-> IF r \in {q \in decodeQueue : Done(q)}
                                        THEN retired[r] + 1 ELSE retired[r]]
    BY <1>1 DEF DecodeScan, Retire
  <2>2. cohort = {} /\ nextDecode = {}
    BY <1>0, <2>1 DEF Phases
  <2>3. ASSUME NEW q \in Request
        PROVE  \/ retired'[q] = retired[q]
               \/ /\ retired'[q] = retired[q] + 1
                  /\ Decoding(q) /\ ~Decoding(q)'
    BY <2>1, <2>2 DEF Decoding
  <2> QED
    BY <1>1, <2>1, <2>2, <2>3, DecodePlaces DEF DecodeSide
<1>2. ASSUME NEW r \in Request, AdvanceGroup(r) PROVE Places'
  <2>1. /\ cohort' = Cohort(r) /\ active' = active \ Cohort(r) /\ Cohort(r) \subseteq active
        /\ UNCHANGED <<nextDecode, retired>>
    BY <1>2 DEF AdvanceGroup, Cohort
  <2> QED
    BY <1>2, <1>b, <2>1, DecodePlaces DEF DecodeSide
<1>3. ASSUME NEW r \in Request, AdvanceAlone(r) PROVE Places'
  <2>1. /\ cohort' = {r} /\ active' = active \ {r} /\ r \in active
        /\ UNCHANGED <<nextDecode, retired>>
    BY <1>3 DEF AdvanceAlone
  <2> QED
    BY <1>3, <1>b, <2>1, DecodePlaces DEF DecodeSide
<1>4. CASE Feed
  BY <1>4, <1>b, DecodePlaces DEF Feed, queueVars, DecodeSide
<1>5. CASE Settle
  <2>1. /\ tick' = "cohorts" /\ cohort' = {} /\ active' = active
        /\ nextDecode' = nextDecode \cup GoOn
        /\ retired' = [r \in Request |-> IF r \in {q \in cohort : Done(q)}
                                        THEN retired[r] + 1 ELSE retired[r]]
    BY <1>5 DEF Settle, Retire
  <2>2. GoOn = {q \in cohort : ~Done(q)}
    BY DEF GoOn
  <2>3. ASSUME NEW q \in Request
        PROVE  \/ retired'[q] = retired[q]
               \/ /\ retired'[q] = retired[q] + 1
                  /\ Decoding(q) /\ ~Decoding(q)'
    BY <1>b, <2>1, <2>2 DEF Decoding
  <2>4. active' \cap cohort' = {} /\ active' \cap nextDecode' = {} /\ cohort' \cap nextDecode' = {}
    BY <1>b, <2>1, <2>2
  <2> QED
    BY <1>5, <2>3, <2>4, DecodePlaces DEF DecodeSide
<1>6. CASE DecodeEnd
  <2>1. active' = {} /\ nextDecode' = {} /\ UNCHANGED <<cohort, retired>>
    BY <1>6 DEF DecodeEnd
  <2> QED
    BY <1>6, <2>1, DecodePlaces DEF DecodeSide
<1>7. CASE PrefillPop
  <2> DEFINE h == Head(prefillQueue)
  <2>1. /\ Tail(prefillQueue) \in Seq(Request) /\ h \in Request
        /\ InSeq(h, prefillQueue)
        /\ \A y : InSeq(y, prefillQueue) <=> y = h \/ InSeq(y, Tail(prefillQueue))
        /\ Distinct(Tail(prefillQueue)) /\ ~InSeq(h, Tail(prefillQueue))
    BY <1>0, <1>7, TailFacts DEF PrefillPop, SchedulerTypeOK, Places
  <2> HIDE DEF h
  <2>2. /\ prefillQueue' = Tail(prefillQueue) /\ tick = "prefill"
        /\ UNCHANGED <<stillPrefilling, decodeQueue, active, cohort, nextDecode, submitted>>
    BY <1>7 DEF PrefillPop
  <2>3. \A q \in Request : /\ Prefilling(q)' => Prefilling(q)
                           /\ Decoding(q)' => Decoding(q)
    <3>1. QueueSide
      BY <1>7 DEF QueueSide
    <3> QED
      BY <3>1, PopMoves
  <2>4. Prefilling(h) /\ Placed(h)
    BY <1>0, <2>1 DEF Prefilling, Places
  <2>5. ASSUME NEW q \in Request PROVE Placed(q)'
    <3>1. Placed(q)
      BY <1>0 DEF Places
    <3>2. CASE cancelled[h]
      <4>1. /\ chunking' = chunking
            /\ retired' = [r \in Request |-> IF r \in {h} THEN retired[r] + 1 ELSE retired[r]]
        BY <1>7, <3>2 DEF PrefillPop, Retire, h
      <4>2. CASE q = h
        <5>1. retired[q] = 0 /\ q \in submitted /\ ~Decoding(q) /\ chunking # q
              /\ ~InSeq(q, stillPrefilling)
          BY <2>1, <2>4, <4>2 DEF Placed
        <5>2. ~Prefilling(q)'
          BY <2>1, <2>2, <4>1, <4>2, <5>1 DEF Prefilling
        <5>3. retired'[q] = 1
          BY <4>1, <4>2, <5>1
        <5> QED
          BY <2>1, <2>2, <2>3, <3>1, <4>1, <4>2, <5>1, <5>2, <5>3 DEF Placed
      <4>3. CASE q # h
        BY <2>1, <2>2, <2>3, <3>1, <4>1, <4>3 DEF Placed
      <4> QED
        BY <4>2, <4>3
    <3>3. CASE ~cancelled[h]
      <4>1. chunking' = h /\ retired' = retired
        BY <1>7, <3>3 DEF PrefillPop, h
      <4> QED
        BY <2>1, <2>2, <2>3, <2>4, <3>1, <4>1 DEF Placed
    <3> QED
      BY <3>2, <3>3
  <2> QED
    BY <1>0, <2>1, <2>2, <2>5 DEF Places
<1>8. CASE PrefillRun
  <2>1. /\ chunking' = NoRequest /\ tick = "chunk" /\ chunking \in Request
        /\ UNCHANGED <<prefillQueue, active, cohort, nextDecode, submitted, retired>>
    BY <1>0, <1>8 DEF PrefillRun, Phases, SchedulerTypeOK
  <2>2. /\ Placed(chunking) /\ Prefilling(chunking)
        /\ ~InSeq(chunking, prefillQueue) /\ ~InSeq(chunking, stillPrefilling)
    BY <1>0, <2>1 DEF Places, Placed, Prefilling
  <2>3. \A q \in Request :
             /\ Prefilling(q)' => Prefilling(q)
             /\ chunking = q /\ Prefilling(q)' => Incomplete(q, prefilled'[q])
             /\ Decoding(q)' =>
                  \/ Decoding(q)
                  \/ chunking = q /\ ~Incomplete(q, prefilled'[q])
    BY <1>8, RunMoves
  <2>4. \/ stillPrefilling' = stillPrefilling
        \/ stillPrefilling' = Append(stillPrefilling, chunking)
    BY <1>8 DEF PrefillRun
  <2>5. /\ Distinct(stillPrefilling')
        /\ \A y : InSeq(y, stillPrefilling') => InSeq(y, stillPrefilling) \/ y = chunking
    <3>1. /\ Distinct(Append(stillPrefilling, chunking))
          /\ \A y : InSeq(y, Append(stillPrefilling, chunking))
                     => InSeq(y, stillPrefilling) \/ y = chunking
      BY <1>0, <2>1, <2>2, AppendFacts DEF SchedulerTypeOK, Places
    <3> QED
      BY <1>0, <2>4, <3>1 DEF Places
  <2>6. ASSUME NEW q \in Request PROVE Placed(q)'
    <3>1. Placed(q)
      BY <1>0 DEF Places
    <3>2. Prefilling(q)' => ~Decoding(q)'
      BY <2>2, <2>3, <3>1 DEF Placed
    <3>3. Prefilling(q)' \/ Decoding(q)' => q \in submitted' /\ retired'[q] = 0
      BY <2>1, <2>2, <2>3, <3>1 DEF Placed
    <3> QED
      BY <2>1, <2>2, <2>5, <3>1, <3>2, <3>3 DEF Placed
  <2> QED
    BY <1>0, <2>1, <2>5, <2>6 DEF Places
<1>9. CASE PrefillEnd
  <2>1. /\ prefillQueue' = stillPrefilling /\ stillPrefilling' = <<>> /\ prefillQueue = <<>>
        /\ UNCHANGED <<chunking, active, cohort, nextDecode, submitted, retired>>
    BY <1>9 DEF PrefillEnd, StillPrefilling
  <2>2. \A q \in Request : /\ Prefilling(q)' => Prefilling(q)
                           /\ Decoding(q)' => Decoding(q)
    <3>1. QueueSide
      BY <1>9 DEF QueueSide
    <3> QED
      BY <3>1, PopMoves
  <2>3. ASSUME NEW q \in Request PROVE Placed(q)'
    BY <1>0, <2>1, <2>2, EmptyFacts DEF Places, Placed
  <2>4. Distinct(<<>>)
    BY DEF Distinct
  <2> QED
    BY <1>0, <2>1, <2>3, <2>4 DEF Places
<1>10. ASSUME NEW r \in Request, FirstSubmit(r) PROVE Places'
  <2>1. /\ submitted' = submitted \cup {r} /\ r \notin submitted
        /\ UNCHANGED <<stillPrefilling, chunking, active, cohort, nextDecode, retired>>
    BY <1>10 DEF FirstSubmit, Submit
  <2>2. /\ ~Prefilling(r) /\ ~Decoding(r)
        /\ \A q \in Request :
             /\ Prefilling(q)' =>
                  Prefilling(q) \/ (q = r /\ Incomplete(r, prefilled'[r]))
             /\ Decoding(q)' =>
                  Decoding(q) \/ (q = r /\ ~Incomplete(r, prefilled'[r]))
    BY <1>10, SubmitMoves
  <2>3. ~InSeq(r, prefillQueue) /\ ~InSeq(r, stillPrefilling) /\ chunking # r
    BY <2>2 DEF Prefilling
  <2>4. prefillQueue' = prefillQueue \/ prefillQueue' = Append(prefillQueue, r)
    BY <1>10 DEF FirstSubmit, Submit
  <2>5. /\ Distinct(prefillQueue')
        /\ \A y : InSeq(y, prefillQueue') => InSeq(y, prefillQueue) \/ y = r
    <3>1. /\ Distinct(Append(prefillQueue, r))
          /\ \A y : InSeq(y, Append(prefillQueue, r)) => InSeq(y, prefillQueue) \/ y = r
      BY <1>0, <2>3, AppendFacts DEF SchedulerTypeOK, Places
    <3> QED
      BY <1>0, <2>4, <3>1 DEF Places
  <2>6. ASSUME NEW q \in Request PROVE Placed(q)'
    <3>1. Placed(q)
      BY <1>0 DEF Places
    <3> QED
      BY <2>1, <2>2, <2>3, <2>5, <3>1 DEF Placed
  <2> QED
    BY <1>0, <2>1, <2>5, <2>6 DEF Places
<1>11. CASE Flag
  BY <1>11, <1>b, DecodePlaces DEF Flag, schedulerVars, queueVars, DecodeSide
<1> QED
  BY <1>1, <1>2, <1>3, <1>4, <1>5, <1>6, <1>7, <1>8, <1>9, <1>10, <1>11 DEF CoreStep, TickStep

LEMMA CacheStep == Inv /\ CoreStep => PrefixCacheExact'
<1> SUFFICES ASSUME Inv, CoreStep PROVE PrefixCacheExact'
  OBVIOUS
<1>0. PrefixCacheExact
  BY DEF Inv
<1>1. ASSUME UNCHANGED prefixCache PROVE PrefixCacheExact'
  BY <1>0, <1>1 DEF PrefixCacheExact
<1>2. ASSUME Exact(prefixCache'), Len(prefixCache') <= PrefixCapacity PROVE PrefixCacheExact'
  BY <1>2 DEF PrefixCacheExact, Exact
<1>3. CASE PrefillRun
  BY <1>2, <1>3, ChunkRun DEF PrefillRun
<1>4. ASSUME NEW r \in Request, FirstSubmit(r) PROVE PrefixCacheExact'
  BY <1>2, <1>4, WarmStart DEF FirstSubmit, Submit
<1>5. CASE DecodeSide
  BY <1>1, <1>5 DEF DecodeSide, DecodeScan, Feed, Settle, DecodeEnd, AdvanceGroup, AdvanceAlone,
                    Flag, Retire, DecodeForward, DecodeGroupBatched, DecodeSample, Sample,
                    engineVars
<1>6. CASE QueueSide
  BY <1>1, <1>6 DEF QueueSide, PrefillPop, PrefillEnd, Retire, engineVars
<1> QED
  BY <1>3, <1>4, <1>5, <1>6 DEF CoreStep, TickStep, DecodeSide, QueueSide

\* Requests a step of the decode side leaves alone, and those it ends.
LEMMA DecodeKeepsKV ==
    ASSUME Inv, DecodeSide, NEW q \in Request,
           prefilled'[q] = prefilled[q], kv'[q] = kv[q], logits'[q] = logits[q],
           gen'[q] = gen[q], finished[q] => finished'[q],
           q \in cohort' => InCohort(q)',
           q \in cohort /\ q \notin cohort' /\ Decoding(q)' => Whole(q)
    PROVE  KVOf(q)'
<1>1. UNCHANGED submitted /\ (Prefilling(q)' <=> Prefilling(q)) /\ (Decoding(q)' => Decoding(q))
  BY DecodeMoves
<1>2. KVOf(q)
  BY DEF Inv, KVInv
<1>3. Whole(q) => Whole(q)'
  BY DEF Whole
<1> QED
  BY <1>1, <1>2, <1>3 DEF KVOf

LEMMA KVStep == Inv /\ CoreStep => KVInv'
<1> SUFFICES ASSUME Inv, CoreStep PROVE KVInv'
  OBVIOUS
<1>0. Phases /\ Places /\ KVInv /\ EngineTypeOK /\ SchedulerTypeOK
  BY DEF Inv, TypeInv
<1>a. /\ kv \in [Request -> Seq(Token)] /\ gen \in [Request -> Seq(Token)]
      /\ logits \in [Request -> Nat] /\ prefilled \in [Request -> Nat]
      /\ active \subseteq Request /\ cohort \subseteq Request
  BY <1>0 DEF EngineTypeOK, SchedulerTypeOK
<1>1. CASE DecodeScan
  <2>1. /\ tick = "idle" /\ UNCHANGED <<prefilled, kv, logits, gen, cohort>>
        /\ \A q \in Request : finished[q] => finished'[q]
    BY <1>1 DEF DecodeScan, Retire
  <2>2. cohort = {}
    BY <1>0, <2>1 DEF Phases
  <2>3. ASSUME NEW q \in Request PROVE KVOf(q)'
    BY <1>1, <2>1, <2>2, DecodeKeepsKV DEF DecodeSide
  <2> QED
    BY <2>3 DEF KVInv
<1>2. ASSUME NEW lead \in Request, AdvanceGroup(lead) PROVE KVInv'
  <2>1. /\ tick = "cohorts" /\ tick' = "settle" /\ cohort' = Cohort(lead)
        /\ Cohort(lead) \subseteq active /\ submitted' = submitted
    BY <1>2 DEF AdvanceGroup, Cohort
  <2>2. PICK token \in [Cohort(lead) -> Token] :
               Sample(Cohort(lead), token) /\ Forward(Cohort(lead), token)
    BY <1>2 DEF AdvanceGroup, DecodeGroupBatched
  <2>3. cohort = {} /\ DecodeSide
    BY <1>0, <1>2, <2>1 DEF Phases, DecodeSide
  <2>4. /\ gen' = [r \in Request |-> IF r \in Cohort(lead) THEN Append(gen[r], token[r])
                                   ELSE gen[r]]
        /\ kv' = [r \in Request |-> IF r \in Cohort(lead) THEN Append(kv[r], token[r])
                                  ELSE kv[r]]
        /\ logits' = [r \in Request |-> IF r \in Cohort(lead) THEN Len(kv[r]) + 1
                                      ELSE logits[r]]
        /\ \A q \in Request : finished[q] => finished'[q]
        /\ prefilled' = prefilled
    BY <2>2 DEF Sample, Forward
  <2>5. ASSUME NEW q \in Request, q \notin Cohort(lead) PROVE KVOf(q)'
    BY <2>1, <2>3, <2>4, <2>5, DecodeKeepsKV
  <2>6. ASSUME NEW q \in Request, q \in Cohort(lead) PROVE KVOf(q)'
    <3>1. Decoding(q) /\ q \notin cohort
      BY <2>1, <2>3, <2>6 DEF Decoding
    <3>2. KVOf(q) /\ Placed(q)
      BY <1>0 DEF KVInv, Places
    <3>3. Whole(q) /\ prefilled[q] = Len(Prompt[q]) /\ ~Prefilling(q) /\ q \in submitted
      BY <3>1, <3>2 DEF KVOf, Placed
    <3>4. token[q] \in Token /\ Prompt[q] \in Seq(Token) /\ gen[q] \in Seq(Token)
          /\ kv[q] \in Seq(Token)
      BY <1>a, <2>6
    <3>5. /\ kv'[q] = Append(kv[q], token[q]) /\ gen'[q] = Append(gen[q], token[q])
          /\ logits'[q] = Len(kv[q]) + 1
      BY <2>4, <2>6
    <3>6. kv'[q] = Prompt[q] \o gen'[q]
      <4>1. kv'[q] = Append(Prompt[q] \o gen[q], token[q])
        BY <3>3, <3>5 DEF Whole
      <4>2. Append(Prompt[q] \o gen[q], token[q]) = Prompt[q] \o Append(gen[q], token[q])
        <5> HIDE EngineAssumption, SchedulerAssumption, PrefixCapacityAssumption
        <5> QED
          BY <3>4, ExtendTokens, Zenon
      <4>3. gen'[q] = Append(gen[q], token[q])
        BY <3>5
      <4>4. Prompt[q] \o gen'[q] = Prompt[q] \o Append(gen[q], token[q])
        BY <4>3, Zenon
      <4> QED
        BY <4>1, <4>2, <4>4, Zenon
    <3>7. logits'[q] = Len(kv'[q])
      BY <3>4, <3>5
    <3>8. ~Prefilling(q)'
      BY <2>3, <3>3, DecodeMoves
    <3> QED
      BY <2>1, <2>4, <2>6, <3>3, <3>6, <3>7, <3>8 DEF KVOf, InCohort, Whole
  <2> QED
    BY <2>5, <2>6 DEF KVInv
<1>3. ASSUME NEW r \in Request, AdvanceAlone(r) PROVE KVInv'
  <2>1. /\ tick = "cohorts" /\ cohort' = {r} /\ r \in active /\ submitted' = submitted
    BY <1>3 DEF AdvanceAlone
  <2>2. cohort = {} /\ DecodeSide
    BY <1>0, <1>3, <2>1 DEF Phases, DecodeSide
  <2>3. Decoding(r) /\ r \notin cohort
    BY <2>1, <2>2 DEF Decoding
  <2>4. KVOf(r) /\ Placed(r)
    BY <1>0 DEF KVInv, Places
  <2>5. Whole(r) /\ prefilled[r] = Len(Prompt[r]) /\ ~Prefilling(r) /\ r \in submitted
    BY <2>3, <2>4 DEF KVOf, Placed
  <2>6. CASE finished[r]
    <3>1. tick' = "settle" /\ UNCHANGED <<prefilled, kv, logits, gen, finished>>
      BY <1>3, <2>6 DEF AdvanceAlone, engineVars, requestVars
    <3>2. Whole(r)'
      BY <2>5, <3>1 DEF Whole
    <3>3. ASSUME NEW q \in Request PROVE KVOf(q)'
      BY <2>1, <2>2, <3>1, <3>2, DecodeKeepsKV DEF InCohort
    <3> QED
      BY <3>3 DEF KVInv
  <2>7. CASE ~finished[r]
    <3>1. PICK token \in [{r} -> Token] :
                 Sample({r}, token) /\ UNCHANGED <<kv, versions, logits>>
      BY <1>3, <2>7 DEF AdvanceAlone, DecodeSample
    <3>2. /\ tick' = "feed" /\ UNCHANGED <<prefilled, kv, logits>>
          /\ gen' = [q \in Request |-> IF q \in {r} THEN Append(gen[q], token[q]) ELSE gen[q]]
          /\ \A q \in Request : finished[q] => finished'[q]
      BY <1>3, <2>7, <3>1 DEF AdvanceAlone, Sample
    <3>3. ASSUME NEW q \in Request, q # r PROVE KVOf(q)'
      BY <2>1, <2>2, <3>2, <3>3, DecodeKeepsKV
    <3>4. token[r] \in Token /\ gen[r] \in Seq(Token) /\ gen'[r] = Append(gen[r], token[r])
      BY <1>a, <3>2
    <3>5. Short(r)'
      <4>1. gen'[r] # <<>> /\ SubSeq(gen'[r], 1, Len(gen'[r]) - 1) = gen[r]
        <5>1. \A t \in Seq(Token), x \in Token :
                 /\ SubSeq(Append(t, x), 1, Len(Append(t, x)) - 1) = t
                 /\ Append(t, x) # <<>>
          BY Extend
        <5> QED
          BY <3>4, <5>1, Zenon
      <4> QED
        BY <2>5, <3>2, <4>1 DEF Short, Whole
    <3>6. ~Prefilling(r)'
      BY <2>2, <2>5, DecodeMoves
    <3>7. KVOf(r)'
      BY <2>1, <2>4, <2>5, <3>2, <3>5, <3>6 DEF KVOf, InCohort
    <3> QED
      BY <3>3, <3>7 DEF KVInv
  <2> QED
    BY <2>6, <2>7
<1>4. CASE Feed
  <2>1. /\ tick = "feed" /\ tick' = "settle" /\ DecodeSide
        /\ UNCHANGED <<cohort, submitted>>
    BY <1>4 DEF Feed, queueVars, DecodeSide
  <2>2. PICK r \in cohort : DecodeForward(r)
    BY <1>4 DEF Feed
  <2>3. cohort = {r} /\ r \in Request
    BY <1>0, <1>a, <2>1, <2>2 DEF Phases
  <2>4. Short(r) /\ KVOf(r)
    BY <1>0, <2>1, <2>2, <2>3 DEF KVInv, KVOf, InCohort
  <2>5. UNCHANGED <<prefilled, gen, finished>>
    BY <2>2 DEF DecodeForward
  <2>6. CASE finished[r]
    <3>1. UNCHANGED <<kv, logits>>
      BY <2>2, <2>6 DEF DecodeForward
    <3>2. Short(r)'
      BY <2>4, <2>5, <3>1 DEF Short
    <3>3. ASSUME NEW q \in Request PROVE KVOf(q)'
      BY <2>1, <2>3, <2>5, <2>6, <3>1, <3>2, DecodeKeepsKV DEF InCohort
    <3> QED
      BY <3>3 DEF KVInv
  <2>7. CASE ~finished[r]
    <3>1. Forward({r}, [q \in {r} |-> gen[q][Len(gen[q])]])
      BY <2>2, <2>7 DEF DecodeForward
    <3>2. /\ kv'[r] = Append(kv[r], gen[r][Len(gen[r])])
          /\ logits'[r] = Len(kv[r]) + 1
          /\ \A q \in Request \ {r} : kv'[q] = kv[q] /\ logits'[q] = logits[q]
      BY <2>3, <3>1 DEF Forward
    <3>3. ASSUME NEW q \in Request, q # r PROVE KVOf(q)'
      BY <2>1, <2>3, <2>5, <3>2, <3>3, DecodeKeepsKV
    <3>4. /\ gen[r] \in Seq(Token) /\ kv[r] \in Seq(Token) /\ Prompt[r] \in Seq(Token)
          /\ gen[r] # <<>> /\ kv[r] = Prompt[r] \o SubSeq(gen[r], 1, Len(gen[r]) - 1)
      BY <1>a, <2>3, <2>4 DEF Short
    <3>5. kv'[r] = Prompt[r] \o gen[r] /\ gen[r][Len(gen[r])] \in Token
      <4>1. \A s, t \in Seq(Token) : t # <<>> =>
               /\ Append(s \o SubSeq(t, 1, Len(t) - 1), t[Len(t)]) = s \o t
               /\ t[Len(t)] \in Token
        BY Restore
      <4>2. kv'[r] = Append(Prompt[r] \o SubSeq(gen[r], 1, Len(gen[r]) - 1), gen[r][Len(gen[r])])
        BY <3>2, <3>4
      <4> QED
        BY <3>4, <4>1, <4>2, Zenon
    <3>6. Whole(r)'
      BY <2>5, <3>5 DEF Whole
    <3>7. logits'[r] = Len(kv'[r])
      BY <3>2, <3>4, <3>5
    <3>8. /\ Prefilling(r)' <=> Prefilling(r)
          /\ Decoding(r)' => Decoding(r)
      BY <2>1, <2>3, DecodeMoves
    <3>9. Decoding(r) /\ Placed(r)
      BY <1>0, <2>3 DEF Places, Decoding
    <3>10. ~Prefilling(r)' /\ r \in submitted
      BY <3>8, <3>9 DEF Placed
    <3>11. KVOf(r)'
      BY <2>1, <2>3, <2>4, <2>5, <3>6, <3>7, <3>8, <3>10 DEF KVOf, InCohort
    <3> QED
      BY <3>3, <3>11 DEF KVInv
  <2> QED
    BY <2>6, <2>7
<1>5. CASE Settle
  <2>1. /\ tick = "settle" /\ cohort' = {} /\ active' = active /\ DecodeSide
        /\ nextDecode' = nextDecode \cup GoOn /\ tick' = "cohorts"
        /\ UNCHANGED <<prefilled, kv, logits, gen>>
        /\ \A q \in Request : finished[q] => finished'[q]
    BY <1>5 DEF Settle, Retire, DecodeSide
  <2>2. ASSUME NEW q \in Request, q \in cohort, Decoding(q)' PROVE Whole(q)
    <3>1. ~finished[q]
      BY <1>0, <2>1, <2>2 DEF Places, Decoding, GoOn, Done
    <3>2. KVOf(q)
      BY <1>0 DEF KVInv
    <3> QED
      BY <2>1, <2>2, <3>1, <3>2 DEF KVOf, InCohort
  <2>3. ASSUME NEW q \in Request PROVE KVOf(q)'
    BY <2>1, <2>2, DecodeKeepsKV
  <2> QED
    BY <2>3 DEF KVInv
<1>6. CASE DecodeEnd
  <2>1. /\ tick = "cohorts" /\ DecodeSide
        /\ UNCHANGED <<prefilled, kv, logits, gen, finished, cohort>>
    BY <1>6 DEF DecodeEnd, DecodeSide, engineVars, requestVars
  <2>2. cohort = {}
    BY <1>0, <2>1 DEF Phases
  <2>3. ASSUME NEW q \in Request PROVE KVOf(q)'
    BY <2>1, <2>2, DecodeKeepsKV
  <2> QED
    BY <2>3 DEF KVInv
<1>7. CASE QueueSide
  <2>1. UNCHANGED <<prefilled, kv, logits, gen, cohort, submitted>> /\ cohort = {}
    BY <1>0, <1>7 DEF QueueSide, PrefillPop, PrefillEnd, Retire, engineVars, requestVars, Phases
  <2>2. ASSUME NEW q \in Request PROVE KVOf(q)'
    <3>1. KVOf(q)
      BY <1>0 DEF KVInv
    <3>2. (Prefilling(q)' => Prefilling(q)) /\ (Decoding(q)' => Decoding(q))
      BY <1>7, PopMoves
    <3> QED
      BY <2>1, <3>1, <3>2 DEF KVOf, Whole
  <2> QED
    BY <2>2 DEF KVInv
<1>8. CASE PrefillRun
  <2>1. /\ tick = "chunk" /\ PrefillAndCommit(chunking) /\ UNCHANGED <<cohort, submitted>>
    BY <1>8 DEF PrefillRun
  <2>2. /\ chunking \in Request
        /\ prefilled'[chunking] \in prefilled[chunking] .. Len(Prompt[chunking])
        /\ kv'[chunking] = SubSeq(Prompt[chunking], 1, prefilled'[chunking])
        /\ logits'[chunking] = Len(kv'[chunking])
        /\ \A q \in Request \ {chunking} :
             prefilled'[q] = prefilled[q] /\ kv'[q] = kv[q] /\ logits'[q] = logits[q]
        /\ UNCHANGED gen
    BY <2>1, ChunkRun
  <2>3. cohort = {}
    BY <1>0, <2>1 DEF Phases
  <2>4. ASSUME NEW q \in Request PROVE KVOf(q)'
    <3>1. KVOf(q) /\ Placed(q)
      BY <1>0 DEF KVInv, Places
    <3>2. /\ Prefilling(q)' => Prefilling(q)
          /\ chunking = q /\ Prefilling(q)' => Incomplete(q, prefilled'[q])
          /\ Decoding(q)' =>
               \/ Decoding(q)
               \/ chunking = q /\ ~Incomplete(q, prefilled'[q])
      BY <1>8, RunMoves
    <3>3. CASE q # chunking
      BY <2>1, <2>2, <2>3, <3>1, <3>2, <3>3 DEF KVOf, Whole
    <3>4. CASE q = chunking
      <4>1. Prefilling(q) /\ ~Decoding(q) /\ gen[q] = <<>> /\ q \in submitted
        BY <3>1, <3>4 DEF Prefilling, Placed, KVOf
      <4>2. Len(Prompt[q]) \in Nat /\ prefilled[q] \in Nat
        BY <1>a, WholePrompt
      <4>3. prefilled'[q] <= Len(Prompt[q])
        BY <2>2, <3>4, <4>2
      <4>4. ASSUME Decoding(q)' PROVE prefilled'[q] = Len(Prompt[q]) /\ Whole(q)'
        <5>1. prefilled'[q] = Len(Prompt[q])
          BY <2>2, <3>2, <3>4, <4>1, <4>2, <4>4 DEF Incomplete
        <5>2. kv'[q] = Prompt[q]
          BY <2>2, <3>4, <5>1, WholePrompt
        <5> QED
          BY <2>2, <4>1, <5>1, <5>2, WholePrompt DEF Whole
      <4> QED
        BY <2>1, <2>2, <2>3, <3>4, <4>1, <4>3, <4>4 DEF KVOf
    <3> QED
      BY <3>3, <3>4
  <2> QED
    BY <2>4 DEF KVInv
<1>9. ASSUME NEW r \in Request, FirstSubmit(r) PROVE KVInv'
  <2>1. /\ tick = "idle" /\ r \notin submitted /\ NewRequest(r)
        /\ submitted' = submitted \cup {r} /\ cohort' = cohort
    BY <1>9 DEF FirstSubmit, Submit
  <2>2. /\ prefilled'[r] \in 0 .. Len(Prompt[r])
        /\ kv'[r] = SubSeq(Prompt[r], 1, prefilled'[r])
        /\ logits'[r] = Len(kv'[r])
        /\ \A q \in Request \ {r} :
             prefilled'[q] = prefilled[q] /\ kv'[q] = kv[q] /\ logits'[q] = logits[q]
        /\ UNCHANGED gen
    BY <2>1, WarmStart
  <2>3. cohort = {}
    BY <1>0, <2>1 DEF Phases
  <2>4. /\ ~Prefilling(r) /\ ~Decoding(r)
        /\ \A q \in Request :
             /\ Prefilling(q)' =>
                  Prefilling(q) \/ (q = r /\ Incomplete(r, prefilled'[r]))
             /\ Decoding(q)' =>
                  Decoding(q) \/ (q = r /\ ~Incomplete(r, prefilled'[r]))
    BY <1>9, SubmitMoves
  <2>5. ASSUME NEW q \in Request, q # r PROVE KVOf(q)'
    <3>1. KVOf(q)
      BY <1>0 DEF KVInv
    <3> QED
      BY <2>1, <2>2, <2>3, <2>4, <2>5, <3>1 DEF KVOf, Whole
  <2>6. KVOf(r)'
    <3>1. gen[r] = <<>> /\ Len(Prompt[r]) \in Nat
      BY <1>9, WholePrompt DEF FirstSubmit, Unborn
    <3>2. prefilled'[r] <= Len(Prompt[r])
      BY <2>2, <3>1
    <3>3. ASSUME Decoding(r)' PROVE prefilled'[r] = Len(Prompt[r]) /\ Whole(r)'
      <4>1. prefilled'[r] = Len(Prompt[r])
        BY <2>2, <2>4, <3>1, <3>3 DEF Incomplete
      <4>2. kv'[r] = Prompt[r]
        BY <2>2, <4>1, WholePrompt
      <4> QED
        BY <2>2, <3>1, <4>1, <4>2, WholePrompt DEF Whole
    <3> QED
      BY <2>1, <2>2, <2>3, <3>1, <3>2, <3>3 DEF KVOf
  <2> QED
    BY <2>5, <2>6 DEF KVInv
<1>10. CASE Flag
  <2>1. /\ DecodeSide /\ UNCHANGED <<prefilled, kv, logits, gen, cohort, tick>>
        /\ \A q \in Request : finished[q] => finished'[q]
    BY <1>10 DEF Flag, schedulerVars, queueVars, DecodeSide
  <2>2. ASSUME NEW q \in Request PROVE KVOf(q)'
    <3>1. q \in cohort => InCohort(q)'
      <4>1. q \in cohort => InCohort(q)
        BY <1>0 DEF KVInv, KVOf
      <4> QED
        BY <2>1, <4>1 DEF InCohort, Whole, Short
    <3> QED
      BY <2>1, <3>1, DecodeKeepsKV
  <2> QED
    BY <2>2 DEF KVInv
<1> QED
  BY <1>1, <1>2, <1>3, <1>4, <1>5, <1>6, <1>7, <1>8, <1>9, <1>10
  DEF CoreStep, TickStep, QueueSide

LEMMA DecodeKeepsBounds ==
    ASSUME Inv, DecodeSide, NEW q \in Request,
           gen'[q] = gen[q], kv'[q] = kv[q],
           q \in active' => q \in active \/ Len(gen[q]) < MaxNew[q],
           q \in cohort' => finished'[q] \/ Open(q),
           q \in cohort /\ q \notin cohort' /\ Decoding(q)' => Open(q)
    PROVE  BoundsOf(q)'
<1>1. UNCHANGED submitted /\ (Decoding(q)' => Decoding(q))
  BY DecodeMoves
<1>2. BoundsOf(q)
  BY DEF Inv, BoundInv
<1>3. Open(q)' <=> Open(q)
  BY DEF Open
<1> QED
  BY <1>1, <1>2, <1>3 DEF BoundsOf, Admissible

\* One more token for a request that may still generate.
LEMMA SampleBounds ==
    ASSUME Inv, NEW q \in Request, NEW token \in Token,
           q \in active, q \notin cohort,
           gen'[q] = Append(gen[q], token),
           EndsWith(q, token) => finished'[q]
    PROVE  /\ Len(gen'[q]) = Len(gen[q]) + 1
           /\ Len(gen'[q]) <= MaxNew[q]
           /\ q \in StopsAtEos => \A i \in 1 .. Len(gen'[q]) - 1 : gen'[q][i] # Eos
           /\ finished'[q] \/ Open(q)'
<1>1. gen[q] \in Seq(Token) /\ MaxNew[q] \in Nat
  BY DEF Inv, TypeInv, EngineTypeOK
<1>2. BoundsOf(q) /\ Open(q) /\ Len(gen[q]) < MaxNew[q]
  BY DEF Inv, BoundInv, BoundsOf, Decoding
<1>3. /\ Len(gen'[q]) = Len(gen[q]) + 1 /\ Len(gen[q]) \in Nat
      /\ DOMAIN gen'[q] = 1 .. Len(gen[q]) + 1
      /\ \A i \in 1 .. Len(gen[q]) : gen'[q][i] = gen[q][i]
      /\ gen'[q][Len(gen[q]) + 1] = token
      /\ DOMAIN gen[q] = 1 .. Len(gen[q])
  BY <1>1
<1>4. Len(gen'[q]) <= MaxNew[q]
  BY <1>1, <1>2, <1>3
<1>5. ASSUME q \in StopsAtEos PROVE \A i \in 1 .. Len(gen'[q]) - 1 : gen'[q][i] # Eos
  <2>1. Len(gen'[q]) - 1 = Len(gen[q])
    BY <1>3
  <2> QED
    BY <1>2, <1>3, <1>5, <2>1 DEF Open
<1>6. CASE token = Eos /\ q \in StopsAtEos
  BY <1>3, <1>4, <1>5, <1>6 DEF EndsWith
<1>7. CASE ~(token = Eos /\ q \in StopsAtEos)
  <2>1. ASSUME q \in StopsAtEos, NEW i \in 1 .. Len(gen[q]) + 1 PROVE gen'[q][i] # Eos
    <3>1. CASE i = Len(gen[q]) + 1
      BY <1>3, <1>7, <2>1, <3>1
    <3>2. CASE i # Len(gen[q]) + 1
      <4>1. i \in 1 .. Len(gen[q])
        BY <1>3, <2>1, <3>2
      <4> QED
        BY <1>2, <1>3, <2>1, <4>1 DEF Open
    <3> QED
      BY <3>1, <3>2
  <2>2. Open(q)'
    BY <1>3, <2>1 DEF Open
  <2> QED
    BY <1>3, <1>4, <1>5, <2>2
<1> QED
  BY <1>6, <1>7

LEMMA BoundStep == Inv /\ CoreStep => BoundInv'
<1> SUFFICES ASSUME Inv, CoreStep PROVE BoundInv'
  OBVIOUS
<1>0. Phases /\ Places /\ KVInv /\ BoundInv /\ EngineTypeOK /\ SchedulerTypeOK
  BY DEF Inv, TypeInv
<1>a. /\ kv \in [Request -> Seq(Token)] /\ gen \in [Request -> Seq(Token)]
      /\ MaxNew \in [Request -> Nat] /\ finished \in [Request -> BOOLEAN]
      /\ active \subseteq Request /\ cohort \subseteq Request
  BY <1>0 DEF EngineTypeOK, SchedulerTypeOK
<1>1. CASE DecodeScan
  <2>1. /\ tick = "idle" /\ UNCHANGED <<kv, gen, cohort>> /\ DecodeSide
        /\ active' = {r \in decodeQueue : ~Done(r)}
    BY <1>1 DEF DecodeScan, Retire, DecodeSide
  <2>2. cohort = {}
    BY <1>0, <2>1 DEF Phases
  <2>3. ASSUME NEW q \in Request PROVE BoundsOf(q)'
    <3>1. ~Done(q) => Len(gen[q]) < MaxNew[q]
      BY <1>a DEF Done, RemainingDecode
    <3> QED
      BY <2>1, <2>2, <3>1, DecodeKeepsBounds
  <2> QED
    BY <2>3 DEF BoundInv
<1>2. ASSUME NEW lead \in Request, AdvanceGroup(lead) PROVE BoundInv'
  <2>1. /\ tick = "cohorts" /\ cohort' = Cohort(lead) /\ DecodeSide
        /\ Cohort(lead) \subseteq active /\ active' = active \ Cohort(lead)
        /\ submitted' = submitted
    BY <1>2 DEF AdvanceGroup, Cohort, DecodeSide
  <2>2. PICK token \in [Cohort(lead) -> Token] :
               Sample(Cohort(lead), token) /\ Forward(Cohort(lead), token)
    BY <1>2 DEF AdvanceGroup, DecodeGroupBatched
  <2>3. cohort = {}
    BY <1>0, <2>1 DEF Phases
  <2>4. /\ gen' = [r \in Request |-> IF r \in Cohort(lead) THEN Append(gen[r], token[r])
                                   ELSE gen[r]]
        /\ kv' = [r \in Request |-> IF r \in Cohort(lead) THEN Append(kv[r], token[r])
                                  ELSE kv[r]]
        /\ finished' = [r \in Request |->
                          finished[r] \/ (r \in Cohort(lead) /\ EndsWith(r, token[r]))]
    BY <2>2 DEF Sample, Forward
  <2>5. ASSUME NEW q \in Request, q \notin Cohort(lead) PROVE BoundsOf(q)'
    BY <2>1, <2>3, <2>4, <2>5, DecodeKeepsBounds
  <2>6. ASSUME NEW q \in Request, q \in Cohort(lead) PROVE BoundsOf(q)'
    <3>1. /\ token[q] \in Token /\ gen'[q] = Append(gen[q], token[q])
          /\ kv'[q] = Append(kv[q], token[q]) /\ kv[q] \in Seq(Token)
          /\ q \in active /\ q \notin cohort
          /\ EndsWith(q, token[q]) => finished'[q]
      BY <1>a, <2>1, <2>3, <2>4, <2>6
    <3>2. /\ Len(gen'[q]) = Len(gen[q]) + 1
          /\ Len(gen'[q]) <= MaxNew[q]
          /\ q \in StopsAtEos => \A i \in 1 .. Len(gen'[q]) - 1 : gen'[q][i] # Eos
          /\ finished'[q] \/ Open(q)'
      BY <3>1, SampleBounds
    <3>3. BoundsOf(q)
      BY <1>0 DEF BoundInv
    <3>4. Len(kv'[q]) <= Len(Prompt[q]) + Len(gen'[q])
      <4>1. /\ Len(kv'[q]) = Len(kv[q]) + 1 /\ Len(kv[q]) \in Nat /\ Len(gen[q]) \in Nat
            /\ Len(Prompt[q]) \in Nat
        BY <1>a, <3>1, WholePrompt
      <4> QED
        BY <3>2, <3>3, <4>1 DEF BoundsOf
    <3> QED
      BY <2>1, <2>6, <3>2, <3>3, <3>4 DEF BoundsOf, Admissible
  <2> QED
    BY <2>5, <2>6 DEF BoundInv
<1>3. ASSUME NEW r \in Request, AdvanceAlone(r) PROVE BoundInv'
  <2>1. /\ tick = "cohorts" /\ cohort' = {r} /\ r \in active /\ submitted' = submitted
        /\ active' = active \ {r} /\ DecodeSide
    BY <1>3 DEF AdvanceAlone, DecodeSide
  <2>2. cohort = {}
    BY <1>0, <2>1 DEF Phases
  <2>3. BoundsOf(r)
    BY <1>0 DEF BoundInv
  <2>4. CASE finished[r]
    <3>1. UNCHANGED <<kv, gen, finished>>
      BY <1>3, <2>4 DEF AdvanceAlone, engineVars, requestVars
    <3>2. ASSUME NEW q \in Request PROVE BoundsOf(q)'
      BY <2>1, <2>2, <2>4, <3>1, DecodeKeepsBounds
    <3> QED
      BY <3>2 DEF BoundInv
  <2>5. CASE ~finished[r]
    <3>1. PICK token \in [{r} -> Token] :
                 Sample({r}, token) /\ UNCHANGED <<kv, versions, logits>>
      BY <1>3, <2>5 DEF AdvanceAlone, DecodeSample
    <3>2. /\ gen' = [q \in Request |-> IF q \in {r} THEN Append(gen[q], token[q]) ELSE gen[q]]
          /\ finished' = [q \in Request |->
                            finished[q] \/ (q \in {r} /\ EndsWith(q, token[q]))]
          /\ kv' = kv
      BY <3>1 DEF Sample
    <3>3. ASSUME NEW q \in Request, q # r PROVE BoundsOf(q)'
      BY <2>1, <2>2, <3>2, <3>3, DecodeKeepsBounds
    <3>4. /\ token[r] \in Token /\ gen'[r] = Append(gen[r], token[r])
          /\ EndsWith(r, token[r]) => finished'[r]
      BY <1>a, <3>2
    <3>5. /\ Len(gen'[r]) = Len(gen[r]) + 1
          /\ Len(gen'[r]) <= MaxNew[r]
          /\ r \in StopsAtEos => \A i \in 1 .. Len(gen'[r]) - 1 : gen'[r][i] # Eos
          /\ finished'[r] \/ Open(r)'
      BY <2>1, <2>2, <3>4, SampleBounds
    <3>6. Len(kv'[r]) <= Len(Prompt[r]) + Len(gen'[r])
      <4>1. Len(kv[r]) \in Nat /\ Len(gen[r]) \in Nat /\ Len(Prompt[r]) \in Nat
        BY <1>a, WholePrompt
      <4> QED
        BY <2>3, <3>2, <3>5, <4>1 DEF BoundsOf
    <3>7. BoundsOf(r)'
      BY <2>1, <2>3, <3>5, <3>6 DEF BoundsOf, Admissible
    <3> QED
      BY <3>3, <3>7 DEF BoundInv
  <2> QED
    BY <2>4, <2>5
<1>4. CASE Feed
  <2>1. tick = "feed" /\ DecodeSide /\ UNCHANGED <<cohort, submitted, active>>
    BY <1>4 DEF Feed, queueVars, DecodeSide
  <2>2. PICK r \in cohort : DecodeForward(r)
    BY <1>4 DEF Feed
  <2>3. cohort = {r} /\ r \in Request
    BY <1>0, <1>a, <2>1, <2>2 DEF Phases
  <2>4. Short(r) /\ BoundsOf(r)
    BY <1>0, <2>1, <2>2, <2>3 DEF KVInv, KVOf, InCohort, BoundInv
  <2>5. UNCHANGED <<gen, finished>>
    BY <2>2 DEF DecodeForward
  <2>6. ASSUME NEW q \in Request, kv'[q] = kv[q] PROVE BoundsOf(q)'
    <3>1. BoundsOf(q)
      BY <1>0 DEF BoundInv
    <3> QED
      BY <2>1, <2>5, <2>6, <3>1, DecodeKeepsBounds DEF BoundsOf
  <2>7. CASE finished[r]
    BY <2>2, <2>6, <2>7 DEF DecodeForward, BoundInv
  <2>8. CASE ~finished[r]
    <3>1. Forward({r}, [q \in {r} |-> gen[q][Len(gen[q])]])
      BY <2>2, <2>8 DEF DecodeForward
    <3>2. /\ kv'[r] = Append(kv[r], gen[r][Len(gen[r])])
          /\ \A q \in Request \ {r} : kv'[q] = kv[q]
      BY <2>3, <3>1 DEF Forward
    <3>3. Len(kv'[r]) <= Len(Prompt[r]) + Len(gen[r])
      <4>1. /\ gen[r] \in Seq(Token) /\ kv[r] \in Seq(Token) /\ Prompt[r] \in Seq(Token)
            /\ gen[r] # <<>> /\ kv[r] = Prompt[r] \o SubSeq(gen[r], 1, Len(gen[r]) - 1)
        BY <1>a, <2>3, <2>4 DEF Short
      <4>2. kv'[r] = Prompt[r] \o gen[r]
        <5>1. \A s, t \in Seq(Token) : t # <<>> =>
                 /\ Append(s \o SubSeq(t, 1, Len(t) - 1), t[Len(t)]) = s \o t
                 /\ t[Len(t)] \in Token
          BY Restore
        <5>2. kv'[r] = Append(Prompt[r] \o SubSeq(gen[r], 1, Len(gen[r]) - 1),
                              gen[r][Len(gen[r])])
          BY <3>2, <4>1
        <5> QED
          BY <4>1, <5>1, <5>2, Zenon
      <4> QED
        BY <4>1, <4>2
    <3>4. BoundsOf(r)'
      BY <2>1, <2>3, <2>4, <2>5, <3>3, DecodeMoves DEF BoundsOf, Admissible, Open
    <3> QED
      BY <2>6, <3>2, <3>4 DEF BoundInv
  <2> QED
    BY <2>7, <2>8
<1>5. CASE Settle
  <2>1. /\ tick = "settle" /\ cohort' = {} /\ active' = active /\ DecodeSide
        /\ nextDecode' = nextDecode \cup GoOn /\ tick' = "cohorts"
        /\ UNCHANGED <<kv, gen>>
    BY <1>5 DEF Settle, Retire, DecodeSide
  <2>2. ASSUME NEW q \in Request, q \in cohort, Decoding(q)' PROVE Open(q)
    <3>1. ~finished[q]
      BY <1>0, <2>1, <2>2 DEF Places, Decoding, GoOn, Done
    <3>2. BoundsOf(q)
      BY <1>0 DEF BoundInv
    <3> QED
      BY <2>2, <3>1, <3>2 DEF BoundsOf
  <2>3. ASSUME NEW q \in Request PROVE BoundsOf(q)'
    BY <2>1, <2>2, DecodeKeepsBounds
  <2> QED
    BY <2>3 DEF BoundInv
<1>6. CASE DecodeEnd
  <2>1. tick = "cohorts" /\ DecodeSide /\ UNCHANGED <<kv, gen, cohort, active>>
    BY <1>6 DEF DecodeEnd, DecodeSide, engineVars, requestVars
  <2>2. cohort = {}
    BY <1>0, <2>1 DEF Phases
  <2>3. ASSUME NEW q \in Request PROVE BoundsOf(q)'
    BY <2>1, <2>2, DecodeKeepsBounds
  <2> QED
    BY <2>3 DEF BoundInv
<1>7. CASE QueueSide
  <2>1. UNCHANGED <<kv, gen, cohort, active, submitted>> /\ cohort = {}
    BY <1>0, <1>7 DEF QueueSide, PrefillPop, PrefillEnd, Retire, engineVars, requestVars, Phases
  <2>2. ASSUME NEW q \in Request PROVE BoundsOf(q)'
    <3>1. BoundsOf(q)
      BY <1>0 DEF BoundInv
    <3>2. Decoding(q)' => Decoding(q)
      BY <1>7, PopMoves
    <3> QED
      BY <2>1, <3>1, <3>2 DEF BoundsOf, Open, Admissible
  <2> QED
    BY <2>2 DEF BoundInv
<1>8. CASE PrefillRun
  <2>1. /\ tick = "chunk" /\ PrefillAndCommit(chunking)
        /\ UNCHANGED <<cohort, active, submitted>>
    BY <1>8 DEF PrefillRun
  <2>2. /\ chunking \in Request
        /\ prefilled'[chunking] \in prefilled[chunking] .. Len(Prompt[chunking])
        /\ kv'[chunking] = SubSeq(Prompt[chunking], 1, prefilled'[chunking])
        /\ prefilled' \in [Request -> Nat]
        /\ \A q \in Request \ {chunking} : kv'[q] = kv[q]
        /\ UNCHANGED gen
    BY <2>1, ChunkRun
  <2>3. cohort = {} /\ active = {}
    BY <1>0, <2>1 DEF Phases
  <2>4. ASSUME NEW q \in Request PROVE BoundsOf(q)'
    <3>1. BoundsOf(q) /\ KVOf(q)
      BY <1>0 DEF BoundInv, KVInv
    <3>2. Decoding(q)' => Decoding(q) \/ chunking = q
      BY <1>8, RunMoves
    <3>3. CASE q # chunking
      BY <2>1, <2>2, <2>3, <3>1, <3>2, <3>3 DEF BoundsOf, Open, Admissible
    <3>4. CASE q = chunking
      <4>1. gen[q] = <<>>
        BY <3>1, <3>4 DEF Prefilling, KVOf
      <4>2. Open(q)'
        BY <2>2, <4>1 DEF Open
      <4>3. Len(kv'[q]) <= Len(Prompt[q]) + Len(gen'[q])
        <5>1. prefilled'[q] \in 0 .. Len(Prompt[q]) /\ Len(Prompt[q]) \in Nat
              /\ Prompt[q] \in Seq(Token)
          BY <2>2, <3>4, WholePrompt
        <5>2. Len(kv'[q]) = prefilled'[q]
          BY <2>2, <3>4, <5>1
        <5> QED
          BY <2>2, <4>1, <5>1, <5>2
      <4> QED
        BY <2>1, <2>2, <2>3, <3>1, <4>2, <4>3 DEF BoundsOf, Admissible
    <3> QED
      BY <3>3, <3>4
  <2> QED
    BY <2>4 DEF BoundInv
<1>9. ASSUME NEW r \in Request, FirstSubmit(r) PROVE BoundInv'
  <2>1. /\ tick = "idle" /\ r \notin submitted /\ NewRequest(r) /\ Admissible(r)
        /\ submitted' = submitted \cup {r} /\ UNCHANGED <<cohort, active>>
    BY <1>9 DEF FirstSubmit, Submit
  <2>2. /\ prefilled'[r] \in 0 .. Len(Prompt[r])
        /\ kv'[r] = SubSeq(Prompt[r], 1, prefilled'[r])
        /\ \A q \in Request \ {r} : kv'[q] = kv[q]
        /\ UNCHANGED gen
    BY <2>1, WarmStart
  <2>3. cohort = {} /\ active = {}
    BY <1>0, <2>1 DEF Phases
  <2>4. \A q \in Request : Decoding(q)' => Decoding(q) \/ q = r
    BY <1>9, SubmitMoves
  <2>5. ASSUME NEW q \in Request, q # r PROVE BoundsOf(q)'
    <3>1. BoundsOf(q)
      BY <1>0 DEF BoundInv
    <3> QED
      BY <2>1, <2>2, <2>3, <2>4, <2>5, <3>1 DEF BoundsOf, Open, Admissible
  <2>6. BoundsOf(r)'
    <3>1. gen[r] = <<>> /\ BoundsOf(r)
      BY <1>0, <1>9 DEF BoundInv, FirstSubmit, Unborn
    <3>2. Open(r)'
      BY <2>2, <3>1 DEF Open
    <3>3. Len(kv'[r]) <= Len(Prompt[r]) + Len(gen'[r])
      <4>1. Prompt[r] \in Seq(Token) /\ Len(Prompt[r]) \in Nat
        BY WholePrompt
      <4>2. Len(kv'[r]) = prefilled'[r]
        BY <2>2, <4>1
      <4> QED
        BY <2>2, <3>1, <4>1, <4>2
    <3> QED
      BY <2>1, <2>2, <2>3, <3>1, <3>2, <3>3 DEF BoundsOf, Admissible
  <2> QED
    BY <2>5, <2>6 DEF BoundInv
<1>10. CASE Flag
  <2>1. /\ DecodeSide /\ UNCHANGED <<kv, gen, cohort, active>>
        /\ \A q \in Request : finished[q] => finished'[q]
    BY <1>10 DEF Flag, schedulerVars, queueVars, DecodeSide
  <2>2. ASSUME NEW q \in Request PROVE BoundsOf(q)'
    <3>1. BoundsOf(q)
      BY <1>0 DEF BoundInv
    <3> QED
      BY <2>1, <3>1, DecodeKeepsBounds DEF BoundsOf
  <2> QED
    BY <2>2 DEF BoundInv
<1> QED
  BY <1>1, <1>2, <1>3, <1>4, <1>5, <1>6, <1>7, <1>8, <1>9, <1>10
  DEF CoreStep, TickStep, QueueSide

\* The invariant is kept by every step of the scheduler, whoever drives it.
LEMMA CoreInv == Inv /\ CoreStep => Inv'
BY TypeStep, PhasesStep, PlacesStep, CacheStep, KVStep, BoundStep DEF Inv

LEMMA StutterInv == Inv /\ UNCHANGED vars => Inv'
<1> SUFFICES ASSUME Inv, UNCHANGED vars PROVE Inv'
  OBVIOUS
<1>1. /\ UNCHANGED <<prefilled, kv, versions, logits, gen, finished, cancelled, weights>>
      /\ UNCHANGED <<prefixCache, tick, prefillQueue, stillPrefilling, chunking, decodeQueue>>
      /\ UNCHANGED <<active, cohort, nextDecode, submitted, retired>>
  BY DEF vars, engineVars, requestVars, schedulerVars, queueVars
<1>2. TypeInv' /\ Phases'
  BY <1>1 DEF Inv, TypeInv, EngineTypeOK, SchedulerTypeOK, Phases
<1>3. \A r \in Request : (Prefilling(r)' <=> Prefilling(r)) /\ (Decoding(r)' <=> Decoding(r))
  BY <1>1 DEF Prefilling, Decoding
<1>4. Places'
  BY <1>1, <1>3 DEF Inv, Places, Placed
<1>5. PrefixCacheExact'
  BY <1>1 DEF Inv, PrefixCacheExact
<1>6. KVInv'
  BY <1>1, <1>3 DEF Inv, KVInv, KVOf, Whole, InCohort, Short
<1>7. BoundInv'
  BY <1>1, <1>3 DEF Inv, BoundInv, BoundsOf, Admissible, Open
<1> QED
  BY <1>2, <1>4, <1>5, <1>6, <1>7 DEF Inv

----------------------------------------------------------------------------
(***************************************************************************)
(* Requests outside the scheduler: not yet submitted, or retired.          *)
(***************************************************************************)

InScheduler(r) == Prefilling(r) \/ Decoding(r)

UnbornInv == \A r \in Request : r \notin submitted => Unborn(r)

\* A request is in the scheduler from its submission to its retirement.
LEMMA InMeansSubmitted ==
    ASSUME Inv, NEW q \in Request, InScheduler(q)
    PROVE  q \in submitted /\ retired[q] = 0
BY DEF Inv, Places, Placed, InScheduler

\* A tick changes nothing of a request that is not in the scheduler.
LEMMA OutsideFrame ==
    ASSUME Inv, DecodeScan \/ TickStep, NEW q \in Request, ~InScheduler(q)
    PROVE  /\ ~InScheduler(q)'
           /\ gen'[q] = gen[q] /\ versions'[q] = versions[q] /\ retired'[q] = retired[q]
           /\ finished'[q] = finished[q] /\ cancelled'[q] = cancelled[q]
<1>0. /\ Phases /\ SchedulerTypeOK /\ EngineTypeOK
      /\ ~Prefilling(q) /\ ~Decoding(q)
  BY DEF Inv, TypeInv, InScheduler
<1> DEFINE Same == /\ gen'[q] = gen[q] /\ versions'[q] = versions[q] /\ retired'[q] = retired[q]
                   /\ finished'[q] = finished[q] /\ cancelled'[q] = cancelled[q]
<1>1. CASE DecodeScan
  <2>1. q \notin decodeQueue
    BY <1>0, <1>1 DEF DecodeScan, Decoding
  <2>2. Same
    BY <1>0, <1>1, <2>1 DEF DecodeScan, Retire, EngineTypeOK, SchedulerTypeOK
  <2> QED
    BY <1>0, <1>1, <2>2, DecodeMoves DEF DecodeSide, InScheduler
<1>2. ASSUME NEW r \in Request, AdvanceGroup(r) PROVE ~InScheduler(q)' /\ Same
  <2>1. q \notin Cohort(r)
    BY <1>0 DEF Decoding, Cohort
  <2>2. PICK token \in [Cohort(r) -> Token] : Sample(Cohort(r), token) /\ Forward(Cohort(r), token)
    BY <1>2 DEF AdvanceGroup, DecodeGroupBatched
  <2>3. Same
    BY <1>0, <1>2, <2>1, <2>2 DEF AdvanceGroup, Sample, Forward, EngineTypeOK
  <2> QED
    BY <1>0, <1>2, <2>3, DecodeMoves DEF DecodeSide, InScheduler
<1>3. ASSUME NEW r \in Request, AdvanceAlone(r) PROVE ~InScheduler(q)' /\ Same
  <2>1. q # r
    BY <1>0, <1>3 DEF Decoding, AdvanceAlone
  <2>2. CASE finished[r]
    BY <1>0, <1>3, <2>2, DecodeMoves
    DEF DecodeSide, InScheduler, AdvanceAlone, engineVars, requestVars
  <2>3. CASE ~finished[r]
    <3>1. PICK token \in [{r} -> Token] :
            Sample({r}, token) /\ UNCHANGED <<kv, versions, logits>>
      BY <1>3, <2>3 DEF AdvanceAlone, DecodeSample
    <3>2. Same
      BY <1>0, <1>3, <2>1, <3>1 DEF AdvanceAlone, Sample, EngineTypeOK
    <3> QED
      BY <1>0, <1>3, <3>2, DecodeMoves DEF DecodeSide, InScheduler
  <2> QED
    BY <2>2, <2>3
<1>4. CASE Feed
  <2>1. PICK r \in cohort : DecodeForward(r)
    BY <1>4 DEF Feed
  <2>2. q # r
    BY <1>0, <2>1 DEF Decoding
  <2>3. versions'[q] = versions[q]
    BY <1>0, <2>1, <2>2 DEF DecodeForward, Forward, EngineTypeOK
  <2>4. Same
    BY <1>4, <2>1, <2>3 DEF Feed, DecodeForward
  <2> QED
    BY <1>0, <1>4, <2>4, DecodeMoves DEF DecodeSide, InScheduler
<1>5. CASE Settle
  <2>1. q \notin cohort
    BY <1>0 DEF Decoding
  <2>2. Same
    BY <1>0, <1>5, <2>1 DEF Settle, Retire, EngineTypeOK, SchedulerTypeOK
  <2> QED
    BY <1>0, <1>5, <2>2, DecodeMoves DEF DecodeSide, InScheduler
<1>6. CASE DecodeEnd
  BY <1>0, <1>6, DecodeMoves DEF DecodeEnd, DecodeSide, InScheduler, engineVars, requestVars
<1>7. CASE PrefillPop
  <2>1. q # Head(prefillQueue)
    BY <1>0, <1>7, TailFacts DEF PrefillPop, Prefilling, SchedulerTypeOK
  <2>2. Same
    BY <1>0, <1>7, <2>1
    DEF PrefillPop, Retire, engineVars, requestVars, EngineTypeOK, SchedulerTypeOK
  <2> QED
    BY <1>0, <1>7, <2>2, PopMoves DEF QueueSide, InScheduler
<1>8. CASE PrefillRun
  <2>1. q # chunking /\ PrefillAndCommit(chunking) /\ retired' = retired
    BY <1>0, <1>8 DEF PrefillRun, Prefilling
  <2>2. versions'[q] = versions[q]
    BY <1>0, <2>1 DEF PrefillAndCommit, EngineTypeOK
  <2>3. Same
    BY <2>1, <2>2 DEF PrefillAndCommit
  <2> QED
    BY <1>0, <1>8, <2>1, <2>3, RunMoves DEF InScheduler
<1>9. CASE PrefillEnd
  BY <1>0, <1>9, PopMoves DEF PrefillEnd, QueueSide, InScheduler, engineVars, requestVars
<1> QED
  BY <1>1, <1>2, <1>3, <1>4, <1>5, <1>6, <1>7, <1>8, <1>9 DEF TickStep

LEMMA RetireMember ==
    ASSUME NEW gone, Retire(gone), NEW q \in Request, q \in gone, retired[q] = 0
    PROVE  finished'[q] /\ retired'[q] = 1
<1>1. finished'[q]
  BY Zenon DEF Retire
<1>2. retired'[q] = retired[q] + 1
  BY DEF Retire
<1> QED
  BY <1>1, <1>2

\* A tick lets go of a request by retiring it.
LEMMA LeavesRetired ==
    ASSUME Inv, DecodeScan \/ TickStep, NEW q \in Request, InScheduler(q), ~InScheduler(q)'
    PROVE  finished'[q] /\ retired'[q] = 1
<1>0. /\ Phases /\ SchedulerTypeOK /\ EngineTypeOK /\ retired[q] = 0
  BY InMeansSubmitted DEF Inv, TypeInv
<1> DEFINE Gone == finished'[q] /\ retired'[q] = 1
<1>1. CASE DecodeScan
  <2>1. q \in decodeQueue /\ Done(q)
    BY <1>0, <1>1 DEF DecodeScan, InScheduler, Prefilling, Decoding, Phases
  <2> QED
    BY <1>0, <1>1, <2>1, RetireMember DEF DecodeScan
<1>2. ASSUME NEW r \in Request, AdvanceGroup(r) PROVE FALSE
  BY <1>0, <1>2 DEF AdvanceGroup, InScheduler, Prefilling, Decoding, Phases
<1>3. ASSUME NEW r \in Request, AdvanceAlone(r) PROVE FALSE
  BY <1>0, <1>3 DEF AdvanceAlone, InScheduler, Prefilling, Decoding, Phases
<1>4. CASE Feed
  BY <1>0, <1>4 DEF Feed, queueVars, InScheduler, Prefilling, Decoding
<1>5. CASE Settle
  <2>1. q \in cohort /\ Done(q)
    BY <1>0, <1>5 DEF Settle, GoOn, InScheduler, Prefilling, Decoding
  <2> QED
    BY <1>0, <1>5, <2>1, RetireMember DEF Settle
<1>6. CASE DecodeEnd
  BY <1>0, <1>6 DEF DecodeEnd, InScheduler, Prefilling, Decoding, Phases
<1>7. CASE PrefillPop
  <2>1. /\ Head(prefillQueue) \in Request
        /\ \A y : InSeq(y, prefillQueue) <=> y = Head(prefillQueue) \/ InSeq(y, prefillQueue')
    BY <1>0, <1>7, TailFacts DEF PrefillPop, SchedulerTypeOK
  <2>2. q = Head(prefillQueue) /\ cancelled[Head(prefillQueue)]
    BY <1>0, <1>7, <2>1 DEF PrefillPop, InScheduler, Prefilling, Decoding, Phases
  <2> QED
    BY <1>0, <1>7, <2>2, RetireMember DEF PrefillPop
<1>8. CASE PrefillRun
  <2>1. InSeq(chunking, Append(stillPrefilling, chunking))
        /\ \A y : InSeq(y, stillPrefilling) => InSeq(y, Append(stillPrefilling, chunking))
    BY <1>0, <1>8, AppendFacts DEF PrefillRun, SchedulerTypeOK, Phases
  <2> QED
    BY <1>0, <1>8, <2>1, ZenonT(60) DEF PrefillRun, InScheduler, Prefilling, Decoding
<1>9. CASE PrefillEnd
  BY <1>0, <1>9, EmptyFacts
  DEF PrefillEnd, StillPrefilling, InScheduler, Prefilling, Decoding, Phases
<1> QED
  BY <1>1, <1>2, <1>3, <1>4, <1>5, <1>6, <1>7, <1>8, <1>9 DEF TickStep

\* A submission puts its request into the scheduler and takes no other out.
LEMMA SubmitEnters ==
    ASSUME Inv, NEW r \in Request, FirstSubmit(r)
    PROVE  InScheduler(r)' /\ \A q \in Request : InScheduler(q) => InScheduler(q)'
<1>0. Phases /\ SchedulerTypeOK /\ tick = "idle" /\ Submit(r)
  BY DEF Inv, TypeInv, FirstSubmit
<1>1. \A y : InSeq(y, Append(prefillQueue, r)) <=> InSeq(y, prefillQueue) \/ y = r
  BY <1>0, AppendFacts DEF SchedulerTypeOK
<1>2. \/ prefillQueue' = Append(prefillQueue, r) /\ decodeQueue' = decodeQueue
      \/ decodeQueue' = decodeQueue \cup {r} /\ prefillQueue' = prefillQueue
  BY <1>0 DEF Submit
<1>3. UNCHANGED <<tick, stillPrefilling, chunking, active, cohort, nextDecode>>
  BY <1>0 DEF Submit
<1>4. InScheduler(r)'
  <2>1. InSeq(r, prefillQueue') \/ r \in decodeQueue'
    BY <1>1, <1>2
  <2> QED
    BY <1>0, <1>3, <2>1 DEF InScheduler, Prefilling, Decoding
<1>5. ASSUME NEW q \in Request, InScheduler(q) PROVE InScheduler(q)'
  <2>1. InSeq(q, prefillQueue) => InSeq(q, prefillQueue')
    BY <1>1, <1>2
  <2>2. q \in decodeQueue => q \in decodeQueue'
    BY <1>2
  <2>3. InSeq(q, stillPrefilling) => InSeq(q, stillPrefilling')
    BY <1>3
  <2> QED
    BY <1>0, <1>3, <1>5, <2>1, <2>2, <2>3 DEF InScheduler, Prefilling, Decoding
<1> QED
  BY <1>4, <1>5

\* No step but its submission and its cancel touches a request that is not submitted.
LEMMA InitUnborn == Init => UnbornInv
BY DEF Init, EngineInit, UnbornInv, Unborn

LEMMA CoreUnborn ==
    ASSUME Inv, UnbornInv, DecodeScan \/ TickStep \/ \E r \in Request : FirstSubmit(r)
    PROVE  UnbornInv'
<1>1. CASE DecodeScan \/ TickStep
  <2>1. submitted' = submitted
    BY <1>1 DEF DecodeScan, TickStep, AdvanceGroup, AdvanceAlone, Feed, Settle, DecodeEnd,
                PrefillPop, PrefillRun, PrefillEnd
  <2>2. ASSUME NEW q \in Request, q \notin submitted PROVE Unborn(q)'
    BY <1>1, <2>2, OutsideFrame, InMeansSubmitted DEF UnbornInv, Unborn
  <2> QED
    BY <2>1, <2>2 DEF UnbornInv
<1>2. ASSUME NEW r \in Request, FirstSubmit(r) PROVE UnbornInv'
  <2>1. submitted' = submitted \cup {r} /\ NewRequest(r) /\ versions \in [Request -> SUBSET Nat]
    BY <1>2 DEF FirstSubmit, Submit, Inv, TypeInv, EngineTypeOK
  <2>2. /\ UNCHANGED <<gen, finished, cancelled>>
        /\ \A q \in Request \ {r} : versions'[q] = versions[q]
    BY <2>1 DEF NewRequest
  <2> QED
    BY <2>1, <2>2 DEF UnbornInv, Unborn
<1> QED
  BY <1>1, <1>2

LEMMA NextIsCore == Inv /\ UnbornInv /\ Next => CoreStep
<1>1. EngineTypeOK /\ UnbornInv /\ Next => CoreStep
  BY CancelIsFlag
  DEF Next, CoreStep, Tick, ClientSubmit, ClientCancel, ClientCancelEnd, FirstSubmit, UnbornInv
<1> QED
  BY <1>1 DEF Inv, TypeInv

LEMMA NextUnborn == Inv /\ UnbornInv /\ [Next]_vars => UnbornInv'
<1> SUFFICES ASSUME Inv, UnbornInv, [Next]_vars PROVE UnbornInv'
  OBVIOUS
<1>1. CASE Tick \/ TickStep \/ \E r \in Request : ClientSubmit(r)
  BY <1>1, CoreUnborn DEF Tick, ClientSubmit, FirstSubmit, UnbornInv
<1>2. ASSUME NEW r \in Request, ClientCancel(r) \/ ClientCancelEnd(r) PROVE UnbornInv'
  BY <1>2 DEF ClientCancel, ClientCancelEnd, SetCancelled, SetFinished, schedulerVars, UnbornInv,
              Unborn, Inv, TypeInv, EngineTypeOK
<1>3. CASE UNCHANGED vars
  BY <1>3 DEF vars, engineVars, requestVars, schedulerVars, UnbornInv, Unborn
<1> QED
  BY <1>1, <1>2, <1>3 DEF Next

----------------------------------------------------------------------------
(***************************************************************************)
(* How requests end.                                                       *)
(***************************************************************************)

\* The generation is as long as it can get.
AtEnd(r) ==
    \/ Len(gen[r]) = MaxNew[r]
    \/ r \in StopsAtEos /\ gen[r] # <<>> /\ gen[r][Len(gen[r])] = Eos

\* A finished request was cancelled or is at its end.  While it is still in the scheduler,
\* and not in the cohort that has just been sampled, it was cancelled.
EndsOf(r) ==
    /\ finished[r] => cancelled[r] \/ AtEnd(r)
    /\ InScheduler(r) /\ r \notin cohort /\ finished[r] => cancelled[r]

EndsInv == \A r \in Request : EndsOf(r)

LEMMA InitEnds == Init => EndsInv
BY DEF Init, EngineInit, EndsInv, EndsOf

\* The flags and the generation of a member of a cohort that is sampled.
LEMMA SampleEnds ==
    ASSUME Inv, EndsInv, BoundInv', NEW S \in SUBSET active, cohort = {},
           NEW token \in [S -> Token], Sample(S, token), NEW q \in Request
    PROVE  /\ finished'[q] => cancelled'[q] \/ AtEnd(q)'
           /\ q \notin S => (finished'[q] <=> finished[q]) /\ gen'[q] = gen[q]
<1>0. /\ gen \in [Request -> Seq(Token)] /\ finished \in [Request -> BOOLEAN]
      /\ SchedulerTypeOK /\ cancelled' = cancelled
      /\ EndsOf(q) /\ BoundsOf(q)' /\ MaxNew[q] \in Nat
  BY DEF Inv, TypeInv, EngineTypeOK, EndsInv, BoundInv, Sample
<1>1. finished'[q] <=> (finished[q] \/ (q \in S /\ EndsWith(q, token[q])))
  BY Zenon DEF Sample
<1>2. CASE q \notin S
  <2>1. gen'[q] = gen[q]
    BY <1>2 DEF Sample
  <2> QED
    BY <1>0, <1>1, <1>2, <2>1 DEF EndsOf, AtEnd
<1>3. CASE q \in S
  <2>1. InScheduler(q) /\ q \notin cohort
    BY <1>3 DEF InScheduler, Decoding
  <2>a. gen'[q] = Append(gen[q], token[q]) /\ token[q] \in Token /\ gen[q] \in Seq(Token)
    BY <1>0, <1>3 DEF Sample
  <2>2. /\ Len(gen'[q]) = Len(gen[q]) + 1 /\ Len(gen[q]) \in Nat
        /\ gen'[q][Len(gen[q]) + 1] = token[q] /\ gen'[q] # <<>>
    <3>1. ASSUME NEW s \in Seq(Token), NEW t \in Token
          PROVE  /\ Len(Append(s, t)) = Len(s) + 1 /\ Len(s) \in Nat
                 /\ Append(s, t)[Len(s) + 1] = t /\ Append(s, t) # <<>>
      <4>1. Len(Append(s, t)) = Len(s) + 1 /\ Len(s) \in Nat /\ Append(s, t)[Len(s) + 1] = t
        OBVIOUS
      <4>2. Append(s, t) # <<>>
        BY Extend, ZenonT(60)
      <4> QED
        BY <4>1, <4>2
    <3> QED
      BY <2>a, <3>1
  <2>3. EndsWith(q, token[q]) => AtEnd(q)'
    BY <1>0, <2>2 DEF EndsWith, AtEnd, BoundsOf
  <2> QED
    BY <1>0, <1>1, <1>3, <2>1, <2>3 DEF EndsOf
<1> QED
  BY <1>2, <1>3

LEMMA EndsStep == Inv /\ EndsInv /\ CoreStep => EndsInv'
<1> SUFFICES ASSUME Inv, EndsInv, CoreStep, NEW q \in Request PROVE EndsOf(q)'
  BY DEF EndsInv
<1>0. /\ Phases /\ SchedulerTypeOK /\ EngineTypeOK /\ Places /\ Placed(q) /\ BoundsOf(q)
      /\ EndsOf(q) /\ Inv' /\ BoundInv' /\ MaxNew[q] \in Nat
  BY CoreInv DEF Inv, TypeInv, Places, BoundInv, EndsInv
\* Nothing happens to the request, or it is not there any more.
<1>a. ASSUME finished'[q] <=> finished[q], cancelled'[q] <=> cancelled[q], gen'[q] = gen[q],
             InScheduler(q)' /\ q \notin cohort' => InScheduler(q) /\ q \notin cohort
      PROVE  EndsOf(q)'
  BY <1>0, <1>a DEF EndsOf, AtEnd
\* It is retired.
<1>b. ASSUME NEW gone, Retire(gone), q \in gone => Done(q) /\ ~InScheduler(q)',
             InScheduler(q)' /\ q \notin cohort' /\ finished[q] => cancelled[q]
      PROVE  EndsOf(q)'
  <2>1. gen' = gen /\ cancelled' = cancelled /\ (finished'[q] <=> (finished[q] \/ q \in gone))
    BY <1>b, Zenon DEF Retire
  <2>2. RemainingDecode(q) <= 0 => AtEnd(q)
    BY <1>0 DEF RemainingDecode, BoundsOf, AtEnd, EngineTypeOK
  <2>3. AtEnd(q) => AtEnd(q)'
    BY <2>1 DEF AtEnd
  <2> QED
    BY <1>0, <1>b, <2>1, <2>2, <2>3 DEF EndsOf, Done
<1>1. CASE DecodeScan
  <2>1. Retire({r \in decodeQueue : Done(r)}) /\ active' = {r \in decodeQueue : ~Done(r)}
        /\ UNCHANGED <<cohort, nextDecode>> /\ tick = "idle" /\ tick' = "cohorts"
    BY <1>1 DEF DecodeScan
  <2>2. Prefilling(q)' <=> Prefilling(q)
    BY <1>1, DecodeMoves DEF DecodeSide
  <2>3. q \in decodeQueue /\ Done(q) => Done(q) /\ ~InScheduler(q)'
    BY <1>0, <2>1, <2>2 DEF InScheduler, Decoding, Placed, Phases
  <2>4. InScheduler(q)' /\ q \notin cohort' /\ finished[q] => cancelled[q]
    BY <1>0, <2>1, <2>2 DEF InScheduler, Decoding, Phases, Done, EndsOf
  <2> QED
    BY <1>b, <2>1, <2>3, <2>4
<1>2. ASSUME NEW r \in Request, AdvanceGroup(r) PROVE EndsOf(q)'
  <2>1. PICK token \in [Cohort(r) -> Token] : Sample(Cohort(r), token)
    BY <1>2 DEF AdvanceGroup, DecodeGroupBatched
  <2>2. cohort = {} /\ Cohort(r) \subseteq active /\ cohort' = Cohort(r)
    BY <1>0, <1>2 DEF AdvanceGroup, Cohort, Phases
  <2>3. /\ finished'[q] => cancelled'[q] \/ AtEnd(q)'
        /\ q \notin Cohort(r) => (finished'[q] <=> finished[q])
    BY <1>0, <2>1, <2>2, SampleEnds
  <2>4. InScheduler(q)' => InScheduler(q)
    BY <1>2, DecodeMoves DEF DecodeSide, InScheduler
  <2> QED
    BY <1>0, <2>1, <2>2, <2>3, <2>4 DEF EndsOf, Sample
<1>3. ASSUME NEW r \in Request, AdvanceAlone(r) PROVE EndsOf(q)'
  <2>0. InScheduler(q)' => InScheduler(q)
    BY <1>3, DecodeMoves DEF DecodeSide, InScheduler
  <2>1. cohort = {} /\ {r} \subseteq active /\ cohort' = {r}
    BY <1>0, <1>3 DEF AdvanceAlone, Phases
  <2>2. CASE finished[r]
    BY <1>0, <1>a, <1>3, <2>0, <2>1, <2>2 DEF AdvanceAlone, engineVars, requestVars
  <2>3. CASE ~finished[r]
    <3>1. PICK token \in [{r} -> Token] : Sample({r}, token)
      BY <1>3, <2>3 DEF AdvanceAlone, DecodeSample
    <3>2. /\ finished'[q] => cancelled'[q] \/ AtEnd(q)'
          /\ q \notin {r} => (finished'[q] <=> finished[q])
      BY <1>0, <2>1, <3>1, SampleEnds
    <3> QED
      BY <1>0, <2>0, <2>1, <3>1, <3>2 DEF EndsOf, Sample
  <2> QED
    BY <2>2, <2>3
<1>4. CASE Feed
  <2>1. UNCHANGED <<finished, cancelled, gen, cohort>>
    BY <1>4 DEF Feed, DecodeForward, queueVars
  <2>2. InScheduler(q)' => InScheduler(q)
    BY <1>4, DecodeMoves DEF DecodeSide, InScheduler
  <2> QED
    BY <1>a, <2>1, <2>2
<1>5. CASE Settle
  <2>1. Retire({r \in cohort : Done(r)}) /\ UNCHANGED active /\ cohort' = {}
        /\ nextDecode' = nextDecode \cup GoOn /\ tick' = "cohorts"
    BY <1>5 DEF Settle
  <2>2. Prefilling(q)' <=> Prefilling(q)
    BY <1>5, DecodeMoves DEF DecodeSide
  <2>3. q \in cohort /\ Done(q) => Done(q) /\ ~InScheduler(q)'
    BY <1>0, <2>1, <2>2 DEF InScheduler, Decoding, Placed, Places, GoOn
  <2>4. InScheduler(q)' /\ q \notin cohort' /\ finished[q] => cancelled[q]
    BY <1>0, <2>1, <2>2 DEF InScheduler, Decoding, GoOn, Done, EndsOf, Placed, Places
  <2> QED
    BY <1>b, <2>1, <2>3, <2>4
<1>6. CASE DecodeEnd
  <2>1. UNCHANGED <<finished, cancelled, gen>> /\ cohort = {}
    BY <1>0, <1>6 DEF DecodeEnd, engineVars, requestVars, Phases
  <2>2. InScheduler(q)' => InScheduler(q)
    BY <1>6, DecodeMoves DEF DecodeSide, InScheduler
  <2> QED
    BY <1>a, <2>1, <2>2
<1>7. CASE PrefillPop
  <2>1. InScheduler(q)' => InScheduler(q)
    BY <1>7, PopMoves DEF QueueSide, InScheduler
  <2>2. cohort = {} /\ cohort' = {}
    BY <1>0, <1>7 DEF PrefillPop, Phases
  <2>3. CASE cancelled[Head(prefillQueue)]
    <3>1. Retire({Head(prefillQueue)}) /\ UNCHANGED chunking
      BY <1>7, <2>3 DEF PrefillPop
    <3>2. /\ prefillQueue' = Tail(prefillQueue)
          /\ Distinct(prefillQueue) => ~InSeq(Head(prefillQueue), Tail(prefillQueue))
          /\ InSeq(Head(prefillQueue), prefillQueue)
      BY <1>0, <1>7, TailFacts DEF PrefillPop, SchedulerTypeOK
    <3>3. q = Head(prefillQueue) => Done(q) /\ ~InScheduler(q)'
      BY <1>0, <1>7, <2>3, <3>1, <3>2
      DEF Done, InScheduler, Prefilling, Decoding, Placed, Places, PrefillPop
    <3> QED
      BY <1>0, <1>b, <2>1, <2>2, <3>1, <3>3 DEF EndsOf
  <2>4. CASE ~cancelled[Head(prefillQueue)]
    BY <1>a, <1>7, <2>1, <2>2, <2>4 DEF PrefillPop, engineVars, requestVars
  <2> QED
    BY <2>3, <2>4
<1>8. CASE PrefillRun
  <2>1. UNCHANGED <<finished, cancelled, gen>> /\ cohort = {} /\ tick = "chunk"
    BY <1>0, <1>8 DEF PrefillRun, PrefillAndCommit, Phases
  <2>2. InScheduler(q)' => InScheduler(q)
    BY <1>0, <1>8, <2>1, RunMoves DEF InScheduler, Prefilling
  <2> QED
    BY <1>a, <2>1, <2>2
<1>9. CASE PrefillEnd
  <2>1. UNCHANGED <<finished, cancelled, gen, cohort>>
    BY <1>9 DEF PrefillEnd, engineVars, requestVars
  <2>2. InScheduler(q)' => InScheduler(q)
    BY <1>9, PopMoves DEF QueueSide, InScheduler
  <2> QED
    BY <1>a, <2>1, <2>2
<1>10. ASSUME NEW r \in Request, FirstSubmit(r) PROVE EndsOf(q)'
  <2>1. UNCHANGED <<finished, cancelled, gen, cohort>> /\ cohort = {} /\ ~finished[r]
    BY <1>0, <1>10 DEF FirstSubmit, Submit, NewRequest, Unborn, Phases
  <2>2. q # r => (InScheduler(q)' => InScheduler(q))
    BY <1>10, SubmitMoves DEF InScheduler
  <2> QED
    BY <1>0, <2>1, <2>2 DEF EndsOf, AtEnd
<1>11. CASE Flag
  <2>1. /\ UNCHANGED <<gen, cohort>>
        /\ (cancelled[q] => cancelled'[q]) /\ (finished'[q] => finished[q] \/ cancelled'[q])
    BY <1>11 DEF Flag, schedulerVars, queueVars
  <2>2. InScheduler(q)' => InScheduler(q)
    BY <1>11, DecodeMoves DEF DecodeSide, InScheduler
  <2> QED
    BY <1>0, <2>1, <2>2 DEF EndsOf, AtEnd
<1> QED
  BY <1>1, <1>2, <1>3, <1>4, <1>5, <1>6, <1>7, <1>8, <1>9, <1>10, <1>11 DEF CoreStep, TickStep

----------------------------------------------------------------------------
(***************************************************************************)
(* What the owners of a scheduler do beside it.                            *)
(***************************************************************************)

\* Other weights, with the prefix cache as it was or cleared.
LEMMA WeightsInv ==
    ASSUME Inv, EndsInv, UNCHANGED <<requestVars, schedulerVars>>, weights' \in Nat,
           prefixCache' = prefixCache \/ prefixCache' = <<>>
    PROVE  Inv' /\ EndsInv'
<1>1. /\ UNCHANGED <<prefilled, kv, versions, logits, gen, finished, cancelled>>
      /\ UNCHANGED <<tick, prefillQueue, stillPrefilling, chunking, decodeQueue>>
      /\ UNCHANGED <<active, cohort, nextDecode, submitted, retired>>
  BY DEF requestVars, schedulerVars, queueVars
<1>2. prefixCache' \in Seq(PrefixEntry) /\ PrefixCacheExact'
  <2>1. CASE prefixCache' = prefixCache
    BY <2>1 DEF Inv, TypeInv, EngineTypeOK, PrefixCacheExact
  <2>2. CASE prefixCache' = <<>>
    <3>1. <<>> \in Seq(PrefixEntry) /\ Len(<<>>) = 0 /\ DOMAIN <<>> = {}
      OBVIOUS
    <3> QED
      BY <2>2, <3>1 DEF PrefixCacheExact
  <2> QED
    BY <2>1, <2>2
<1>3. TypeInv' /\ Phases'
  BY <1>1, <1>2 DEF Inv, TypeInv, EngineTypeOK, SchedulerTypeOK, Phases
<1>4. \A r \in Request : (Prefilling(r)' <=> Prefilling(r)) /\ (Decoding(r)' <=> Decoding(r))
  BY <1>1 DEF Prefilling, Decoding
<1>5. Places'
  BY <1>1, <1>4 DEF Inv, Places, Placed
<1>6. KVInv'
  BY <1>1, <1>4 DEF Inv, KVInv, KVOf, Whole, InCohort, Short
<1>7. BoundInv'
  BY <1>1, <1>4 DEF Inv, BoundInv, BoundsOf, Admissible, Open
<1>8. EndsInv'
  BY <1>1, <1>4 DEF EndsInv, EndsOf, InScheduler, AtEnd
<1> QED
  BY <1>2, <1>3, <1>5, <1>6, <1>7, <1>8 DEF Inv

\* Between two ticks a scheduler without work holds no request.
LEMMA IdleEmpty ==
    ASSUME Inv, tick = "idle", ~HasWork, NEW r \in Request
    PROVE  ~InScheduler(r)
BY EmptyFacts DEF HasWork, InScheduler, Prefilling, Decoding, Inv, Phases

----------------------------------------------------------------------------
(***************************************************************************)
(* What the invariant says.                                                *)
(***************************************************************************)

LEMMA InvKVExact == Inv => KVExact
<1> SUFFICES ASSUME Inv, NEW r \in Request
             PROVE  /\ Prefilling(r) => kv[r] = SubSeq(Prompt[r], 1, prefilled[r])
                    /\ Decoding(r) =>
                         \/ kv[r] = Prompt[r] \o gen[r]
                         \/ /\ finished[r] \/ (tick = "feed" /\ r \in cohort)
                            /\ gen[r] # <<>>
                            /\ kv[r] = Prompt[r] \o SubSeq(gen[r], 1, Len(gen[r]) - 1)
  BY DEF KVExact
<1>1. KVOf(r)
  BY DEF Inv, KVInv
<1> QED
  BY <1>1 DEF KVOf, Whole, InCohort, Short

LEMMA InvDecodeReady == Inv => DecodeReady
<1> SUFFICES ASSUME Inv, NEW r \in Request, Decoding(r)
             PROVE  RemainingPrefill(r) = 0 /\ logits[r] = Len(kv[r])
  BY DEF DecodeReady
<1>1. KVOf(r)
  BY DEF Inv, KVInv
<1> QED
  BY <1>1, WholePrompt DEF KVOf, RemainingPrefill

LEMMA InvContext == Inv => ContextRespected
<1> SUFFICES ASSUME Inv, NEW r \in Request PROVE Len(kv[r]) <= ContextLength
  BY DEF ContextRespected
<1>1. KVOf(r) /\ BoundsOf(r)
  BY DEF Inv, KVInv, BoundInv
<1>2. /\ kv[r] \in Seq(Token) /\ Len(kv[r]) \in Nat /\ Len(gen[r]) \in Nat
      /\ Len(Prompt[r]) \in Nat /\ MaxNew[r] \in Nat
  BY WholePrompt DEF Inv, TypeInv, EngineTypeOK
<1>3. CASE r \in submitted
  BY <1>1, <1>2, <1>3 DEF BoundsOf, Admissible
<1>4. CASE r \notin submitted
  BY <1>1, <1>4 DEF KVOf
<1> QED
  BY <1>3, <1>4

LEMMA InvBounded == Inv => GenerationBounded
BY DEF Inv, BoundInv, BoundsOf, GenerationBounded

\* At most one position of a sequence holds a request that occurs once.
LEMMA CountDistinct ==
    ASSUME NEW s \in Seq(Request), Distinct(s), NEW r \in Request
    PROVE  Cardinality({i \in DOMAIN s : s[i] = r}) = IF InSeq(r, s) THEN 1 ELSE 0
<1>1. CASE InSeq(r, s)
  <2>1. PICK i \in DOMAIN s : s[i] = r
    BY <1>1 DEF InSeq
  <2>2. {j \in DOMAIN s : s[j] = r} = {i}
    BY <2>1 DEF Distinct
  <2> QED
    BY <1>1, <2>2, FS_Singleton
<1>2. CASE ~InSeq(r, s)
  <2>1. {j \in DOMAIN s : s[j] = r} = {}
    BY <1>2 DEF InSeq
  <2> QED
    BY <1>2, <2>1, FS_EmptySet
<1> QED
  BY <1>1, <1>2

LEMMA InvOnePlace == Inv => OnePlace
<1> SUFFICES ASSUME Inv, NEW r \in Request
             PROVE  /\ retired[r] <= 1
                    /\ retired[r] = 1 => ~Prefilling(r) /\ ~Decoding(r)
                    /\ ~(Prefilling(r) /\ Decoding(r))
                    /\ Cardinality({i \in DOMAIN prefillQueue : prefillQueue[i] = r})
                         + Cardinality({i \in DOMAIN stillPrefilling : stillPrefilling[i] = r})
                         + (IF chunking = r THEN 1 ELSE 0) <= 1
  BY DEF OnePlace
<1>1. Placed(r) /\ Distinct(prefillQueue) /\ Distinct(stillPrefilling)
  BY DEF Inv, Places
<1>2. prefillQueue \in Seq(Request) /\ stillPrefilling \in Seq(Request)
  BY DEF Inv, TypeInv, SchedulerTypeOK
<1>3. /\ Cardinality({i \in DOMAIN prefillQueue : prefillQueue[i] = r})
           = IF InSeq(r, prefillQueue) THEN 1 ELSE 0
      /\ Cardinality({i \in DOMAIN stillPrefilling : stillPrefilling[i] = r})
           = IF InSeq(r, stillPrefilling) THEN 1 ELSE 0
  BY <1>1, <1>2, CountDistinct
<1>4. Cardinality({i \in DOMAIN prefillQueue : prefillQueue[i] = r})
        + Cardinality({i \in DOMAIN stillPrefilling : stillPrefilling[i] = r})
        + (IF chunking = r THEN 1 ELSE 0) <= 1
  BY <1>1, <1>3 DEF Placed
<1> QED
  BY <1>1, <1>4 DEF Placed

\* A cancelled request loses its place in the step that still gives it something.
LEMMA CancelStep ==
    ASSUME Inv, CoreStep, NEW r \in Request, cancelled[r]
    PROVE  /\ r \in active' => r \in active
           /\ gen'[r] # gen[r] => r \in active /\ r \notin active'
           /\ chunking' = r => chunking = r
           /\ prefilled'[r] # prefilled[r] => chunking = r /\ chunking' # r
<1>0. SchedulerTypeOK /\ gen \in [Request -> Seq(Token)] /\ Phases
  BY DEF Inv, TypeInv, EngineTypeOK
<1>1. CASE DecodeScan
  BY <1>1 DEF DecodeScan, Retire, Done
<1>2. ASSUME NEW lead \in Request, AdvanceGroup(lead)
      PROVE  /\ r \in active' => r \in active
             /\ gen'[r] # gen[r] => r \in active /\ r \notin active'
             /\ UNCHANGED <<chunking, prefilled>>
  <2>1. /\ Cohort(lead) \subseteq active /\ active' = active \ Cohort(lead)
        /\ chunking' = chunking
    BY <1>2 DEF AdvanceGroup, Cohort
  <2>2. PICK token \in [Cohort(lead) -> Token] : Sample(Cohort(lead), token)
    BY <1>2 DEF AdvanceGroup, DecodeGroupBatched
  <2> QED
    BY <2>1, <2>2 DEF Sample
<1>3. ASSUME NEW lead \in Request, AdvanceAlone(lead)
      PROVE  /\ r \in active' => r \in active
             /\ gen'[r] # gen[r] => r \in active /\ r \notin active'
             /\ UNCHANGED <<chunking, prefilled>>
  <2>1. lead \in active /\ active' = active \ {lead} /\ chunking' = chunking
    BY <1>3 DEF AdvanceAlone
  <2>2. CASE finished[lead]
    BY <1>3, <2>1, <2>2 DEF AdvanceAlone, engineVars, requestVars
  <2>3. CASE ~finished[lead]
    <3>1. PICK token \in [{lead} -> Token] : Sample({lead}, token)
      BY <1>3, <2>3 DEF AdvanceAlone, DecodeSample
    <3> QED
      BY <2>1, <3>1 DEF Sample
  <2> QED
    BY <2>2, <2>3
<1>4. CASE Feed \/ Settle \/ DecodeEnd
  BY <1>4 DEF Feed, DecodeForward, Settle, Retire, DecodeEnd, queueVars, engineVars, requestVars
<1>5. CASE PrefillPop
  BY <1>0, <1>5 DEF PrefillPop, Retire, engineVars, requestVars
<1>6. CASE PrefillRun
  <2>1. tick = "chunk" /\ PrefillAndCommit(chunking) /\ chunking' = NoRequest /\ active' = active
    BY <1>6 DEF PrefillRun
  <2>2. /\ \A q \in Request \ {chunking} : prefilled'[q] = prefilled[q]
        /\ UNCHANGED gen
    BY <2>1, ChunkRun
  <2> QED
    BY <2>1, <2>2
<1>7. CASE PrefillEnd
  BY <1>7 DEF PrefillEnd, engineVars, requestVars
<1>8. ASSUME NEW q \in Request, FirstSubmit(q)
      PROVE  UNCHANGED <<active, gen, chunking>> /\ prefilled'[r] = prefilled[r]
  <2>1. /\ NewRequest(q) /\ q \notin submitted /\ UNCHANGED <<active, chunking>>
    BY <1>8 DEF FirstSubmit, Submit
  <2>2. r # q
    BY <1>8 DEF FirstSubmit, Unborn
  <2> QED
    BY <2>1, <2>2, WarmStart
<1>9. ASSUME Flag
      PROVE  UNCHANGED <<active, gen, chunking, prefilled>>
  BY <1>9 DEF Flag, schedulerVars, queueVars
<1> QED
  BY <1>0, <1>1, <1>2, <1>3, <1>4, <1>5, <1>6, <1>7, <1>8, <1>9 DEF CoreStep, TickStep

----------------------------------------------------------------------------

THEOREM SchedulerInvariant == Spec => []Inv
<1>1. Init => Inv /\ UnbornInv
  BY InitInv, InitUnborn
<1>2. Inv /\ UnbornInv /\ [Next]_vars => Inv' /\ UnbornInv'
  BY NextIsCore, CoreInv, StutterInv, NextUnborn
<1> QED
  BY <1>1, <1>2, PTL DEF Spec

LEMMA SchedulerUnborn == Spec => []UnbornInv
<1>1. Init => UnbornInv
  BY InitUnborn
<1>2. Inv /\ UnbornInv /\ [Next]_vars => UnbornInv'
  BY NextUnborn
<1> QED
  BY <1>1, <1>2, SchedulerInvariant, PTL DEF Spec

\* The type invariant of the requests, the cache and the queues.
THEOREM SchedulerTypeCorrect == Spec => [](EngineTypeOK /\ SchedulerTypeOK)
<1>1. Inv => EngineTypeOK /\ SchedulerTypeOK
  BY DEF Inv, TypeInv
<1> QED
  BY <1>1, SchedulerInvariant, PTL

\* Whatever mixes of chunks, warm starts, cohorts and cancels: no token is fed to the
\* model twice, skipped, or fed out of order (engine.py, prefill_chunk and decode_step;
\* batched.py).
THEOREM NothingFedTwice == Spec => []KVExact
BY InvKVExact, SchedulerInvariant, PTL

\* decode_step never finds logits missing or stale (engine.py, decode_step).
THEOREM LogitsCurrent == Spec => []DecodeReady
BY InvDecodeReady, SchedulerInvariant, PTL

\* The check of new_request keeps every KV cache within context_length (engine.py,
\* new_request).
THEOREM AdmissionSuffices == Spec => []ContextRespected
BY InvContext, SchedulerInvariant, PTL

\* No cohort takes a member past its budget or past end-of-sequence (batched.py).
THEOREM BudgetsKept == Spec => []GenerationBounded
BY InvBounded, SchedulerInvariant, PTL

\* Both limits of a request hold together, for every interleaving of ticks, submissions and
\* cancellations (engine.py, new_request; batched.py).
THEOREM LimitsAlwaysKept == Spec => []LimitsKept
BY AdmissionSuffices, BudgetsKept, PTL DEF LimitsKept

\* A request is in one queue or set at a time and retires at most once (scheduler.py).
THEOREM OnePlaceAtATime == Spec => []OnePlace
BY InvOnePlace, SchedulerInvariant, PTL

\* A cached prefix holds its own tokens, and the cache its capacity
\* (engine.py, commit_prefix_cache; prefix_cache.py).
THEOREM CachedPrefixesExact == Spec => []PrefixCacheExact
<1>1. Inv => PrefixCacheExact
  BY DEF Inv
<1> QED
  BY <1>1, SchedulerInvariant, PTL

\* A cancelled request gets at most the chunk or token under way (scheduler.py).
THEOREM CancelTakesEffect == Spec => CancelStops
<1> DEFINE Step == \A r \in Request : cancelled[r] =>
                     /\ r \in active' => r \in active
                     /\ gen'[r] # gen[r] => r \in active /\ r \notin active'
                     /\ chunking' = r => chunking = r
                     /\ prefilled'[r] # prefilled[r] => chunking = r /\ chunking' # r
<1>1. Inv /\ UnbornInv /\ [Next]_vars => [Step]_vars
  BY NextIsCore, CancelStep
<1> QED
  BY <1>1, SchedulerInvariant, SchedulerUnborn, PTL DEF Spec, CancelStops

=============================================================================
