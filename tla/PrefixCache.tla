---------------------------- MODULE PrefixCache ----------------------------
(***************************************************************************)
(* The hash-keyed prompt prefix cache (inference/prefix_cache.py) as pure  *)
(* operators on its value: a sequence of entries in the order of the       *)
(* OrderedDict, least recently used first.  The key is the prefix itself:  *)
(* the SHA-256 digest of the code is taken as collision free, and the      *)
(* config, tokenizer and runtime fields are the same for every request of  *)
(* one engine.  The hit and miss counters are left out.                    *)
(***************************************************************************)
EXTENDS Naturals, Sequences

CONSTANT PrefixCapacity     \* PrefixCache(capacity=...); 0 stands for an
                            \* engine built with prefix_cache=None

ASSUME PrefixCapacityAssumption == PrefixCapacity \in Nat

\* The prefixes that have an entry.
Keys(cache) == {cache[i].prefix : i \in DOMAIN cache}

IndexOf(cache, prefix) == CHOOSE i \in DOMAIN cache : cache[i].prefix = prefix

Lookup(cache, prefix) == cache[IndexOf(cache, prefix)]

Without(cache, prefix) ==
    IF prefix \in Keys(cache)
    THEN LET i == IndexOf(cache, prefix)
         IN  SubSeq(cache, 1, i - 1) \o SubSeq(cache, i + 1, Len(cache))
    ELSE cache

\* get() of a present key: the entry moves to the recent end.
Touch(cache, prefix) == Append(Without(cache, prefix), Lookup(cache, prefix))

\* Mutant of Put: the loop that evicts is missing.
PutNeverEvicts(cache, entry) == Append(Without(cache, entry.prefix), entry)

\* put(): the entry becomes the most recent, then the oldest ones go while the
\* cache is over its capacity.
Put(cache, entry) ==
    LET full == Append(Without(cache, entry.prefix), entry)
    IN  IF Len(full) > PrefixCapacity
        THEN SubSeq(full, Len(full) - PrefixCapacity + 1, Len(full))
        ELSE full

\* The lengths of the stored prefixes of a prompt.
HitLengths(cache, prompt) ==
    {n \in 1 .. Len(prompt) : SubSeq(prompt, 1, n) \in Keys(cache)}

\* The entry the warm-up loop finds: it tries the whole prompt first, then ever
\* shorter prefixes, and stops at the first hit.
LongestHit(cache, prompt) ==
    Lookup(cache, SubSeq(prompt, 1,
        CHOOSE n \in HitLengths(cache, prompt) :
            \A m \in HitLengths(cache, prompt) : m <= n))

============================================================================
