----------------------------- MODULE Attention -----------------------------
(***************************************************************************)
(* What a token attends to: the attention layers of attention.py on the    *)
(* KV cache of cache.py, under the forwards the inference code makes of    *)
(* it: a prompt in chunks, one request alone, a cohort of one length, and  *)
(* a cohort of several lengths padded on the left (inference/batched.py).  *)
(*                                                                         *)
(* Numbers are left out.  A key is the token it was computed of and the    *)
(* position it was rotated by, a mean-pooled block is the sequence of the  *)
(* keys it averages, and the output of a layer is the set of the keys and  *)
(* blocks its mask lets through.  The scores of the CSA indexer are an     *)
(* order of the blocks, any order.  Positions count from 0, as in the code.*)
(***************************************************************************)
EXTENDS Integers, Sequences, FiniteSets, SequencesExt

CONSTANTS
    Rows,           \* the requests
    Kinds,          \* the kinds of layer: "sliding_mqa", "mla", "hca", "csa"
    Window,         \* config.sliding_window
    HcaBlock,       \* config.hca_block_size
    CsaBlock,       \* config.csa_block_size
    CsaStride,      \* config.csa_block_stride
    TopK,           \* config.csa_index_topk
    ContextLength   \* config.context_length

\* What BabyWhaleV4Config.validate() asks of them.
AttentionAssumption ==
    /\ Kinds \subseteq {"sliding_mqa", "mla", "hca", "csa"}
    /\ {Window, HcaBlock, CsaBlock, CsaStride, TopK, ContextLength} \subseteq Nat \ {0}
    /\ Window <= ContextLength
    /\ CsaStride <= CsaBlock

VARIABLES
    kind,           \* the layer
    order,          \* the blocks of the CSA layer by their first position, best score first
    text,           \* the tokens of each request
    cache,          \* its keys, or its latents, in this layer
    seen            \* what each of its tokens attended to

vars == <<kind, order, text, cache, seen>>

----------------------------------------------------------------------------
(* The masks.  keys is the key axis of one row, q the position of a query. *)

Key(token, position) == [token |-> token, at |-> position]
Pad == [token |-> "none", at |-> -1]

Positions(keys) == 0 .. Len(keys) - 1

KeysAt(keys, js) == {keys[j + 1] : j \in js}

Block(keys, start, size) == SubSeq(keys, start + 1, start + size)

\* causal & local, raw_allowed
Local(keys, q) == {j \in Positions(keys) : j <= q /\ j >= q - Window + 1}

\* comp_allowed, of a block that ends in front of position end
Allowed(end, q) == end <= q - Window + 1

\* _block_mean_pool: whole blocks side by side, what is left at the end is in none.
HcaStarts(keys) == {b * HcaBlock : b \in 0 .. Len(keys) \div HcaBlock - 1}

\* _overlap_mean_pool: a block every CsaStride positions.
CsaStarts(keys) == {s \in 0 .. Len(keys) - CsaBlock : s % CsaStride = 0}

Rank(s) == CHOOSE i \in DOMAIN order : order[i] = s

\* Mutant of Beats: the blocks that are not allowed keep their scores.
BeatsUnfloored(s, t, q) == Rank(s) < Rank(t)

\* A block that is not allowed scores -1e9.
Beats(s, t, q) ==
    LET floored(u) == ~Allowed(u + CsaBlock, q)
    IN  \/ ~floored(s) /\ floored(t)
        \/ (floored(s) <=> floored(t)) /\ Rank(s) < Rank(t)

\* top_indices: the TopK best of the blocks of this forward, or all of them.
TopBlocks(starts, q) == {s \in starts : Cardinality({t \in starts : Beats(t, s, q)}) < TopK}

HcaAllowed(keys, q) == {s \in HcaStarts(keys) : Allowed(s + HcaBlock, q)}

\* _attend: the raw keys and the pooled blocks the mask of a query lets through.
Attend(keys, q) ==
    [raw |-> KeysAt(keys, Local(keys, q)),
     pooled |->
        CASE kind = "hca" -> {Block(keys, s, HcaBlock) : s \in HcaAllowed(keys, q)}
          [] kind = "csa" -> {Block(keys, s, CsaBlock) :
                                s \in {t \in TopBlocks(CsaStarts(keys), q) :
                                         Allowed(t + CsaBlock, q)}}
          [] OTHER -> {}]

----------------------------------------------------------------------------
(* The forwards. *)

Length(r) == Len(cache[r])

NewTokens(r, n) == [i \in 1 .. n |-> <<r, Len(text[r]) + i - 1>>]

\* cache.append, append_latent: the new keys, rotated by their positions, go behind the old
\* ones.  (MLA keeps the latents and rotates all keys anew, by the same positions.)
Appended(keys, tokens, past) ==
    keys \o [i \in DOMAIN tokens |-> Key(tokens[i], past + i - 1)]

Init ==
    /\ kind \in Kinds
    /\ order \in SetToSeqs({s \in 0 .. ContextLength - CsaBlock : s % CsaStride = 0})
    /\ kind = "csa" \/ \A i \in 1 .. Len(order) - 1 : order[i] < order[i + 1]
    /\ text = [r \in Rows |-> <<>>]
    /\ cache = [r \in Rows |-> <<>>]
    /\ seen = [r \in Rows |-> <<>>]

\* model(chunk, cache=...): n new tokens of one request, a chunk of a prompt, a sampled
\* token or the result of a tool.
ForwardChunk(r, n) ==
    LET keys == Appended(cache[r], NewTokens(r, n), Length(r))
    IN  /\ Length(r) + n <= ContextLength
        /\ text' = [text EXCEPT ![r] = @ \o NewTokens(r, n)]
        /\ cache' = [cache EXCEPT ![r] = keys]
        /\ seen' = [seen EXCEPT ![r] =
                      @ \o [i \in 1 .. n |-> Attend(keys, Length(r) + i - 1)]]
        /\ UNCHANGED <<kind, order>>

\* Engine.fork, tile_cache: a request that starts as a copy of another.
Fork(r, s) ==
    /\ Length(r) > 0 /\ Length(s) = 0
    /\ text' = [text EXCEPT ![s] = text[r]]
    /\ cache' = [cache EXCEPT ![s] = cache[r]]
    /\ seen' = [seen EXCEPT ![s] = seen[r]]
    /\ UNCHANGED <<kind, order>>

\* One token more for each request of a cohort: keys[r] is its row of the key axis in the
\* batched forward, mask[r] what the new token attends to there.
CohortStep(cohort, keys, mask, kept) ==
    /\ text' = [r \in Rows |-> IF r \in cohort THEN text[r] \o NewTokens(r, 1) ELSE text[r]]
    /\ cache' = [r \in Rows |-> IF r \in cohort
                                THEN SubSeq(keys[r], Len(keys[r]) - kept[r] + 1, Len(keys[r]))
                                ELSE cache[r]]
    /\ seen' = [r \in Rows |-> IF r \in cohort THEN Append(seen[r], mask[r]) ELSE seen[r]]
    /\ UNCHANGED <<kind, order>>

\* decode_group_batched: the positions and the mask are those of one row, for all of them.
DecodeGroup(cohort) ==
    LET past == Length(CHOOSE r \in cohort : TRUE)
        keys == [r \in cohort |-> Appended(cache[r], NewTokens(r, 1), past)]
    IN  /\ \A r \in cohort : Length(r) = past
        /\ past < ContextLength
        /\ CohortStep(cohort, keys,
                      [r \in cohort |-> Attend(keys[r], past)],
                      [r \in cohort |-> past + 1])

\* _leftpad_stack_caches
LeftPadded(r, width) == [i \in 1 .. width - Length(r) |-> Pad] \o cache[r]

\* start: the first column of the key axis a row attends to.
RaggedStart(r, columns) == columns - IF Length(r) + 1 < Window THEN Length(r) + 1 ELSE Window

\* decode_ragged_batched: only for layers of the plain sliding window.
DecodeRagged(cohort) ==
    LET width == CHOOSE n \in {Length(r) : r \in cohort} : \A r \in cohort : Length(r) <= n
        keys == [r \in cohort |-> Appended(LeftPadded(r, width), NewTokens(r, 1), Length(r))]
    IN  /\ kind = "sliding_mqa"
        /\ \A r \in cohort : Length(r) > 0
        /\ width < ContextLength
        /\ CohortStep(cohort, keys,
                      [r \in cohort |->
                         [raw |-> KeysAt(keys[r], RaggedStart(r, width + 1) .. width),
                          pooled |-> {}]],
                      [r \in cohort |-> Length(r) + 1])

Cohorts == {c \in SUBSET Rows : Cardinality(c) > 1}

Next ==
    \/ \E r \in Rows, n \in 1 .. ContextLength : ForwardChunk(r, n)
    \/ \E r, s \in Rows : Fork(r, s)
    \/ \E cohort \in Cohorts : DecodeGroup(cohort)
    \/ \E cohort \in Cohorts : DecodeRagged(cohort)

Spec == Init /\ [][Next]_vars

----------------------------------------------------------------------------

\* However a request was fed to the model, in chunks, alone or in cohorts, padded or not,
\* forked or not, each of its tokens attended to exactly what it attends to in one forward
\* over the whole text, in which the blocks and the keys of the later tokens are there too
\* (attention.py, _attend of the four layers; batched.py, decode_group_batched and
\* decode_ragged_batched, whose docstrings promise the tokens of a per-request decode).
AttendsAsAlone ==
    \A r \in Rows :
        LET whole == Appended(<<>>, text[r], 0)
        IN  \A i \in DOMAIN seen[r] : seen[r][i] = Attend(whole, i - 1)

\* The compressed layers count no token twice and lose few: what a token sees in a pooled
\* block is behind its window, the blocks of HCA do not overlap, and the tokens HCA shows in
\* neither form are fewer than a block (attention.py, comp_allowed beside raw_allowed).
FarAndNear ==
    \A r \in Rows : \A i \in DOMAIN seen[r] :
        LET pooled == {Range(b) : b \in seen[r][i].pooled}
            far == UNION pooled
        IN  /\ far \cap seen[r][i].raw = {}
            /\ kind = "hca" =>
                 /\ \A b, c \in pooled : b = c \/ b \cap c = {}
                 /\ i - Cardinality(far \cup seen[r][i].raw) < HcaBlock

\* What a token attends to depends on its text alone, and splits it in far and near
\* (attention.py, batched.py, cache.py).
AttentionExact == AttendsAsAlone /\ FarAndNear
============================================================================
