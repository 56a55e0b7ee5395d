-------------------------------- MODULE Bpe --------------------------------
(***************************************************************************)
(* The byte-pair tokenizer of data/tokenizer.py: train_byte_bpe learns     *)
(* merges from documents, _bpe_encode applies them with a heap of adjacent *)
(* pairs over a doubly linked list, decode spells the tokens out again.    *)
(*                                                                         *)
(* Bytes are 0 .. Base - 1 and the token of the merge of rank r is         *)
(* Base + r, ranks from 0; the special tokens and the JSON file are left   *)
(* out.  Positions count from 1.                                           *)
(***************************************************************************)
EXTENDS Integers, Sequences, FiniteSets, SequencesExt

CONSTANTS
    Base,           \* the number of bytes (in the code 256, and 3 special tokens)
    MaxMerges,      \* vocab_size - Base
    MinPairCount,   \* min_pair_count
    MaxDoc,         \* bound on the length of the document trained on
    MaxText         \* bound on the length of the text encoded

BpeAssumption ==
    /\ Base \in Nat \ {0} /\ MaxMerges \in Nat /\ MinPairCount \in Nat \ {0, 1}
    /\ {MaxDoc, MaxText} \subseteq Nat

VARIABLES
    pc,             \* "train", "encode", "encoded"
    document,            \* the document, as merged so far
    merges,         \* the learned pairs, in their order
    text,           \* the bytes of the text
    tokens, prev, nxt, alive,
    heap            \* entries <<rank, position>>

vars == <<pc, document, merges, text, tokens, prev, nxt, alive, heap>>

Texts(max) == UNION {[1 .. n -> 0 .. Base - 1] : n \in 0 .. max}

Init ==
    /\ pc = "train" /\ document \in Texts(MaxDoc) \ {<<>>} /\ merges = <<>>
    /\ text = <<>> /\ tokens = <<>> /\ prev = <<>> /\ nxt = <<>> /\ alive = <<>> /\ heap = {}

----------------------------------------------------------------------------
(* Training. *)

Pairs(seq) == {<<seq[i], seq[i + 1]>> : i \in 1 .. Len(seq) - 1}

\* _pair_counts, overlaps included
Count(seq, pair) == Cardinality({i \in 1 .. Len(seq) - 1 : <<seq[i], seq[i + 1]>> = pair})

\* _merge_tokens: from the left, and what was just merged does not merge again.
MergeTokens(seq, pair, token) ==
    LET from[i \in 1 .. Len(seq) + 1] ==
          IF i > Len(seq) THEN <<>>
          ELSE IF i < Len(seq) /\ <<seq[i], seq[i + 1]>> = pair
               THEN <<token>> \o from[i + 2]
               ELSE <<seq[i]>> \o from[i + 1]
    IN  from[1]

Before(p, q) == p[1] < q[1] \/ (p[1] = q[1] /\ p[2] < q[2])

\* The most frequent pair, the smallest one of equals.
BestPair ==
    LET best == {p \in Pairs(document) :
                   \A q \in Pairs(document) : Count(document, q) <= Count(document, p)}
    IN  CHOOSE p \in best : \A q \in best : p = q \/ Before(p, q)

Trained ==
    \/ Len(merges) = MaxMerges
    \/ \A p \in Pairs(document) : Count(document, p) < MinPairCount

\* The while of train_byte_bpe.
Learn ==
    /\ pc = "train" /\ ~Trained
    /\ merges' = Append(merges, BestPair)
    /\ document' = MergeTokens(document, BestPair, Base + Len(merges))
    /\ UNCHANGED <<pc, text, tokens, prev, nxt, alive, heap>>

----------------------------------------------------------------------------
(* Encoding. *)

\* _merge_ranks
HasRank(left, right) == \E i \in DOMAIN merges : merges[i] = <<left, right>>
RankOf(left, right) == (CHOOSE i \in DOMAIN merges : merges[i] = <<left, right>>) - 1

\* The heap entry of the pair of a token and its right neighbour, if it has a rank.
Entry(position, left, right) ==
    IF HasRank(left, right) THEN {<<RankOf(left, right), position>>} ELSE {}

\* encode, up to the loop of _bpe_encode.
BeginEncode ==
    /\ pc = "train" /\ Trained
    /\ pc' = "encode"
    /\ text' \in Texts(MaxText)
    /\ tokens' = text'
    /\ prev' = [i \in DOMAIN text' |-> i - 1]
    /\ nxt' = [i \in DOMAIN text' |-> i + 1]
    /\ alive' = [i \in DOMAIN text' |-> TRUE]
    /\ heap' = UNION {Entry(i, text'[i], text'[i + 1]) : i \in 1 .. Len(text') - 1}
    /\ UNCHANGED <<document, merges>>

Least == CHOOSE e \in heap : \A f \in heap : e = f \/ Before(e, f)

\* The entry does not describe the pair at its position any more.
Stale(rank, i) ==
    \/ ~alive[i] \/ nxt[i] > Len(tokens)
    \/ ~alive[nxt[i]]
    \/ Entry(i, tokens[i], tokens[nxt[i]]) # {<<rank, i>>}

SkipStale ==
    /\ pc = "encode" /\ heap # {} /\ Stale(Least[1], Least[2])
    /\ heap' = heap \ {Least}
    /\ UNCHANGED <<pc, document, merges, text, tokens, prev, nxt, alive>>

\* Mutant of Exposed: the pair with the left neighbour is not looked up again.
ExposedRight(token, i, left, right) ==
    IF right <= Len(tokens) THEN Entry(i, token, tokens[right]) ELSE {}

\* The pairs a merge makes with the neighbours.
Exposed(token, i, left, right) ==
    (IF left >= 1 THEN Entry(left, tokens[left], token) ELSE {}) \cup
    (IF right <= Len(tokens) THEN Entry(i, token, tokens[right]) ELSE {})

MergePair ==
    /\ pc = "encode" /\ heap # {} /\ ~Stale(Least[1], Least[2])
    /\ LET i == Least[2]
           j == nxt[i]
           k == nxt[j]
           token == Base + Least[1]
       IN  /\ tokens' = [tokens EXCEPT ![i] = token]
           /\ alive' = [alive EXCEPT ![j] = FALSE]
           /\ nxt' = [nxt EXCEPT ![i] = k]
           /\ prev' = IF k <= Len(tokens) THEN [prev EXCEPT ![k] = i] ELSE prev
           /\ heap' = (heap \ {Least}) \cup Exposed(token, i, prev[i], k)
    /\ UNCHANGED <<pc, document, merges, text>>

EndEncode ==
    /\ pc = "encode" /\ heap = {}
    /\ pc' = "encoded"
    /\ UNCHANGED <<document, merges, text, tokens, prev, nxt, alive, heap>>

Next == Learn \/ BeginEncode \/ SkipStale \/ MergePair \/ EndEncode

Spec == Init /\ [][Next]_vars /\ WF_vars(Next)

----------------------------------------------------------------------------

\* What _bpe_encode returns.
Encoded ==
    LET living == {i \in DOMAIN tokens : alive[i]}
    IN  [n \in 1 .. Cardinality(living) |->
           tokens[CHOOSE i \in living : Cardinality({j \in living : j <= i}) = n]]

\* _build_bpe_token_bytes, as a function of the tokens there are.
TokenBytes ==
    LET bytes[t \in 0 .. Base + Len(merges) - 1] ==
          IF t < Base THEN <<t>>
          ELSE bytes[merges[t - Base + 1][1]] \o bytes[merges[t - Base + 1][2]]
    IN  bytes

\* decode
Decoded(ids) == FlattenSeq([i \in DOMAIN ids |-> TokenBytes[ids[i]]])

\* The learned merges applied to a text one after the other, in the order of the training.
Applied(seq) ==
    LET after[n \in 0 .. Len(merges)] ==
          IF n = 0 THEN seq ELSE MergeTokens(after[n - 1], merges[n], Base + n - 1)
    IN  after[Len(merges)]

\* "Output is identical to applying the learned merges in training order": the heap, with its
\* stale entries and its linked list, comes to the same tokens as the rescans it replaced, for
\* every text, runs of one byte and overlapping pairs included (tokenizer.py:250-256).
EncodesAsTrained == pc = "encoded" => Encoded = Applied(text)

\* Nothing is lost on the way: at every step of the heap the living tokens spell the text, and
\* the list of the neighbours is theirs (tokenizer.py, _bpe_encode and decode).
SpellsText ==
    pc # "train" =>
        /\ Decoded(Encoded) = text
        /\ \A i \in DOMAIN tokens : alive[i] =>
             /\ nxt[i] <= Len(tokens) => alive[nxt[i]] /\ prev[nxt[i]] = i
             /\ \A j \in DOMAIN tokens : i < j /\ j < nxt[i] => ~alive[j]

\* The tokenizer's encoder is exact (tokenizer.py:247-288): the result and what led to it.
EncodeExact == EncodesAsTrained /\ SpellsText

============================================================================
