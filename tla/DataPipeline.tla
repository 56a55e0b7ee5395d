---------------------------- MODULE DataPipeline ----------------------------
(***************************************************************************)
(* From documents to batches: the JSONL that data/hf_prepare.py leaves,    *)
(* the packed token file and its manifest (data/packing.py), the blocks of *)
(* data/dataset.py, the masked targets of data/chat.py, and iter_batches.  *)
(*                                                                         *)
(* A token is the tokenizer, the document and the position it has there,   *)
(* position 0 the <bos> in front and the last one the <eos> behind, so a   *)
(* token never has a double unless a document is packed twice.  The        *)
(* process may die between any two writes to the disk.                     *)
(***************************************************************************)
EXTENDS Integers, Sequences, FiniteSets, SequencesExt

CONSTANTS
    Tokenizers,
    Lengths,        \* tokens a document may have
    MaxRows,        \* documents, messages of a chat
    Blocks,         \* block_size
    BatchSize,
    MaxPacks        \* bound on the calls of save_packed_token_file

\* A tokenizer is named by the id in its file; the names the model gives to other tokens, and
\* to a file without a tokenizer, are not among those.
DataAssumption ==
    /\ Tokenizers \cap {"none", "pad", "user", "assistant"} = {}
    /\ Lengths \subseteq Nat \ {0} /\ MaxRows \in Nat /\ MaxPacks \in Nat
    /\ Blocks \subseteq Nat \ {0, 1} /\ BatchSize \in Nat \ {0}

VARIABLES
    pc,             \* "idle", "tokens", "manifest" (of a save), "epoch"
    rows,           \* the normalized JSONL: the lengths of its documents
    saving,         \* what the running save writes: tokens, tokenizer, block
    file,           \* the .npz: its tokens and whether it is whole
    manifest,       \* its manifest: tokenizer, block
    packs, torn,    \* saves begun; a save died after the last one that was finished
    user,           \* the tokenizer of the run that loads
    data,           \* the loaded rows, pairs of x and y
    order,          \* the row indices of this epoch
    trained         \* the pairs of a token and its target so far

vars == <<pc, rows, saving, file, manifest, packs, torn, user, data, order, trained>>

NoFile == [whole |-> FALSE, tokens |-> <<>>, tokenizer |-> "none"]
NoManifest == [tokenizer |-> "none", block |-> 0]
Masked == <<"none", 0, 0>>      \* -1 in the code
PadToken == <<"pad", 0, 0>>

Init ==
    /\ pc = "idle" /\ rows = <<>>
    /\ saving = [tokens |-> <<>>, tokenizer |-> "none", block |-> 0]
    /\ file = NoFile /\ manifest = NoManifest /\ packs = 0 /\ torn = FALSE
    /\ user = "none" /\ data = <<>> /\ order = <<>> /\ trained = <<>>

----------------------------------------------------------------------------
(* The files. *)

\* materialize_hf_source: the rows go into the file of the source one by one, and a row that
\* cannot be normalized, or a crash, leaves those before it there.
Materialize ==
    /\ pc = "idle"
    /\ \E n \in 0 .. MaxRows : rows' \in [1 .. n -> Lengths]
    /\ UNCHANGED <<pc, saving, file, manifest, packs, torn, user, data, order, trained>>

\* A document with <bos> and <eos>.
Bracketed(t, row, length) == [i \in 1 .. length + 2 |-> <<t, row, i - 1>>]

\* The stream of PackedDataset.
Flat(t) == FlattenSeq([row \in DOMAIN rows |-> Bracketed(t, row, rows[row])])

Usable(tokens, block) == (Len(tokens) - 1) \div block

\* _pack_jsonl up to the first write: pack_normalized_jsonl raises where there is no row or
\* not enough for one block.
Pack(t, block) ==
    /\ pc = "idle" /\ packs < MaxPacks
    /\ rows # <<>> /\ Usable(Flat(t), block) > 0
    /\ pc' = "tokens" /\ packs' = packs + 1
    /\ saving' = [tokens |-> SubSeq(Flat(t), 1, Usable(Flat(t), block) * block + 1),
                  tokenizer |-> t, block |-> block]
    /\ file' = NoFile
    /\ UNCHANGED <<rows, manifest, torn, user, data, order, trained>>

SaveTokens ==
    /\ pc = "tokens"
    /\ file' = [whole |-> TRUE, tokens |-> saving.tokens, tokenizer |-> saving.tokenizer]
    /\ pc' = "manifest"
    /\ UNCHANGED <<rows, saving, manifest, packs, torn, user, data, order, trained>>

SaveManifest ==
    /\ pc = "manifest"
    /\ manifest' = [tokenizer |-> saving.tokenizer, block |-> saving.block]
    /\ pc' = "idle" /\ torn' = FALSE
    /\ UNCHANGED <<rows, saving, file, packs, user, data, order, trained>>

Crash ==
    /\ pc # "idle"
    /\ pc' = "idle"
    /\ torn' = (torn \/ pc \in {"tokens", "manifest"})
    /\ data' = <<>> /\ order' = <<>> /\ trained' = <<>> /\ user' = "none"
    /\ UNCHANGED <<rows, saving, file, manifest, packs>>

----------------------------------------------------------------------------
(* The rows of a dataset, and an epoch over them. *)

\* Mutant of Row: x and y start at the same token.
RowUnshifted(tokens, start, block) ==
    [x |-> SubSeq(tokens, start + 1, start + block), y |-> SubSeq(tokens, start + 1, start + block)]

\* __getitem__: a block and the same block one token later.
Row(tokens, start, block) ==
    [x |-> SubSeq(tokens, start + 1, start + block),
     y |-> SubSeq(tokens, start + 2, start + block + 1)]

BlocksOf(tokens, block) ==
    [i \in 1 .. Usable(tokens, block) |-> Row(tokens, (i - 1) * block, block)]

BeginEpoch(pairs) ==
    /\ pc' = "epoch" /\ data' = pairs
    \* shuffled by the seed of the epoch, or as they are
    /\ order' \in {o \in [DOMAIN pairs -> DOMAIN pairs] : IsInjective(o)}
    /\ trained' = <<>>
    /\ UNCHANGED <<rows, saving, file, manifest, packs, torn>>

\* load_packed_token_file: the manifest is there, and its tokenizer is the one expected.
Accepts(t) == manifest.tokenizer = t

\* load_packed_token_file and a PackedTokenDataset of it: a file that is not whole raises,
\* and so does one that is too short for the block size of the manifest.
Load(t) ==
    /\ pc = "idle"
    /\ Accepts(t) /\ file.whole /\ Usable(file.tokens, manifest.block) > 0
    /\ user' = t
    /\ BeginEpoch(BlocksOf(file.tokens, manifest.block))

\* format_chat: the tag of a role is one token, and the body has its <|eot|>.  The mask of a
\* token says whether it is to be learnt.
Chat(messages) ==
    FlattenSeq([m \in DOMAIN messages |->
        [i \in 1 .. messages[m].length + 1 |->
            [token |-> <<IF messages[m].assistant THEN "assistant" ELSE "user", m, i - 1>>,
             learn |-> messages[m].assistant /\ i > 1]]])

\* SFTDataset: cut to a block and one token, or padded to it.
SftRow(chat, block) ==
    LET at(i) == IF i \in DOMAIN chat THEN chat[i] ELSE [token |-> PadToken, learn |-> FALSE]
    IN  [x |-> [i \in 1 .. block |-> at(i).token],
         y |-> [i \in 1 .. block |-> IF at(i + 1).learn THEN at(i + 1).token ELSE Masked]]

Messages == [assistant : BOOLEAN, length : {n + 1 : n \in Lengths}]

\* A chat of the model's own data, as the JSONL of chats has it.
LoadChat ==
    /\ pc = "idle"
    /\ \E n \in 1 .. MaxRows : \E messages \in [1 .. n -> Messages], block \in Blocks :
         BeginEpoch(<<SftRow(Chat(messages), block)>>)
    /\ UNCHANGED user

\* One batch of iter_batches; the last one may be short.
Batch ==
    /\ pc = "epoch" /\ order # <<>>
    /\ LET n == IF Len(order) < BatchSize THEN Len(order) ELSE BatchSize
           pairsOf(row) == [i \in DOMAIN row.x |-> <<row.x[i], row.y[i]>>]
       IN  /\ trained' = trained \o FlattenSeq([i \in 1 .. n |-> pairsOf(data[order[i]])])
           /\ order' = SubSeq(order, n + 1, Len(order))
    /\ UNCHANGED <<pc, rows, saving, file, manifest, packs, torn, user, data>>

EndEpoch ==
    /\ pc = "epoch" /\ order = <<>>
    /\ pc' = "idle" /\ user' = "none" /\ data' = <<>> /\ trained' = <<>>
    /\ UNCHANGED <<rows, saving, file, manifest, packs, torn, order>>

Next ==
    \/ Materialize
    \/ \E t \in Tokenizers, block \in Blocks : Pack(t, block)
    \/ SaveTokens \/ SaveManifest \/ Crash
    \/ \E t \in Tokenizers : Load(t)
    \/ LoadChat \/ Batch \/ EndEpoch

Spec == Init /\ [][Next]_vars

----------------------------------------------------------------------------

\* A run that loads a packed file trains on tokens of its own tokenizer, unless a save died
\* between the token file and the manifest since: the manifest is then of the save before, its
\* tokens_sha256 would tell, and nobody compares it (packing.py:140-219).
TokensOfTokenizer ==
    pc = "epoch" /\ user # "none" => torn \/ \A row \in Range(data) : \A token \in Range(row.x) :
        token[1] = user

Successor(token) == <<token[1], token[2], token[3] + 1>>

\* SFT learns the answers of the assistant, their <|eot|> included, and nothing else: no tag,
\* no word of the user, no padding.
LearnsAnswers ==
    \A i \in DOMAIN trained :
        /\ trained[i][2][1] = "assistant" => trained[i][2][3] > 0
        /\ trained[i][2][1] \notin {"user", "pad"}
        /\ i + 1 \in DOMAIN trained /\ user = "none" =>
             LET next == trained[i + 1][1]
             IN  next[1] = "assistant" /\ next[3] > 0 => trained[i][2] = next

\* An epoch is exact: it trains no pair twice, each target is the token behind its input in
\* the stream, over the edges of blocks, documents and batches alike, a whole packed epoch
\* leaves out no token but those behind the last block, and a chat is learnt where the
\* assistant speaks (dataset.py, __getitem__ and iter_batches; chat.py, the masked targets of
\* SFTDataset).
EpochExact ==
    LET learnt == {i \in DOMAIN trained : trained[i][2] # Masked}
    IN  /\ \A i, j \in learnt : trained[i] = trained[j] => i = j
        /\ \A i \in learnt :
             \/ trained[i][2] = Successor(trained[i][1])
             \/ trained[i][2][2] = trained[i][1][2] + 1 /\ trained[i][2][3] = 0
        /\ pc = "epoch" /\ order = <<>> /\ user # "none" =>
             {trained[i][2] : i \in learnt} = Range(Tail(SubSeq(file.tokens, 1,
                    Usable(file.tokens, manifest.block) * manifest.block + 1)))
        /\ LearnsAnswers

\* What a run trains on is of its own tokenizer, and every epoch over it is exact.
DataExact == TokensOfTokenizer /\ EpochExact

============================================================================
