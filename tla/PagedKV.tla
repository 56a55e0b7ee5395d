------------------------------ MODULE PagedKV ------------------------------
(***************************************************************************)
(* The paged KV storage (inference/paged_kv.py): a pool of fixed-size      *)
(* blocks with a LIFO free list, and one page table per request, shared by *)
(* the layers of the model.  A forward appends its tokens layer by layer,  *)
(* token by token, taking a block wherever the table ends; it fails when   *)
(* the pool is exhausted and leaves behind what it has done so far.        *)
(* Freeing a table returns its blocks one by one.  One thread runs it all. *)
(*                                                                         *)
(* A KV row is the token it was computed from.                             *)
(***************************************************************************)
EXTENDS Integers, Sequences

CONSTANTS
    Request,
    Token,
    NLayer,         \* config.n_layer
    NBlocks,        \* config.n_blocks
    BlockSize,      \* config.block_size
    MaxTokens,      \* the context bound of the model
    Chunk,          \* the token sequences a forward may bring
    NoRequest,
    Zero            \* what a row of a fresh pool holds

ASSUME PagedAssumption ==
    /\ NLayer \in Nat \ {0}
    /\ NBlocks \in Nat \ {0}
    /\ BlockSize \in Nat \ {0}
    /\ MaxTokens \in Nat
    /\ Chunk \subseteq Seq(Token) \ {<<>>}
    /\ NoRequest \notin Request

Layer == 0 .. NLayer - 1
Block == 0 .. NBlocks - 1
Offset == 0 .. BlockSize - 1

VARIABLES
    free,           \* _free
    allocated,      \* _allocated
    cells,          \* _keys and _values: the row at a layer, block and offset
    blocks,         \* table.blocks of each request
    lengths,        \* table.layer_lengths of each request
    op,             \* what is under way: "none", "append" (a forward) or "free"
    req,            \* the request it works on
    chunk,          \* the tokens a forward brings
    layer,          \* the layer that appends them
    at,             \* how many tokens it has written; how many blocks were freed
    fed             \* history: the tokens each layer of a request has appended

opVars == <<op, req, chunk, layer, at>>
vars == <<free, allocated, cells, blocks, lengths, opVars, fed>>

Init ==
    /\ free = [i \in 1 .. NBlocks |-> i - 1]
    /\ allocated = {}
    /\ cells = [l \in Layer |-> [b \in Block |-> [o \in Offset |-> Zero]]]
    /\ blocks = [r \in Request |-> <<>>]
    /\ lengths = [r \in Request |-> [l \in Layer |-> 0]]
    /\ op = "none" /\ req = NoRequest /\ chunk = <<>> /\ layer = 0 /\ at = 0
    /\ fed = [r \in Request |-> [l \in Layer |-> <<>>]]

\* Nothing is under way any more.
OpEnds == op' = "none" /\ req' = NoRequest /\ chunk' = <<>> /\ layer' = 0 /\ at' = 0

\* A forward of new tokens on the cache of r begins; the model has checked the
\* context.
Forward(r, new) ==
    /\ op = "none"
    /\ \A l \in Layer : lengths[r][l] + Len(new) <= MaxTokens
    /\ op' = "append" /\ req' = r /\ chunk' = new
    /\ UNCHANGED <<free, allocated, cells, blocks, lengths, layer, at, fed>>

\* Mutant of Pos: a layer appends after the rows of the first layer.
PosOfFirstLayer == lengths[req][0] + at

\* The position of the token that append_tokens writes next.
Pos == lengths[req][layer] + at

Appending == op = "append" /\ at < Len(chunk)

PastTable == Pos \div BlockSize >= Len(blocks[req])

Write(b) ==
    /\ cells' = [cells EXCEPT ![layer][b][Pos % BlockSize] = chunk[at + 1]]
    /\ at' = at + 1

\* A token that falls into a block the table has.
AppendToken ==
    /\ Appending
    /\ ~PastTable
    /\ Write(blocks[req][Pos \div BlockSize + 1])
    /\ UNCHANGED <<free, allocated, blocks, lengths, op, req, chunk, layer, fed>>

\* A token past the end of the table: allocate() pops a block for it.
AppendAllocating ==
    /\ Appending
    /\ PastTable
    /\ free # <<>>
    /\ LET table == Append(blocks[req], free[Len(free)])
       IN  /\ blocks' = [blocks EXCEPT ![req] = table]
           /\ Write(table[Pos \div BlockSize + 1])
    /\ allocated' = allocated \cup {free[Len(free)]}
    /\ free' = SubSeq(free, 1, Len(free) - 1)
    /\ UNCHANGED <<lengths, op, req, chunk, layer, fed>>

\* allocate() raises: the forward ends where it is.
Exhausted ==
    /\ Appending
    /\ PastTable
    /\ free = <<>>
    /\ OpEnds
    /\ UNCHANGED <<free, allocated, cells, blocks, lengths, fed>>

\* Another layer of the forward follows.
MoreLayers == layer + 1 < NLayer

\* append_tokens records the length; the next layer, if any, goes on.
EndLayer ==
    /\ op = "append"
    /\ at = Len(chunk)
    /\ lengths' = [lengths EXCEPT ![req][layer] = @ + Len(chunk)]
    /\ fed' = [fed EXCEPT ![req][layer] = @ \o chunk]
    /\ IF MoreLayers
       THEN layer' = layer + 1 /\ at' = 0 /\ UNCHANGED <<op, req, chunk>>
       ELSE OpEnds
    /\ UNCHANGED <<free, allocated, cells, blocks>>

\* free_table: the blocks go back one by one, then the table is emptied.
FreeTable(r) ==
    /\ op = "none"
    /\ op' = "free" /\ req' = r
    /\ UNCHANGED <<free, allocated, cells, blocks, lengths, chunk, layer, at, fed>>

\* Mutant of FreeBlock: the block stays in the allocated set.
FreeBlockStaysAllocated ==
    /\ op = "free"
    /\ at < Len(blocks[req])
    /\ free' = Append(free, blocks[req][at + 1])
    /\ at' = at + 1
    /\ UNCHANGED <<allocated, cells, blocks, lengths, op, req, chunk, layer, fed>>

\* free: nothing happens for a block that is not allocated.
FreeBlock ==
    /\ op = "free"
    /\ at < Len(blocks[req])
    /\ LET b == blocks[req][at + 1]
       IN  IF b \in allocated
           THEN free' = Append(free, b) /\ allocated' = allocated \ {b}
           ELSE UNCHANGED <<free, allocated>>
    /\ at' = at + 1
    /\ UNCHANGED <<cells, blocks, lengths, op, req, chunk, layer, fed>>

\* The last block is free: lengths and block list are cleared.
EndFree ==
    /\ op = "free"
    /\ at = Len(blocks[req])
    /\ blocks' = [blocks EXCEPT ![req] = <<>>]
    /\ lengths' = [lengths EXCEPT ![req] = [l \in Layer |-> 0]]
    /\ fed' = [fed EXCEPT ![req] = [l \in Layer |-> <<>>]]
    /\ OpEnds
    /\ UNCHANGED <<free, allocated, cells>>

Next ==
    \/ \E r \in Request, new \in Chunk : Forward(r, new)
    \/ AppendToken
    \/ AppendAllocating
    \/ Exhausted
    \/ EndLayer
    \/ \E r \in Request : FreeTable(r)
    \/ FreeBlock
    \/ EndFree

Spec == Init /\ [][Next]_vars

----------------------------------------------------------------------------

\* gather: the rows of the whole blocks of the table, then those of the last one.
Gather(l, r) ==
    [p \in 1 .. lengths[r][l] |->
        cells[l][blocks[r][(p - 1) \div BlockSize + 1]][(p - 1) % BlockSize]]

\* Free list and page tables hold block numbers of the pool, cells hold one row or none,
\* and the operation under way is one of the pool's (paged_kv.py).
TypeOK ==
    /\ free \in Seq(Block)
    /\ allocated \in SUBSET Block
    /\ cells \in [Layer -> [Block -> [Offset -> Token \cup {Zero}]]]
    /\ blocks \in [Request -> Seq(Block)]
    /\ lengths \in [Request -> [Layer -> Nat]]
    /\ op \in {"none", "append", "free"}
    /\ req \in Request \cup {NoRequest}
    /\ chunk \in Seq(Token)
    /\ layer \in Layer
    /\ at \in Nat
    /\ fed \in [Request -> [Layer -> Seq(Token)]]

\* The entries of the table of r that free_table has not yet returned.
Held(r) ==
    {i \in 1 .. Len(blocks[r]) : op = "free" /\ req = r => i > at}

\* Hazard: a block on the free list that is also in use, or on it twice, is handed
\* to two requests; one on neither side is lost for good.  Every block is either on
\* the free list, once, or allocated.
PoolPartition ==
    /\ \A i, j \in 1 .. Len(free) : free[i] = free[j] => i = j
    /\ \A i \in 1 .. Len(free) : free[i] \notin allocated
    /\ \A b \in Block : b \in allocated \/ \E i \in 1 .. Len(free) : free[i] = b

\* Hazard: two page tables that share a block overwrite each other's rows.  Held
\* blocks are allocated and have one holder and one place in its table; no block is
\* allocated without a holder, an append that failed half-way included.
NoAliasing ==
    /\ \A r \in Request : \A i \in Held(r) : blocks[r][i] \in allocated
    /\ \A r, s \in Request : \A i \in Held(r), j \in Held(s) :
         blocks[r][i] = blocks[s][j] => r = s /\ i = j
    /\ \A b \in allocated : \E r \in Request : \E i \in Held(r) : blocks[r][i] = b

\* No block is lost, and none is used twice (paged_kv.py, allocate, free, free_table).
BlocksAccounted == PoolPartition /\ NoAliasing

\* Hazard: the block map is grown by the first layer and only read by the others,
\* and rows of a failed append or of a freed request stay in the pool.  What a
\* layer gathers for a request is what that layer appended for it.
GatherExact ==
    \A r \in Request, l \in Layer : Gather(l, r) = fed[r][l]

\* Hazard: a forward that fails in its first layer leaves the layers at different
\* lengths, so that positions and KV rows no longer match.  Between two forwards all
\* layers of a request have appended the same tokens.
LockStep ==
    op # "append" =>
        \A r \in Request : \A l, k \in Layer : fed[r][l] = fed[r][k]

============================================================================
