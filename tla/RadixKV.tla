------------------------------ MODULE RadixKV ------------------------------
(***************************************************************************)
(* RadixKVCache (inference/radix_cache.py) and the requests of an engine   *)
(* that is built with it: a tree whose edges are spans of tokens and whose *)
(* nodes may hold the KV cache of the prefix that leads to them.           *)
(*                                                                         *)
(* A node is named by the prefix it was created for, so the empty sequence *)
(* is the root; that its edges still spell that prefix is a property.  The *)
(* rows of a KV cache are the tokens they were computed from, and the      *)
(* last logits are those of its last row.  The values of last_use are kept *)
(* as the pairs they order; the hit counters are left out.                 *)
(***************************************************************************)
EXTENDS Integers, FiniteSets, SequencesExt

CONSTANTS
    Requests,
    Prompts,            \* what new_request is called with
    PrefillChunk,       \* the scheduler's prefill_chunk
    CapacityNodes       \* capacity_nodes

Symbols == UNION {Range(prompt) : prompt \in Prompts}

RadixAssumption ==
    /\ Prompts \subseteq Seq(Symbols) \ {<<>>}
    /\ PrefillChunk \in Nat \ {0}
    /\ CapacityNodes \in Nat \ {0}

VARIABLES
    tree,       \* the nodes: [tokens, nPrefix, children, kv]; kv is <<>> for None
    older,      \* the pairs of nodes with a payload whose last_use is in this order
    request     \* [prompt, prefilled, kv, ready]; the prompt is <<>> when there is none

radixVars == <<tree, older, request>>

Root == <<>>

NewNode(tokens, nPrefix) == [tokens |-> tokens, nPrefix |-> nPrefix, children |-> <<>>, kv |-> <<>>]

EmptyTree == [node \in {Root} |-> NewNode(<<>>, 0)]

Absent == [prompt |-> <<>>, prefilled |-> 0, kv |-> <<>>, ready |-> FALSE]

TreeInit ==
    /\ tree = EmptyTree
    /\ older = {}
    /\ request = [r \in Requests |-> Absent]

HasPayload(t, node) == t[node].kv # <<>>

Children(t, node) == Range(t[node].children)

\* The prefixes whose KV cache can be reused.
Payloads(t) == {node \in DOMAIN t : HasPayload(t, node)}

\* The map f after f[x] := y.
Put(f, x, y) == [z \in DOMAIN f \cup {x} |-> IF z = x THEN y ELSE f[z]]

----------------------------------------------------------------------------
(* The walk, the match and the climb to a node with a payload. *)

\* A place of the walk is a node it went into and the number of tokens that led there.
\* The edge that begins with the next token of ids, if there is one, leads to ChildAt.
HasChild(t, ids, place) ==
    place.at < Len(ids) /\ ids[place.at + 1] \in DOMAIN t[place.node].children

ChildAt(t, ids, place) == t[place.node].children[ids[place.at + 1]]

\* The tokens of that edge that match ids.
Matched(t, ids, place) ==
    IF HasChild(t, ids, place)
    THEN Len(LongestCommonPrefix({t[ChildAt(t, ids, place)].tokens,
                                  SubSeq(ids, place.at + 1, Len(ids))}))
    ELSE 0

\* All that is matched at the end of the walk, with an edge it could not finish.
Reached(t, ids, place) == place.at + Matched(t, ids, place)

Descends(t, ids, place) ==
    /\ HasChild(t, ids, place)
    /\ Matched(t, ids, place) = Len(t[ChildAt(t, ids, place)].tokens)

Descended(t, ids, place) ==
    [node |-> ChildAt(t, ids, place), at |-> Reached(t, ids, place)]

\* _walk: the last place of the walk for ids.
Walk(t, ids) ==
    LET walk[place \in [node : DOMAIN t, at : 0 .. Len(ids)]] ==
          IF Descends(t, ids, place) THEN walk[Descended(t, ids, place)] ELSE place
    IN  walk[[node |-> Root, at |-> 0]]

ParentOf(t, node) == CHOOSE parent \in DOMAIN t : node \in Children(t, parent)

\* The node itself if it has a payload, or else its nearest ancestor that has one; the
\* root, which never has one, stands for a miss.
Climb(t, node) ==
    LET climb[m \in DOMAIN t] ==
          IF HasPayload(t, m) \/ m = Root THEN m ELSE climb[ParentOf(t, m)]
    IN  climb[node]

\* The n_tokens of match(): the count of the walk, unless it had to climb.
MatchedTokens(t, ids, walked, node) ==
    IF node = walked.node THEN Reached(t, ids, walked) ELSE t[node].nPrefix

\* The order of last_use among nodes once node has the clock's latest value.
Touched(order, nodes, node) ==
    {pair \in order : pair[1] # node /\ pair[2] # node}
        \cup {<<other, node>> : other \in nodes \ {node}}

----------------------------------------------------------------------------
(* Insertion and eviction. *)

\* The tree with a new node under parent for what is left of target.
WithLeaf(t, parent, at, target) ==
    LET rest == SubSeq(target, at + 1, Len(target))
    IN  Put([t EXCEPT ![parent].children = Put(@, Head(rest), target)],
            target, NewNode(rest, Len(target)))

\* Mutant of WithSplit: the child keeps the edge it had.
SplitKeepsEdge(t, parent, at, n, target) ==
    LET first == target[at + 1]
        child == t[parent].children[first]
        edge == t[child].tokens
        shared == SubSeq(edge, 1, n - at)
        middle == SubSeq(target, 1, n)
        tail == SubSeq(edge, n - at + 1, Len(edge))
    IN  Put([t EXCEPT ![parent].children[first] = middle],
            middle, [NewNode(shared, t[parent].nPrefix + n - at)
                       EXCEPT !.children = Put(<<>>, Head(tail), child)])

\* The tree with the edge from parent towards target cut where it leaves target.
WithSplit(t, parent, at, n, target) ==
    LET first == target[at + 1]
        child == t[parent].children[first]
        edge == t[child].tokens
        shared == SubSeq(edge, 1, n - at)
        middle == SubSeq(target, 1, n)
        tail == SubSeq(edge, n - at + 1, Len(edge))
    IN  Put([t EXCEPT ![child].tokens = tail, ![parent].children[first] = middle],
            middle, [NewNode(shared, t[parent].nPrefix + n - at)
                       EXCEPT !.children = Put(<<>>, Head(tail), child)])

\* _descend_creating: the tree in which target ends at a node.
Grown(t, target) ==
    LET walked == Walk(t, target)
        n == Reached(t, target, walked)
        cut == IF n = walked.at THEN t ELSE WithSplit(t, walked.node, walked.at, n, target)
        last == IF n = walked.at THEN walked.node ELSE SubSeq(target, 1, n)
    IN  IF n = Len(target) THEN cut ELSE WithLeaf(cut, last, n, target)

PayloadLeaves(t) == {node \in Payloads(t) : t[node].children = <<>>}

\* Mutant of Coldest: the hottest leaf goes first.
Hottest(t, order) ==
    CHOOSE leaf \in PayloadLeaves(t) :
        \A other \in PayloadLeaves(t) \ {leaf} : <<other, leaf>> \in order

\* _lru_leaf: of the leaves with a payload, the one used longest ago.
Coldest(t, order) ==
    CHOOSE leaf \in PayloadLeaves(t) :
        \A other \in PayloadLeaves(t) \ {leaf} : <<leaf, other>> \in order

\* The tree without a leaf.
WithoutLeaf(t, leaf) ==
    LET parent == ParentOf(t, leaf)
        key == Head(t[leaf].tokens)
        left == Restrict(t[parent].children, DOMAIN t[parent].children \ {key})
    IN  Restrict([t EXCEPT ![parent].children = left], DOMAIN t \ {leaf})

\* One round of _evict_if_needed.
Shrunk(t, order) ==
    IF Cardinality(DOMAIN t) > CapacityNodes /\ PayloadLeaves(t) # {}
    THEN WithoutLeaf(t, Coldest(t, order))
    ELSE t

\* _evict_if_needed: leaves go while there are too many nodes and a leaf with a payload.
Evicted(t, order) ==
    LET evict[n \in 0 .. Cardinality(DOMAIN t)] ==
          IF n = 0 THEN t ELSE Shrunk(evict[n - 1], order)
    IN  evict[Cardinality(DOMAIN t)]

\* insert() of a whole prefix.
Insert(target, kv) ==
    LET grown == [Grown(tree, target) EXCEPT ![target].kv = kv]
        order == Touched(older, Payloads(grown), target)
    IN  /\ tree' = Evicted(grown, order)
        /\ older' = {pair \in order : pair[1] \in DOMAIN tree' /\ pair[2] \in DOMAIN tree'}

----------------------------------------------------------------------------
(* The requests. *)

\* new_request, warmed from the tree by match().
NewRequest(r, prompt) ==
    LET walked == Walk(tree, prompt)
        node == Climb(tree, walked.node)
    IN  /\ request[r] = Absent
        /\ IF HasPayload(tree, node)
           THEN /\ request' = [request EXCEPT ![r] =
                     [prompt |-> prompt, prefilled |-> MatchedTokens(tree, prompt, walked, node),
                      kv |-> tree[node].kv, ready |-> FALSE]]
                /\ older' = Touched(older, Payloads(tree), node)
           ELSE /\ request' = [request EXCEPT ![r].prompt = prompt]
                /\ UNCHANGED older
        /\ UNCHANGED tree

\* The turn of a prefilling request in a tick: the next chunk, or nothing if the match
\* left nothing to prefill, and commit_prefix_cache once the prompt is through.
Prefill(r) ==
    LET state == request[r]
        remaining == Len(state.prompt) - state.prefilled
        n == IF remaining < PrefillChunk THEN remaining ELSE PrefillChunk
        kv == state.kv \o SubSeq(state.prompt, state.prefilled + 1, state.prefilled + n)
    IN  /\ state # Absent /\ ~state.ready
        /\ request' = [request EXCEPT ![r] =
             [prompt |-> state.prompt, prefilled |-> state.prefilled + n,
              kv |-> kv, ready |-> (n = remaining)]]
        /\ IF n = remaining
           THEN Insert(state.prompt, kv)
           ELSE UNCHANGED <<tree, older>>

\* The request is cancelled, or decoded to its end.
Retire(r) ==
    /\ request[r] # Absent
    /\ request' = [request EXCEPT ![r] = Absent]
    /\ UNCHANGED <<tree, older>>

Clear ==
    /\ tree # EmptyTree
    /\ tree' = EmptyTree
    /\ older' = {}
    /\ UNCHANGED request

TreeNext ==
    \/ \E r \in Requests :
         \/ \E prompt \in Prompts : NewRequest(r, prompt)
         \/ Prefill(r)
         \/ Retire(r)
    \/ Clear

TreeSpec == TreeInit /\ [][TreeNext]_radixVars

----------------------------------------------------------------------------

Stored == Payloads(tree)

\* Nodes are paths of symbols, children are nodes of the tree, and last_use orders exactly
\* the nodes with a payload (radix_cache.py).
RadixTypeOK ==
    LET Names == {Root} \cup UNION {Prefixes(prompt) : prompt \in Prompts}
    IN  /\ DOMAIN tree \subseteq Names
        /\ \A node \in DOMAIN tree :
             /\ tree[node].tokens \in Seq(Symbols)
             /\ tree[node].nPrefix \in Nat
             /\ DOMAIN tree[node].children \subseteq Symbols
             /\ Children(tree, node) \subseteq DOMAIN tree
             /\ tree[node].kv \in Seq(Symbols)
        /\ older \subseteq Stored \X Stored
        /\ \A m, n \in Stored : (<<m, n>> \in older) # (m = n \/ <<n, m>> \in older)
        /\ \A m, n, o \in Stored : <<m, n>> \in older /\ <<n, o>> \in older => <<m, o>> \in older
        /\ request \in [Requests -> [prompt : Prompts \cup {<<>>}, prefilled : Nat,
                                     kv : Seq(Symbols), ready : BOOLEAN]]

\* Hazard: a split that loses a subtree, or leaves an edge, a count or a key as it was.
\* Every node hangs from one parent, under the first token of its edge, and the edges
\* that lead to it spell the prefix it was stored for.
TreeSpellsPrefixes ==
    \A node \in DOMAIN tree \ {Root} :
        /\ tree[node].nPrefix = Len(node)
        /\ \E parent \in DOMAIN tree :
             /\ node = parent \o tree[node].tokens
             /\ tree[node].tokens # <<>>
             /\ Head(tree[node].tokens) \in DOMAIN tree[parent].children
             /\ tree[parent].children[Head(tree[node].tokens)] = node
             /\ \A other \in DOMAIN tree \ {parent} : node \notin Children(tree, other)

\* Hazard: a walk that stops at a node without payload, or in the middle of an edge.
\* Whatever the tree went through, match() finds the longest of the stored prefixes.
MatchFindsLongest ==
    \A ids \in Prompts :
        LET hit == Climb(tree, Walk(tree, ids).node)
            stored == {node \in Stored : IsPrefix(node, ids)}
        IN  IF stored = {} THEN hit = Root
            ELSE hit \in stored /\ \A node \in stored : Len(node) <= Len(hit)

\* Hazard: an eviction that stops too early.  radix_cache.py:63 says that capacity_nodes
\* bounds the number of nodes; leaves without payload are never evicted, so what holds is
\* that above its capacity the tree has no leaf with a payload left.
EvictsWhatItCan == Cardinality(DOMAIN tree) > CapacityNodes => PayloadLeaves(tree) = {}

\* The tree is what its stored prefixes make it, is searched right and kept as small as it
\* can be (radix_cache.py, insert, match and evict).
TreeExact == TreeSpellsPrefixes /\ MatchFindsLongest /\ EvictsWhatItCan

\* Hazard: an eviction of a prefix others build on, or of one in use before an idle
\* one.  A prefix that goes is no prefix of one that stays, and was used before every
\* leaf that stays, but for one that was used in this very step.
EvictsColdestLeaf ==
    [][ \A lost \in Stored \ Stored', kept \in Stored' :
          /\ ~IsPrefix(lost, kept)
          /\ kept \in PayloadLeaves(tree) \cap PayloadLeaves(tree') =>
               \/ \A other \in Stored' \ {kept} : <<other, kept>> \in older'
               \/ <<lost, kept>> \in older ]_radixVars

\* radix_cache.py:3-4 and :89: a node holds the KV cache for the prefix from the root,
\* and match() returns the count and the KV cache of the deepest stored prefix.  So the
\* KV cache of a request has a row for each token that counts as prefilled.
PrefillExact ==
    \A r \in Requests :
        request[r].kv = SubSeq(request[r].prompt, 1, request[r].prefilled)

============================================================================
