--------------------------- MODULE RadixKV_proofs ---------------------------
(***************************************************************************)
(* Proofs about RadixKV, for every set of requests and prompts, chunk size *)
(* and capacity.  The walk, the climb and the eviction are recursive       *)
(* functions over the tree, so that their equations come first (Loop).     *)
(***************************************************************************)
EXTENDS RadixKV, FiniteSetTheorems, SequenceTheorems, WellFoundedInduction,
        NaturalsInduction, TLAPS

----------------------------------------------------------------------------
(* Numbers, and loops that end. *)

\* A set of numbers that is not empty has a least element.
LEMMA LeastNumber ==
    ASSUME NEW T, T \subseteq Nat, T # {}
    PROVE  \E x \in T : \A y \in T : x <= y
<1>1. PICK x \in T : \A y \in T : ~(<<y, x>> \in OpToRel(<, Nat))
  BY NatLessThanWellFounded, WFMin
<1>2. \A y \in T : ~(y < x)
  BY <1>1 DEF OpToRel
<1> QED
  BY <1>2

\* Induction, with the set of the numbers it reaches in place of a predicate.
LEMMA Upwards ==
    ASSUME NEW T, 0 \in T, \A n \in Nat : n \in T => n + 1 \in T
    PROVE  \A n \in Nat : n \in T
<1> SUFFICES ASSUME NEW n \in Nat, n \notin T PROVE FALSE
  OBVIOUS
<1> DEFINE L == Nat \ T
<1>1. PICK x \in L : \A y \in L : x <= y
  <2>1. L \subseteq Nat /\ L # {}
    OBVIOUS
  <2> HIDE DEF L
  <2> QED
    BY <2>1, LeastNumber
<1>2. x # 0 /\ x \in Nat /\ x \notin T
  OBVIOUS
<1>3. x - 1 \in Nat /\ x - 1 \in T
  BY <1>1, <1>2
<1>4. (x - 1) + 1 \in T
  BY <1>3
<1> QED
  BY <1>2, <1>4

\* A loop that stops, or goes on from a place of a lower rank, defines a function: the
\* value where it stops, as a function of the place where it begins.
Terminates(D, Stops, next, rank, N) ==
    /\ N \in Nat /\ \A x \in D : rank[x] \in 0 .. N
    /\ \A x \in D \ Stops : next[x] \in D /\ rank[next[x]] < rank[x]

LEMMA Loop ==
    ASSUME NEW D, NEW Stops, NEW next, NEW rank, NEW N, Terminates(D, Stops, next, rank, N)
    PROVE  \E f : \A x \in D : f[x] = IF x \in Stops THEN x ELSE f[next[x]]
<1> USE DEF Terminates
<1> DEFINE Low(k) == {x \in D : rank[x] <= k}
           Solves(f, k) == f = [x \in Low(k) |-> IF x \in Stops THEN x ELSE f[next[x]]]
           T == {k \in Nat : \E f : Solves(f, k)}
<1>1. 0 \in T
  <2> DEFINE f == [x \in Low(0) |-> x]
  <2>1. ASSUME NEW x \in Low(0) PROVE x \in Stops
    <3> SUFFICES ASSUME x \notin Stops PROVE FALSE
      OBVIOUS
    <3>1. rank[x] = 0 /\ next[x] \in D /\ rank[next[x]] < rank[x]
      OBVIOUS
    <3> QED
      BY <3>1
  <2>2. Solves(f, 0)
    BY <2>1
  <2> HIDE DEF f, Solves
  <2> QED
    BY <2>2
<1>2. ASSUME NEW k \in Nat, k \in T PROVE k + 1 \in T
  <2>1. PICK f : Solves(f, k)
    BY <1>2
  <2> DEFINE g == [x \in Low(k + 1) |-> IF x \in Stops THEN x ELSE f[next[x]]]
  <2>2. ASSUME NEW y \in Low(k) PROVE y \in Low(k + 1) /\ g[y] = f[y]
    <3>1. y \in Low(k + 1)
      OBVIOUS
    <3>2. f[y] = IF y \in Stops THEN y ELSE f[next[y]]
      BY <2>1
    <3> QED
      BY <3>1, <3>2
  <2>3. ASSUME NEW x \in Low(k + 1), x \notin Stops PROVE f[next[x]] = g[next[x]]
    <3>1. next[x] \in D /\ rank[next[x]] < rank[x] /\ rank[x] <= k + 1
      BY <2>3
    <3>2. next[x] \in Low(k)
      BY <3>1
    <3> QED
      BY <2>2, <3>2
  <2>4. Solves(g, k + 1)
    <3> HIDE DEF Low
    <3> QED
      BY <2>3, Zenon
  <2> HIDE DEF g, Solves
  <2> QED
    BY <2>4
<1>3. N \in T
  <2> HIDE DEF T
  <2> QED
    BY <1>1, <1>2, Upwards
<1>4. Low(N) = D
  OBVIOUS
<1>5. PICK f : Solves(f, N)
  BY <1>3
<1> HIDE DEF Low
<1> QED
  BY <1>4, <1>5

----------------------------------------------------------------------------
(***************************************************************************)
(* The shape of a tree.  An edge is told by the names at its ends: its     *)
(* tokens are what the child's name has behind the parent's.               *)
(***************************************************************************)

\* m is a prefix of n, element by element.
Below(m, n) == Len(m) <= Len(n) /\ \A i \in 1 .. Len(m) : m[i] = n[i]

IsNode(r) ==
    /\ r = [tokens |-> r.tokens, nPrefix |-> r.nPrefix, children |-> r.children, kv |-> r.kv]
    /\ r.tokens \in Seq(Symbols) /\ r.kv \in Seq(Symbols)

\* c hangs from n, and under the token of its name that comes behind n.
Hangs(t, n, c) ==
    /\ Len(n) < Len(c) /\ Below(n, c)
    /\ c[Len(n) + 1] \in DOMAIN t[n].children
    /\ t[n].children[c[Len(n) + 1]] = c

\* The edge under x leads to a node that hangs there, and its tokens are the rest of that name.
Edge(t, n, x) ==
    LET c == t[n].children[x]
    IN  /\ c \in DOMAIN t /\ Hangs(t, n, c) /\ x = c[Len(n) + 1]
        /\ Len(t[c].tokens) = Len(c) - Len(n)
        /\ \A i \in 1 .. Len(c) - Len(n) : t[c].tokens[i] = c[Len(n) + i]

TreeShape(t) ==
    /\ DOMAIN t \subseteq Seq(Symbols) /\ IsFiniteSet(DOMAIN t)
    /\ Root \in DOMAIN t /\ t[Root].kv = <<>>
    /\ \A n \in DOMAIN t : IsNode(t[n]) /\ t[n].nPrefix = Len(n)
    /\ \A n \in DOMAIN t : \A x \in DOMAIN t[n].children : Edge(t, n, x)
    /\ \A c \in DOMAIN t : c # Root => \E n \in DOMAIN t : Hangs(t, n, c)

LEMMA PrefixBelow ==
    ASSUME NEW S, NEW m \in Seq(S), NEW n \in Seq(S)
    PROVE  IsPrefix(m, n) <=> Below(m, n)
<1>1. ASSUME Len(m) <= Len(n)
      PROVE  (SubSeq(m, 1, Len(m)) = SubSeq(n, 1, Len(m))) <=> \A i \in 1 .. Len(m) : m[i] = n[i]
  <2> DEFINE k == SubSeq(n, 1, Len(m))
  <2>1. k \in Seq(S) /\ Len(k) = Len(m) /\ \A i \in 1 .. Len(m) : k[i] = n[i]
    BY <1>1
  <2>2. SubSeq(m, 1, Len(m)) = m
    OBVIOUS
  <2> HIDE DEF k
  <2>3. (m = k) <=> \A i \in 1 .. Len(m) : m[i] = k[i]
    BY <2>1
  <2> QED
    BY <2>1, <2>2, <2>3 DEF k
<1> QED
  BY <1>1 DEF IsPrefix, Below

LEMMA SameSequence ==
    ASSUME NEW S, NEW m \in Seq(S), NEW n \in Seq(S), Len(m) = Len(n),
           \A i \in 1 .. Len(m) : m[i] = n[i]
    PROVE  m = n
OBVIOUS

\* Of two prefixes of one sequence the shorter one is a prefix of the other.
LEMMA TwoBelow ==
    ASSUME NEW S, NEW l \in Seq(S), NEW m \in Seq(S), NEW n \in Seq(S),
           Below(l, n), Below(m, n), Len(l) <= Len(m)
    PROVE  /\ Below(l, m)
           /\ Len(l) = Len(m) => l = m
<1>1. Below(l, m)
  BY DEF Below
<1>2. ASSUME Len(l) = Len(m) PROVE l = m
  BY <1>1, <1>2, SameSequence DEF Below
<1> QED
  BY <1>1, <1>2

LEMMA BelowTransitive ==
    ASSUME NEW S, NEW l \in Seq(S), NEW m \in Seq(S), NEW n \in Seq(S), Below(l, m), Below(m, n)
    PROVE  Below(l, n)
BY DEF Below

LEMMA RootName == Root \in Seq(Symbols) /\ Len(Root) = 0
BY DEF Root

LEMMA OnlyRootEmpty ==
    ASSUME NEW n \in Seq(Symbols), Len(n) = 0
    PROVE  n = Root
BY DEF Root

\* A node has a child towards every node its name is a prefix of: there is no node in the
\* middle of an edge.
OnPath(t, m, n) ==
    /\ n[Len(m) + 1] \in DOMAIN t[m].children
    /\ Below(t[m].children[n[Len(m) + 1]], n)

LEMMA Path ==
    ASSUME NEW t, TreeShape(t), NEW m \in DOMAIN t, NEW n \in DOMAIN t,
           Below(m, n), Len(m) < Len(n)
    PROVE  OnPath(t, m, n)
<1> DEFINE Missed(b) == \E a \in DOMAIN t : Below(a, b) /\ Len(a) < Len(b) /\ ~OnPath(t, a, b)
           T == {Len(b) : b \in {c \in DOMAIN t : Missed(c)}}
<1>1. \A b \in DOMAIN t : b \in Seq(Symbols) /\ Len(b) \in Nat
  BY DEF TreeShape
<1> SUFFICES ASSUME T # {} PROVE FALSE
  OBVIOUS
<1>2. PICK l \in T : \A k \in T : l <= k
  <2>1. T \subseteq Nat
    BY <1>1
  <2> HIDE DEF T
  <2> QED
    BY <2>1, LeastNumber
<1>3. PICK b \in DOMAIN t : Missed(b) /\ Len(b) = l
  OBVIOUS
<1>4. ASSUME NEW c \in DOMAIN t, Len(c) < Len(b) PROVE ~Missed(c)
  <2>1. Missed(c) => Len(c) \in T
    <3> HIDE DEF Missed
    <3> QED
      OBVIOUS
  <2> HIDE DEF T, Missed
  <2> QED
    BY <1>1, <1>2, <1>3, <1>4, <2>1
<1> HIDE DEF T
<1>5. PICK a \in DOMAIN t : Below(a, b) /\ Len(a) < Len(b) /\ ~OnPath(t, a, b)
  BY <1>3
<1>6. b # Root
  BY <1>1, <1>5, RootName
<1>7. PICK p \in DOMAIN t : Hangs(t, p, b)
  BY <1>6 DEF TreeShape
<1>8. Len(p) < Len(b) /\ Below(p, b) /\ p \in Seq(Symbols) /\ a \in Seq(Symbols)
      /\ b \in Seq(Symbols) /\ Len(p) \in Nat /\ Len(a) \in Nat /\ Len(b) \in Nat
  BY <1>1, <1>7 DEF Hangs
<1>9. CASE Len(a) < Len(p)
  <2>1. Below(a, p)
    BY <1>5, <1>8, <1>9, TwoBelow
  <2>2. OnPath(t, a, p)
    BY <1>4, <1>8, <1>9, <2>1
  <2>3. p[Len(a) + 1] = b[Len(a) + 1]
    BY <1>8, <1>9 DEF Below
  <2>4. t[a].children[p[Len(a) + 1]] \in Seq(Symbols)
    BY <1>1, <2>2 DEF OnPath, TreeShape, Edge
  <2>5. Below(t[a].children[p[Len(a) + 1]], b)
    BY <1>8, <2>2, <2>4, BelowTransitive DEF OnPath
  <2> QED
    BY <1>5, <2>2, <2>3, <2>5 DEF OnPath
<1>10. CASE Len(a) = Len(p)
  <2>1. a = p
    BY <1>5, <1>8, <1>10, TwoBelow
  <2>2. Below(b, b)
    BY <1>8 DEF Below
  <2> QED
    BY <1>5, <1>7, <2>1, <2>2 DEF Hangs, OnPath
<1>11. CASE Len(p) < Len(a)
  <2>1. Below(p, a)
    BY <1>5, <1>8, <1>11, TwoBelow
  <2>2. OnPath(t, p, a)
    BY <1>4, <1>5, <1>11, <2>1
  <2>3. a[Len(p) + 1] = b[Len(p) + 1]
    BY <1>5, <1>8, <1>11 DEF Below
  <2>4. Below(b, a)
    BY <1>7, <2>2, <2>3 DEF Hangs, OnPath
  <2> QED
    BY <1>5, <1>8, <2>4 DEF Below
<1> QED
  BY <1>8, <1>9, <1>10, <1>11

----------------------------------------------------------------------------
(* What an edge has in common with the tokens that are searched. *)

LEMMA CommonPrefix ==
    ASSUME NEW S, NEW a \in Seq(S), NEW b \in Seq(S)
    PROVE  LET n == Len(LongestCommonPrefix({a, b}))
           IN  /\ n \in Nat /\ n <= Len(a) /\ n <= Len(b)
               /\ \A i \in 1 .. n : a[i] = b[i]
               /\ n < Len(a) /\ n < Len(b) => a[n + 1] # b[n + 1]
<1> DEFINE C == CommonPrefixes({a, b})
           L == LongestCommonPrefix({a, b})
<1>1. ASSUME NEW p \in C PROVE p \in Seq(S) /\ Below(p, a) /\ Below(p, b)
  <2>1. /\ p \in UNION {Prefixes(seq) : seq \in {a, b}}
        /\ IsPrefix(p, a) /\ IsPrefix(p, b)
    BY DEF CommonPrefixes
  <2>2. PICK seq \in {a, b} : p \in Prefixes(seq)
    BY <2>1
  <2>3. PICK l \in 0 .. Len(seq) : p = SubSeq(seq, 1, l)
    BY <2>2 DEF Prefixes
  <2>4. p \in Seq(S)
    BY <2>3
  <2> QED
    BY <2>1, <2>4, PrefixBelow
<1>2. ASSUME NEW l \in 0 .. Len(a), l <= Len(b), \A i \in 1 .. l : a[i] = b[i]
      PROVE  SubSeq(a, 1, l) \in C /\ Len(SubSeq(a, 1, l)) = l
  <2> DEFINE p == SubSeq(a, 1, l)
  <2>1. p \in Seq(S) /\ Len(p) = l /\ \A i \in 1 .. l : p[i] = a[i]
    OBVIOUS
  <2>2. p \in Prefixes(a)
    BY DEF Prefixes
  <2> HIDE DEF p
  <2>3. Below(p, a) /\ Below(p, b)
    BY <1>2, <2>1 DEF Below
  <2>4. IsPrefix(p, a) /\ IsPrefix(p, b)
    BY <2>1, <2>3, PrefixBelow
  <2>5. p \in C
    BY <2>2, <2>4 DEF CommonPrefixes
  <2> QED
    BY <2>1, <2>5 DEF p
<1>3. \E p \in C : \A q \in C : Len(q) <= Len(p)
  <2> DEFINE T == {Len(a) - Len(p) : p \in C}
  <2>1. T \subseteq Nat
    <3> HIDE DEF C
    <3>1. ASSUME NEW p \in C PROVE Len(a) - Len(p) \in Nat
      <4>1. p \in Seq(S) /\ Len(p) <= Len(a)
        BY <1>1 DEF Below
      <4> QED
        BY <4>1
    <3> QED
      BY <3>1
  <2>2. T # {}
    <3>1. SubSeq(a, 1, 0) \in C
      <4> HIDE DEF C
      <4>1. 0 \in 0 .. Len(a) /\ 0 <= Len(b) /\ \A i \in 1 .. 0 : a[i] = b[i]
        OBVIOUS
      <4> QED
        BY <1>2, <4>1
    <3> QED
      BY <3>1
  <2>3. PICK x \in T : \A y \in T : x <= y
    <3> HIDE DEF T
    <3> QED
      BY <2>1, <2>2, LeastNumber
  <2>4. PICK p \in C : x = Len(a) - Len(p)
    OBVIOUS
  <2>5. ASSUME NEW q \in C PROVE Len(q) <= Len(p)
    <3>1. Len(a) - Len(q) \in T
      OBVIOUS
    <3>2. Len(a) - Len(p) <= Len(a) - Len(q)
      BY <2>3, <2>4, <3>1
    <3>3. Len(p) \in Nat /\ Len(q) \in Nat /\ Len(a) \in Nat
      BY <1>1
    <3> QED
      BY <3>2, <3>3
  <2> QED
    BY <2>5
<1>4. L \in C /\ \A q \in C : Len(q) <= Len(L)
  <2> HIDE DEF C
  <2>1. L = CHOOSE p \in C : \A q \in C : Len(q) <= Len(p)
    BY DEF LongestCommonPrefix, C
  <2> HIDE DEF L
  <2> QED
    BY <1>3, <2>1
<1>5. L \in Seq(S) /\ Below(L, a) /\ Below(L, b)
  BY <1>1, <1>4
<1> DEFINE n == Len(L)
<1> HIDE DEF C, L
<1>6. n \in Nat /\ n <= Len(a) /\ n <= Len(b) /\ \A i \in 1 .. n : a[i] = b[i]
  BY <1>5 DEF Below
<1>7. ASSUME n < Len(a), n < Len(b), a[n + 1] = b[n + 1] PROVE FALSE
  <2>1. n + 1 \in 0 .. Len(a) /\ \A i \in 1 .. n + 1 : a[i] = b[i]
    BY <1>6, <1>7
  <2>2. n + 1 <= Len(b)
    BY <1>6, <1>7
  <2> HIDE DEF n
  <2>3. SubSeq(a, 1, n + 1) \in C /\ Len(SubSeq(a, 1, n + 1)) = n + 1
    BY <1>2, <2>1, <2>2
  <2>4. n + 1 <= n
    BY <1>4, <2>3 DEF n
  <2> QED
    BY <1>6, <2>4
<1> QED
  BY <1>6, <1>7 DEF L

\* A place of the walk: its node, and as many tokens as led there.
Place(t, ids, place) ==
    /\ place \in [node : DOMAIN t, at : 0 .. Len(ids)]
    /\ place.at = Len(place.node) /\ Below(place.node, ids)

\* What is matched of the edge in front of a place.
MatchedKnown(t, ids, place) ==
    LET c == ChildAt(t, ids, place)
        n == Matched(t, ids, place)
        edge == t[c].tokens
    IN  /\ c \in DOMAIN t /\ edge \in Seq(Symbols)
        /\ Edge(t, place.node, ids[place.at + 1])
        /\ n \in 1 .. Len(edge) /\ place.at + n <= Len(ids)
        /\ \A i \in 1 .. n : edge[i] = ids[place.at + i]
        /\ n < Len(edge) /\ place.at + n < Len(ids) => edge[n + 1] # ids[place.at + n + 1]

LEMMA MatchedFacts ==
    ASSUME NEW t, TreeShape(t), NEW ids \in Seq(Symbols),
           NEW place \in [node : DOMAIN t, at : 0 .. Len(ids)], HasChild(t, ids, place)
    PROVE  MatchedKnown(t, ids, place)
<1> DEFINE node == place.node
           at == place.at
           x == ids[at + 1]
           c == ChildAt(t, ids, place)
           edge == t[c].tokens
           rest == SubSeq(ids, at + 1, Len(ids))
           n == Len(LongestCommonPrefix({edge, rest}))
<1>1. node \in DOMAIN t /\ at \in Nat /\ at < Len(ids) /\ x \in DOMAIN t[node].children
  BY DEF HasChild
<1>2. Matched(t, ids, place) = n
  BY DEF Matched
<1>3. c = t[node].children[x]
  BY DEF ChildAt
<1>4. Edge(t, node, x)
  BY <1>1 DEF TreeShape
<1>5. c \in DOMAIN t /\ Len(edge) = Len(c) - Len(node) /\ Len(node) < Len(c)
      /\ x = c[Len(node) + 1] /\ \A i \in 1 .. Len(c) - Len(node) : edge[i] = c[Len(node) + i]
  BY <1>3, <1>4 DEF Edge, Hangs
<1>6. edge \in Seq(Symbols) /\ Len(c) \in Nat /\ Len(node) \in Nat
  BY <1>1, <1>5 DEF TreeShape, IsNode
<1>7. rest \in Seq(Symbols) /\ Len(rest) = Len(ids) - at
      /\ \A i \in 1 .. Len(ids) - at : rest[i] = ids[at + i]
  BY <1>1
<1>8. Len(edge) > 0 /\ edge[1] = x
  BY <1>5, <1>6
<1>9. Len(rest) > 0 /\ rest[1] = x
  BY <1>1, <1>7
<1> HIDE DEF edge, rest, c
<1>10. /\ n \in Nat /\ n <= Len(edge) /\ n <= Len(rest)
       /\ \A i \in 1 .. n : edge[i] = rest[i]
       /\ n < Len(edge) /\ n < Len(rest) => edge[n + 1] # rest[n + 1]
  BY <1>6, <1>7, CommonPrefix, ZenonT(60)
<1> HIDE DEF n
<1>11. n \in 1 .. Len(edge)
  BY <1>6, <1>7, <1>8, <1>9, <1>10
<1>12. at + n <= Len(ids) /\ \A i \in 1 .. n : edge[i] = ids[at + i]
  BY <1>1, <1>7, <1>10
<1>13. n < Len(edge) /\ at + n < Len(ids) => edge[n + 1] # ids[at + n + 1]
  BY <1>1, <1>7, <1>10
<1> QED
  BY <1>2, <1>4, <1>5, <1>6, <1>11, <1>12, <1>13 DEF MatchedKnown, edge, c

----------------------------------------------------------------------------
(* The walk ends at the deepest node whose name is a prefix of what is searched. *)

\* The next place of a walk is a place again, further on.
LEMMA DescendedPlace ==
    ASSUME NEW t, TreeShape(t), NEW ids \in Seq(Symbols),
           NEW place \in [node : DOMAIN t, at : 0 .. Len(ids)], Descends(t, ids, place)
    PROVE  LET next == Descended(t, ids, place)
           IN  /\ next \in [node : DOMAIN t, at : 0 .. Len(ids)]
               /\ place.at < next.at
               /\ Place(t, ids, place) => Place(t, ids, next)
<1> DEFINE c == ChildAt(t, ids, place)
           n == Matched(t, ids, place)
           edge == t[c].tokens
           next == [node |-> c, at |-> place.at + n]
<1>1. HasChild(t, ids, place) /\ n = Len(edge)
  BY DEF Descends
<1>2. /\ c \in DOMAIN t /\ edge \in Seq(Symbols)
      /\ Edge(t, place.node, ids[place.at + 1])
      /\ n \in 1 .. Len(edge) /\ place.at + n <= Len(ids)
      /\ \A i \in 1 .. n : edge[i] = ids[place.at + i]
      /\ n < Len(edge) /\ place.at + n < Len(ids) => edge[n + 1] # ids[place.at + n + 1]
  <2>1. MatchedKnown(t, ids, place)
    BY <1>1, MatchedFacts
  <2> QED
    BY <2>1 DEF MatchedKnown
<1>3. Descended(t, ids, place) = next
  BY DEF Descended, Reached
<1>4. next \in [node : DOMAIN t, at : 0 .. Len(ids)] /\ place.at < next.at
  BY <1>2
<1>5. ASSUME Place(t, ids, place) PROVE Place(t, ids, next)
  <2>1. place.at = Len(place.node) /\ Below(place.node, ids) /\ place.node \in DOMAIN t
    BY <1>5 DEF Place
  <2>2. /\ Len(place.node) < Len(c) /\ Below(place.node, c)
        /\ n = Len(c) - Len(place.node)
        /\ \A i \in 1 .. n : edge[i] = c[Len(place.node) + i]
    BY <1>1, <1>2 DEF Edge, Hangs, ChildAt
  <2>3. c \in Seq(Symbols) /\ place.node \in Seq(Symbols)
        /\ Len(c) \in Nat /\ Len(place.node) \in Nat /\ n \in Nat
    BY <1>2, <2>1 DEF TreeShape
  <2> HIDE DEF c, n, edge
  <2>4. ASSUME NEW i \in 1 .. Len(c) PROVE c[i] = ids[i]
    <3>1. CASE i <= Len(place.node)
      BY <2>1, <2>2, <2>3, <3>1 DEF Below
    <3>2. CASE i > Len(place.node)
      <4>1. i - Len(place.node) \in 1 .. n
        BY <2>2, <2>3, <3>2
      <4>2. edge[i - Len(place.node)] = c[Len(place.node) + (i - Len(place.node))]
            /\ edge[i - Len(place.node)] = ids[place.at + (i - Len(place.node))]
        BY <1>2, <2>2, <4>1
      <4>3. Len(place.node) + (i - Len(place.node)) = i
        BY <2>3
      <4> QED
        BY <2>1, <4>2, <4>3
    <3> QED
      BY <2>3, <3>1, <3>2
  <2>5. Below(c, ids)
    BY <1>2, <2>1, <2>2, <2>3, <2>4 DEF Below
  <2>6. next.at = Len(next.node)
    BY <2>1, <2>2, <2>3
  <2> QED
    BY <1>4, <2>5, <2>6 DEF Place
<1> QED
  BY <1>3, <1>4, <1>5

LEMMA WalkEnds ==
    ASSUME NEW t, TreeShape(t), NEW ids \in Seq(Symbols)
    PROVE  Place(t, ids, Walk(t, ids)) /\ ~Descends(t, ids, Walk(t, ids))
<1> DEFINE D == [node : DOMAIN t, at : 0 .. Len(ids)]
           Stops == {p \in D : ~Descends(t, ids, p)}
           next == [p \in D |-> Descended(t, ids, p)]
           rank == [p \in D |-> Len(ids) - p.at]
           Solves(f) == f = [p \in D |-> IF Descends(t, ids, p) THEN f[Descended(t, ids, p)] ELSE p]
           walk == CHOOSE f : Solves(f)
<1>1. Walk(t, ids) = walk[[node |-> Root, at |-> 0]]
  BY DEF Walk
<1>2. \E f : Solves(f)
  <2>1. Len(ids) \in Nat /\ \A p \in D : rank[p] \in 0 .. Len(ids)
    OBVIOUS
  <2>2. ASSUME NEW p \in D \ Stops PROVE next[p] \in D /\ rank[next[p]] < rank[p]
    <3>1. Descended(t, ids, p) \in D /\ p.at < Descended(t, ids, p).at
      BY DescendedPlace
    <3>2. p.at \in Nat /\ Descended(t, ids, p).at \in Nat
      BY <3>1
    <3> QED
      BY <3>1, <3>2
  <2>3. PICK f : \A p \in D : f[p] = IF p \in Stops THEN p ELSE f[next[p]]
    <3> HIDE DEF D, Stops, next, rank
    <3>1. Terminates(D, Stops, next, rank, Len(ids))
      BY <2>1, <2>2 DEF Terminates
    <3> QED
      BY <3>1, Loop
  <2> DEFINE g == [p \in D |-> f[p]]
  <2>4. ASSUME NEW p \in D
        PROVE g[p] = IF Descends(t, ids, p) THEN g[Descended(t, ids, p)] ELSE p
    <3>1. Descends(t, ids, p) => Descended(t, ids, p) \in D
      BY DescendedPlace
    <3> HIDE DEF D
    <3> QED
      BY <2>3, <3>1
  <2>5. Solves(g)
    <3> HIDE DEF D
    <3>1. g = [p \in D |-> g[p]]
      OBVIOUS
    <3> HIDE DEF g
    <3> QED
      BY <2>4, <3>1
  <2> HIDE DEF Solves
  <2> QED
    BY <2>5
<1>3. Solves(walk)
  <2> HIDE DEF Solves
  <2> QED
    BY <1>2
<1> HIDE DEF walk
<1>4. \A p \in D : walk[p] = IF Descends(t, ids, p) THEN walk[Descended(t, ids, p)] ELSE p
  <2> HIDE DEF D
  <2> QED
    BY <1>3
<1> DEFINE Good(p) == Place(t, ids, walk[p]) /\ ~Descends(t, ids, walk[p])
           T == {n \in Nat : \A p \in D : Place(t, ids, p) /\ Len(ids) - p.at <= n => Good(p)}
<1>5. ASSUME NEW p \in D, Place(t, ids, p), ~Descends(t, ids, p) PROVE Good(p)
  BY <1>4, <1>5
<1>6. ASSUME NEW p \in D, Descends(t, ids, p), Place(t, ids, p)
      PROVE  /\ Place(t, ids, Descended(t, ids, p)) /\ Descended(t, ids, p) \in D
             /\ p.at < Descended(t, ids, p).at /\ walk[p] = walk[Descended(t, ids, p)]
             /\ p.at \in Nat /\ Descended(t, ids, p).at \in 0 .. Len(ids)
  <2>1. /\ Place(t, ids, Descended(t, ids, p)) /\ Descended(t, ids, p) \in D
        /\ p.at < Descended(t, ids, p).at
    BY <1>6, DescendedPlace
  <2> QED
    BY <1>4, <1>6, <2>1
<1>7. 0 \in T
  <2> SUFFICES ASSUME NEW p \in D, Place(t, ids, p), Len(ids) - p.at <= 0 PROVE Good(p)
    BY Zenon
  <2>1. ~Descends(t, ids, p)
    BY <1>6
  <2> QED
    BY <1>5, <2>1
<1>8. ASSUME NEW n \in Nat, n \in T PROVE n + 1 \in T
  <2> SUFFICES ASSUME NEW p \in D, Place(t, ids, p), Len(ids) - p.at <= n + 1 PROVE Good(p)
    <3> HIDE DEF D, Good
    <3> QED
      OBVIOUS
  <2>1. CASE ~Descends(t, ids, p)
    BY <1>5, <2>1
  <2>2. CASE Descends(t, ids, p)
    <3>1. /\ Place(t, ids, Descended(t, ids, p)) /\ Descended(t, ids, p) \in D
          /\ p.at < Descended(t, ids, p).at /\ walk[p] = walk[Descended(t, ids, p)]
          /\ p.at \in Nat /\ Descended(t, ids, p).at \in 0 .. Len(ids)
      BY <1>6, <2>2
    <3>2. Len(ids) - Descended(t, ids, p).at <= n
      BY <3>1
    <3> HIDE DEF D
    <3>3. Good(Descended(t, ids, p))
      BY <1>8, <3>1, <3>2
    <3> QED
      BY <3>1, <3>3
  <2> QED
    BY <2>1, <2>2
<1>9. Len(ids) \in T
  <2> HIDE DEF T
  <2> QED
    BY <1>7, <1>8, Upwards
<1>10. LET first == [node |-> Root, at |-> 0]
       IN  first \in D /\ Place(t, ids, first) /\ Len(ids) - first.at <= Len(ids)
  BY RootName DEF Place, Below, TreeShape
<1>11. Good([node |-> Root, at |-> 0])
  BY <1>9, <1>10
<1> QED
  BY <1>1, <1>11

\* No node below what is searched is deeper than where the walk ends.
LEMMA WalkDeepest ==
    ASSUME NEW t, TreeShape(t), NEW ids \in Seq(Symbols), NEW m \in DOMAIN t, Below(m, ids)
    PROVE  Below(m, Walk(t, ids).node)
<1> DEFINE place == Walk(t, ids)
           node == place.node
<1> SUFFICES Below(m, node)
  OBVIOUS
<1>1. Place(t, ids, place) /\ ~Descends(t, ids, place)
  BY WalkEnds
<1>2. /\ place \in [node : DOMAIN t, at : 0 .. Len(ids)] /\ node \in DOMAIN t
      /\ place.at = Len(node) /\ Below(node, ids)
  BY <1>1 DEF Place
<1> HIDE DEF place
<1>3. m \in Seq(Symbols) /\ node \in Seq(Symbols) /\ Len(m) \in Nat /\ Len(node) \in Nat
  BY <1>2 DEF TreeShape
<1>4. CASE Len(m) <= Len(node)
  BY <1>2, <1>3, <1>4, TwoBelow
<1>5. CASE Len(node) < Len(m)
  <2>1. Below(node, m)
    BY <1>2, <1>3, <1>5, TwoBelow
  <2>2. OnPath(t, node, m)
    BY <1>2, <1>5, <2>1, Path
  <2>3. m[Len(node) + 1] = ids[Len(node) + 1] /\ Len(node) < Len(ids)
    BY <1>3, <1>5 DEF Below
  <2>4. HasChild(t, ids, place)
    BY <1>2, <2>2, <2>3 DEF HasChild, OnPath
  <2> DEFINE c == ChildAt(t, ids, place)
             n == Matched(t, ids, place)
             edge == t[c].tokens
  <2>5. /\ c \in DOMAIN t /\ edge \in Seq(Symbols)
        /\ Edge(t, node, ids[place.at + 1])
        /\ n \in 1 .. Len(edge) /\ place.at + n <= Len(ids)
        /\ n < Len(edge) /\ place.at + n < Len(ids) => edge[n + 1] # ids[place.at + n + 1]
    BY <1>2, <2>4, MatchedFacts DEF MatchedKnown
  <2>6. c = t[node].children[m[Len(node) + 1]]
    BY <1>2, <2>3 DEF ChildAt
  <2>7. /\ Len(edge) = Len(c) - Len(node)
        /\ \A i \in 1 .. Len(c) - Len(node) : edge[i] = c[Len(node) + i]
    <3>1. Edge(t, node, m[Len(node) + 1])
      BY <1>2, <2>3, <2>5
    <3> HIDE DEF node, c
    <3> QED
      BY <2>6, <3>1 DEF Edge
  <2>8. c \in Seq(Symbols) /\ Len(c) \in Nat
    BY <2>5 DEF TreeShape
  <2> HIDE DEF c, n, edge
  <2>9. Below(c, ids)
    BY <1>3, <2>2, <2>6, <2>8, BelowTransitive DEF OnPath
  <2>10. n # Len(edge)
    BY <1>1, <2>4 DEF Descends, c, n, edge
  <2>11. n + 1 <= Len(edge) /\ n \in Nat
    BY <2>5, <2>10
  <2>12. Len(node) + n + 1 <= Len(c) /\ Len(c) <= Len(ids)
    <3>1. Len(c) <= Len(ids)
      BY <2>9 DEF Below
    <3>2. n + 1 <= Len(c) - Len(node)
      BY <2>7, <2>11
    <3>3. n \in Nat /\ Len(node) \in Nat /\ Len(c) \in Nat
      BY <1>3, <2>8, <2>11
    <3> HIDE DEF node
    <3> QED
      BY <3>1, <3>2, <3>3
  <2>13. edge[n + 1] = c[Len(node) + (n + 1)]
    <3> HIDE DEF node
    <3>1. n + 1 \in 1 .. Len(c) - Len(node)
      BY <1>3, <2>7, <2>8, <2>11
    <3> QED
      BY <2>7, <3>1
  <2>14. c[Len(node) + n + 1] = ids[Len(node) + n + 1]
    BY <1>3, <2>8, <2>9, <2>11, <2>12 DEF Below
  <2> QED
    BY <1>2, <1>3, <2>5, <2>8, <2>11, <2>12, <2>13, <2>14
<1> QED
  BY <1>3, <1>4, <1>5

----------------------------------------------------------------------------
(* The climb ends at the deepest payload above its node, so match() finds the longest. *)

LEMMA StrictlyFewer ==
    ASSUME NEW S, IsFiniteSet(S), NEW T, T \subseteq S, NEW x \in S, x \notin T
    PROVE  /\ Cardinality(T) \in Nat /\ Cardinality(S) \in Nat
           /\ Cardinality(T) < Cardinality(S)
<1>1. IsFiniteSet(T) /\ Cardinality(T) <= Cardinality(S) /\ Cardinality(S) # Cardinality(T)
  BY FS_Subset
<1>2. Cardinality(T) \in Nat /\ Cardinality(S) \in Nat
  BY <1>1, FS_CardinalityType
<1> QED
  BY <1>1, <1>2

LEMMA OneParent ==
    ASSUME NEW t, TreeShape(t), NEW c \in DOMAIN t, NEW p \in DOMAIN t, NEW q \in DOMAIN t,
           Hangs(t, p, c), Hangs(t, q, c)
    PROVE  p = q
<1>1. /\ c \in Seq(Symbols) /\ p \in Seq(Symbols) /\ q \in Seq(Symbols)
      /\ Len(c) \in Nat /\ Len(p) \in Nat /\ Len(q) \in Nat
  BY DEF TreeShape
<1>2. ASSUME NEW a \in DOMAIN t, NEW b \in DOMAIN t, a \in Seq(Symbols), b \in Seq(Symbols),
             Hangs(t, a, c), Hangs(t, b, c), Len(a) < Len(b)
      PROVE  FALSE
  <2>1. Below(a, b) /\ Below(a, c) /\ Below(b, c) /\ Len(b) < Len(c)
    BY <1>1, <1>2, TwoBelow DEF Hangs
  <2>2. OnPath(t, a, b)
    BY <1>2, <2>1, Path
  <2>3. b[Len(a) + 1] = c[Len(a) + 1]
    BY <1>2, <2>1 DEF Below
  <2>4. Below(c, b)
    BY <1>2, <2>2, <2>3 DEF OnPath, Hangs
  <2> QED
    BY <1>1, <1>2, <2>1, <2>4 DEF Below
<1>3. Len(p) = Len(q)
  BY <1>1, <1>2
<1> QED
  BY <1>1, <1>3, TwoBelow DEF Hangs

LEMMA ParentHangs ==
    ASSUME NEW t, TreeShape(t), NEW c \in DOMAIN t, c # Root
    PROVE  ParentOf(t, c) \in DOMAIN t /\ Hangs(t, ParentOf(t, c), c)
<1>1. PICK p \in DOMAIN t : Hangs(t, p, c)
  BY DEF TreeShape
<1>2. c \in Children(t, p)
  BY <1>1 DEF Hangs, Children, Range
<1>3. ParentOf(t, c) \in DOMAIN t /\ c \in Children(t, ParentOf(t, c))
  BY <1>1, <1>2 DEF ParentOf
<1>4. PICK x \in DOMAIN t[ParentOf(t, c)].children : c = t[ParentOf(t, c)].children[x]
  BY <1>3 DEF Children, Range
<1> QED
  BY <1>3, <1>4 DEF TreeShape, Edge

\* Between a node and its parent there is nothing.
LEMMA ParentDeepest ==
    ASSUME NEW t, TreeShape(t), NEW c \in DOMAIN t, NEW p \in DOMAIN t, Hangs(t, p, c),
           NEW m \in DOMAIN t, Below(m, c), m # c
    PROVE  Below(m, p)
<1>1. /\ c \in Seq(Symbols) /\ p \in Seq(Symbols) /\ m \in Seq(Symbols)
      /\ Len(c) \in Nat /\ Len(p) \in Nat /\ Len(m) \in Nat
      /\ Len(p) < Len(c) /\ Below(p, c)
  BY DEF TreeShape, Hangs
<1>2. CASE Len(m) <= Len(p)
  BY <1>1, <1>2, TwoBelow
<1>3. CASE Len(p) < Len(m)
  <2>1. Below(p, m)
    BY <1>1, <1>3, TwoBelow
  <2>2. OnPath(t, p, m)
    BY <1>3, <2>1, Path
  <2>3. m[Len(p) + 1] = c[Len(p) + 1]
    BY <1>1, <1>3 DEF Below
  <2>4. Below(c, m)
    BY <2>2, <2>3 DEF OnPath, Hangs
  <2>5. m = c
    BY <1>1, <2>4, SameSequence DEF Below
  <2> QED
    BY <2>5
<1> QED
  BY <1>1, <1>2, <1>3

LEMMA ClimbEnds ==
    ASSUME NEW t, TreeShape(t), NEW n \in DOMAIN t
    PROVE  LET hit == Climb(t, n)
           IN  /\ hit \in DOMAIN t /\ Below(hit, n)
               /\ hit \in Payloads(t) \/ hit = Root
               /\ \A m \in Payloads(t) : Below(m, n) => Below(m, hit)
<1> DEFINE D == DOMAIN t
           Stops == {m \in D : HasPayload(t, m) \/ m = Root}
           next == [m \in D |-> ParentOf(t, m)]
           Shorter(m) == {l \in D : Len(l) < Len(m)}
           rank == [m \in D |-> Cardinality(Shorter(m))]
           Solves(f) == f = [m \in D |-> IF HasPayload(t, m) \/ m = Root THEN m
                                         ELSE f[ParentOf(t, m)]]
           climb == CHOOSE f : Solves(f)
<1>1. Climb(t, n) = climb[n]
  BY DEF Climb
<1>2. IsFiniteSet(D) /\ \A m \in D : m \in Seq(Symbols) /\ Len(m) \in Nat
  BY DEF TreeShape
<1>3. ASSUME NEW m \in D, m \notin Stops
      PROVE  /\ ParentOf(t, m) \in D /\ Hangs(t, ParentOf(t, m), m)
             /\ Len(ParentOf(t, m)) < Len(m)
  BY <1>3, ParentHangs DEF Hangs
<1>4. Terminates(D, Stops, next, rank, Cardinality(D))
  <2>1. ASSUME NEW m \in D
        PROVE  rank[m] \in 0 .. Cardinality(D) /\ Cardinality(D) \in Nat
    <3>1. /\ IsFiniteSet(Shorter(m)) /\ Cardinality(Shorter(m)) <= Cardinality(D)
      BY <1>2, FS_Subset
    <3>2. Cardinality(Shorter(m)) \in Nat /\ Cardinality(D) \in Nat
      BY <1>2, <3>1, FS_CardinalityType
    <3> QED
      BY <3>1, <3>2
  <2>2. ASSUME NEW m \in D \ Stops PROVE next[m] \in D /\ rank[next[m]] < rank[m]
    <3> DEFINE p == ParentOf(t, m)
    <3>1. p \in D /\ Len(p) < Len(m)
      BY <1>3
    <3>2. p \in Shorter(m) /\ p \notin Shorter(p) /\ Shorter(p) \subseteq Shorter(m)
      BY <1>2, <3>1
    <3>3. IsFiniteSet(Shorter(m))
      BY <1>2, FS_Subset
    <3>4. Cardinality(Shorter(p)) < Cardinality(Shorter(m))
      <4> HIDE DEF Shorter, p
      <4> QED
        BY <3>2, <3>3, StrictlyFewer
    <3>5. next[m] = p /\ rank[p] = Cardinality(Shorter(p)) /\ rank[m] = Cardinality(Shorter(m))
      <4> HIDE DEF Shorter
      <4> QED
        BY <3>1
    <3> QED
      BY <3>1, <3>4, <3>5
  <2>3. Cardinality(D) \in Nat
    BY <1>2, FS_CardinalityType
  <2> HIDE DEF D, Stops, next, rank
  <2> QED
    BY <2>1, <2>2, <2>3 DEF Terminates
<1>5. \E f : Solves(f)
  <2>1. PICK f : \A m \in D : f[m] = IF m \in Stops THEN m ELSE f[next[m]]
    <3> HIDE DEF D, Stops, next, rank
    <3> QED
      BY <1>4, Loop
  <2> DEFINE g == [m \in D |-> f[m]]
  <2>2. ASSUME NEW m \in D
        PROVE  g[m] = IF HasPayload(t, m) \/ m = Root THEN m ELSE g[ParentOf(t, m)]
    <3>1. m \notin Stops => ParentOf(t, m) \in D
      BY <1>3
    <3> HIDE DEF D
    <3> QED
      BY <2>1, <3>1
  <2>3. Solves(g)
    <3> HIDE DEF D
    <3>1. g = [m \in D |-> g[m]]
      OBVIOUS
    <3> HIDE DEF g
    <3> QED
      BY <2>2, <3>1
  <2> HIDE DEF Solves
  <2> QED
    BY <2>3
<1>6. Solves(climb)
  <2> HIDE DEF Solves
  <2> QED
    BY <1>5
<1> HIDE DEF climb
<1>7. \A m \in D : climb[m] = IF HasPayload(t, m) \/ m = Root THEN m ELSE climb[ParentOf(t, m)]
  <2> HIDE DEF D
  <2> QED
    BY <1>6
<1> DEFINE Good(m) ==
             /\ climb[m] \in D /\ Below(climb[m], m)
             /\ climb[m] \in Payloads(t) \/ climb[m] = Root
             /\ \A l \in Payloads(t) : Below(l, m) => Below(l, climb[m])
           T == {k \in Nat : \A m \in D : Len(m) <= k => Good(m)}
<1>8. ASSUME NEW m \in D, m \in Stops PROVE Good(m)
  <2>1. climb[m] = m
    BY <1>7, <1>8
  <2>2. Below(m, m)
    BY <1>2 DEF Below
  <2> QED
    BY <1>8, <2>1, <2>2 DEF Payloads
<1>9. 0 \in T
  <2>1. ASSUME NEW m \in D, Len(m) <= 0 PROVE Good(m)
    <3>1. m = Root
      BY <1>2, <2>1, OnlyRootEmpty
    <3> HIDE DEF Good
    <3> QED
      BY <1>8, <3>1
  <2> HIDE DEF Good, D
  <2> QED
    BY <2>1
<1>10. ASSUME NEW k \in Nat, k \in T PROVE k + 1 \in T
  <2>1. ASSUME NEW m \in D, Len(m) <= k + 1 PROVE Good(m)
    <3>1. CASE m \in Stops
      <4> HIDE DEF Good
      <4> QED
        BY <1>8, <3>1
    <3>2. CASE m \notin Stops
      <4> DEFINE p == ParentOf(t, m)
      <4>1. p \in D /\ Hangs(t, p, m) /\ Len(p) < Len(m)
        BY <1>3, <3>2
      <4>2. Good(p)
        <5>1. Len(p) <= k
          BY <1>2, <2>1, <4>1
        <5> HIDE DEF D, Good, p
        <5> QED
          BY <1>10, <4>1, <5>1
      <4>3. climb[m] = climb[p]
        BY <1>7, <3>2
      <4>4. Below(p, m)
        BY <4>1 DEF Hangs
      <4>5. Below(climb[p], m)
        BY <1>2, <4>1, <4>2, <4>4, BelowTransitive
      <4>6. ASSUME NEW l \in Payloads(t), Below(l, m) PROVE Below(l, climb[p])
        <5>1. l \in D /\ l # m
          BY <3>2 DEF Payloads
        <5>2. Below(l, p)
          BY <4>1, <4>6, <5>1, ParentDeepest
        <5> QED
          BY <4>2, <5>2
      <4> HIDE DEF p
      <4> QED
        BY <4>2, <4>3, <4>5, <4>6
    <3> QED
      BY <3>1, <3>2
  <2> HIDE DEF Good, D
  <2> QED
    BY <2>1
<1>11. Len(n) \in T
  <2>1. Len(n) \in Nat
    BY <1>2
  <2> HIDE DEF T
  <2> QED
    BY <1>9, <1>10, <2>1, Upwards
<1>12. Good(n)
  <2> HIDE DEF Good, D
  <2>1. n \in D /\ Len(n) <= Len(n)
    BY <1>2 DEF D
  <2> QED
    BY <1>11, <2>1
<1> QED
  BY <1>1, <1>12

----------------------------------------------------------------------------
(* A tree of this shape is what TreeSpellsPrefixes and MatchFindsLongest say. *)

LEMMA ShapeSpells ==
    ASSUME TreeShape(tree)
    PROVE  TreeSpellsPrefixes
<1> SUFFICES ASSUME NEW c \in DOMAIN tree, c # Root
             PROVE  /\ tree[c].nPrefix = Len(c)
                    /\ \E p \in DOMAIN tree :
                         /\ c = p \o tree[c].tokens
                         /\ tree[c].tokens # <<>>
                         /\ Head(tree[c].tokens) \in DOMAIN tree[p].children
                         /\ tree[p].children[Head(tree[c].tokens)] = c
                         /\ \A other \in DOMAIN tree \ {p} : c \notin Children(tree, other)
  BY DEF TreeSpellsPrefixes
<1>1. PICK p \in DOMAIN tree : Hangs(tree, p, c)
  BY DEF TreeShape
<1> DEFINE x == c[Len(p) + 1]
           tokens == tree[c].tokens
<1>2. x \in DOMAIN tree[p].children /\ tree[p].children[x] = c /\ Edge(tree, p, x)
  BY <1>1 DEF Hangs, TreeShape
<1>3. /\ tokens \in Seq(Symbols) /\ c \in Seq(Symbols) /\ p \in Seq(Symbols)
      /\ Len(c) \in Nat /\ Len(p) \in Nat /\ Len(p) < Len(c) /\ Below(p, c)
  BY <1>1, SMTT(30) DEF TreeShape, IsNode, Hangs
<1>4. /\ Len(tokens) = Len(c) - Len(p)
      /\ \A i \in 1 .. Len(c) - Len(p) : tokens[i] = c[Len(p) + i]
  BY <1>2 DEF Edge
<1>5. tokens # <<>> /\ Head(tokens) = x
  BY <1>3, <1>4
<1>6. c = p \o tokens
  <2> DEFINE joined == p \o tokens
  <2> HIDE DEF tokens
  <2>1. /\ joined \in Seq(Symbols) /\ Len(joined) = Len(c)
        /\ \A i \in 1 .. Len(p) : joined[i] = p[i]
        /\ \A i \in Len(p) + 1 .. Len(c) : joined[i] = tokens[i - Len(p)]
    BY <1>3, <1>4
  <2> HIDE DEF joined
  <2>2. ASSUME NEW i \in 1 .. Len(c) PROVE c[i] = joined[i]
    <3>1. CASE i <= Len(p)
      BY <1>3, <2>1, <3>1 DEF Below
    <3>2. CASE i > Len(p)
      <4>1. i - Len(p) \in 1 .. Len(c) - Len(p) /\ i = Len(p) + (i - Len(p))
        BY <1>3, <3>2
      <4>2. tokens[i - Len(p)] = c[i]
        BY <1>4, <4>1
      <4>3. joined[i] = tokens[i - Len(p)]
        BY <1>3, <2>1, <3>2
      <4> QED
        BY <4>2, <4>3
    <3> QED
      BY <1>3, <3>1, <3>2
  <2>3. c = joined
    BY <1>3, <2>1, <2>2, SameSequence
  <2> QED
    BY <2>3 DEF joined
<1>7. ASSUME NEW other \in DOMAIN tree \ {p}, c \in Children(tree, other) PROVE FALSE
  <2>1. PICK y \in DOMAIN tree[other].children : c = tree[other].children[y]
    BY <1>7 DEF Children, Range
  <2>2. Hangs(tree, other, c)
    BY <2>1 DEF TreeShape, Edge
  <2> QED
    BY <1>1, <2>2, OneParent
<1>8. tree[c].nPrefix = Len(c)
  BY DEF TreeShape
<1> QED
  BY <1>2, <1>5, <1>6, <1>7, <1>8

LEMMA ShapeMatches ==
    ASSUME RadixAssumption, TreeShape(tree)
    PROVE  MatchFindsLongest
<1> SUFFICES ASSUME NEW ids \in Prompts
             PROVE  LET hit == Climb(tree, Walk(tree, ids).node)
                        stored == {node \in Stored : IsPrefix(node, ids)}
                    IN  IF stored = {} THEN hit = Root
                        ELSE hit \in stored /\ \A node \in stored : Len(node) <= Len(hit)
  BY DEF MatchFindsLongest
<1> DEFINE last == Walk(tree, ids).node
           hit == Climb(tree, last)
           stored == {node \in Stored : IsPrefix(node, ids)}
<1>1. ids \in Seq(Symbols)
  BY DEF RadixAssumption
<1>2. last \in DOMAIN tree /\ Below(last, ids)
  BY <1>1, WalkEnds DEF Place
<1>3. /\ hit \in DOMAIN tree /\ Below(hit, last)
      /\ hit \in Stored \/ hit = Root
      /\ \A m \in Stored : Below(m, last) => Below(m, hit)
  <2> HIDE DEF last
  <2> QED
    BY <1>2, ClimbEnds DEF Stored
<1>4. Stored \subseteq DOMAIN tree /\ Root \notin Stored
  BY DEF Stored, Payloads, HasPayload, TreeShape
<1>5. \A m \in DOMAIN tree : m \in Seq(Symbols) /\ Len(m) \in Nat
  BY DEF TreeShape
<1>6. ASSUME NEW m \in stored PROVE Below(m, hit) /\ Len(m) <= Len(hit)
  <2>1. m \in Stored /\ m \in DOMAIN tree /\ Below(m, ids)
    BY <1>1, <1>4, <1>5, PrefixBelow
  <2>2. Below(m, last)
    BY <1>1, <2>1, WalkDeepest
  <2>3. Below(m, hit)
    BY <1>3, <2>1, <2>2
  <2> QED
    BY <2>3 DEF Below
<1> HIDE DEF last, hit
<1>7. hit \in Stored => hit \in stored
  <2>1. Below(hit, ids)
    BY <1>1, <1>2, <1>3, <1>5, BelowTransitive
  <2> QED
    BY <1>1, <1>3, <1>5, <2>1, PrefixBelow
<1>8. CASE stored = {}
  BY <1>3, <1>7, <1>8 DEF hit, last
<1>9. CASE stored # {}
  <2>1. PICK m \in stored : TRUE
    BY <1>9
  <2>2. m \in Stored /\ m \in DOMAIN tree /\ m # Root
    BY <1>4
  <2>3. Len(m) > 0
    BY <1>5, <2>2, OnlyRootEmpty
  <2>4. hit # Root
    BY <1>5, <1>6, <2>2, <2>3, RootName
  <2>5. hit \in stored
    BY <1>3, <1>7, <2>4
  <2> HIDE DEF stored
  <2>6. hit \in stored /\ \A node \in stored : Len(node) <= Len(hit)
    BY <1>6, <2>5
  <2> QED
    BY <1>9, <2>6 DEF hit, last, stored
<1> QED
  BY <1>8, <1>9

----------------------------------------------------------------------------
(* What the operations do to a tree. *)

LEMMA PutFacts ==
    ASSUME NEW f, NEW x, NEW y
    PROVE  /\ DOMAIN Put(f, x, y) = DOMAIN f \cup {x}
           /\ Put(f, x, y)[x] = y
           /\ \A z \in DOMAIN f : z # x => Put(f, x, y)[z] = f[z]
BY DEF Put

\* A leaf for the rest of target under a node whose name is a prefix of it.
LEMMA LeafFields ==
    ASSUME NEW t, TreeShape(t), NEW target \in Seq(Symbols), target \notin DOMAIN t,
           NEW parent \in DOMAIN t, Len(parent) < Len(target), Below(parent, target)
    PROVE  LET s == WithLeaf(t, parent, Len(parent), target)
               x == target[Len(parent) + 1]
           IN  /\ DOMAIN s = DOMAIN t \cup {target}
               /\ IsNode(s[target]) /\ s[target].nPrefix = Len(target)
               /\ s[target].kv = <<>> /\ s[target].children = <<>>
               /\ Len(s[target].tokens) = Len(target) - Len(parent)
               /\ \A i \in 1 .. Len(target) - Len(parent) :
                    s[target].tokens[i] = target[Len(parent) + i]
               /\ \A n \in DOMAIN t :
                    /\ IsNode(s[n]) /\ s[n].nPrefix = t[n].nPrefix
                    /\ s[n].tokens = t[n].tokens /\ s[n].kv = t[n].kv
                    /\ s[n].children = IF n = parent THEN Put(t[n].children, x, target)
                                       ELSE t[n].children
<1> DEFINE at == Len(parent)
           rest == SubSeq(target, at + 1, Len(target))
           x == target[at + 1]
           hung == [t EXCEPT ![parent].children = Put(@, Head(rest), target)]
           leaf == NewNode(rest, Len(target))
           s == Put(hung, target, leaf)
<1>1. parent \in Seq(Symbols) /\ at \in Nat /\ Len(target) \in Nat
  BY DEF TreeShape
<1>2. /\ rest \in Seq(Symbols) /\ Len(rest) = Len(target) - at
      /\ \A i \in 1 .. Len(target) - at : rest[i] = target[at + i]
  BY <1>1
<1>3. Head(rest) = x
  BY <1>1, <1>2
<1>4. WithLeaf(t, parent, at, target) = s
  BY DEF WithLeaf
<1> HIDE DEF rest
<1>5. DOMAIN hung = DOMAIN t
  OBVIOUS
<1>6. /\ DOMAIN s = DOMAIN t \cup {target} /\ s[target] = leaf
      /\ \A n \in DOMAIN t : s[n] = hung[n]
  <2> HIDE DEF hung, leaf
  <2>1. \A n \in DOMAIN t : n # target
    OBVIOUS
  <2> QED
    BY <1>5, <2>1 DEF Put
<1>7. /\ IsNode(leaf) /\ leaf.nPrefix = Len(target) /\ leaf.kv = <<>>
      /\ leaf.children = <<>> /\ leaf.tokens = rest
  BY <1>2 DEF NewNode, IsNode
<1>8. ASSUME NEW n \in DOMAIN t
      PROVE  /\ IsNode(hung[n]) /\ hung[n].nPrefix = t[n].nPrefix
             /\ hung[n].tokens = t[n].tokens /\ hung[n].kv = t[n].kv
             /\ hung[n].children = IF n = parent THEN Put(t[n].children, x, target)
                                   ELSE t[n].children
  <2>1. IsNode(t[n])
    BY DEF TreeShape
  <2>2. CASE n # parent
    BY <2>1, <2>2
  <2>3. CASE n = parent
    <3> DEFINE put == Put(t[n].children, x, target)
    <3>1. hung[n] = [t[n] EXCEPT !.children = put]
      BY <1>3, <2>3
    <3> HIDE DEF put, hung
    <3> QED
      BY <2>1, <2>3, <3>1 DEF IsNode, put
  <2> QED
    BY <2>2, <2>3
<1> HIDE DEF hung, leaf, s
<1> QED
  BY <1>2, <1>4, <1>6, <1>7, <1>8

LEMMA LeafShape ==
    ASSUME NEW t, TreeShape(t), NEW target \in Seq(Symbols), target \notin DOMAIN t,
           NEW parent \in DOMAIN t, Len(parent) < Len(target), Below(parent, target),
           target[Len(parent) + 1] \notin DOMAIN t[parent].children
    PROVE  TreeShape(WithLeaf(t, parent, Len(parent), target))
<1> DEFINE s == WithLeaf(t, parent, Len(parent), target)
           x == target[Len(parent) + 1]
<1>1. /\ DOMAIN s = DOMAIN t \cup {target}
      /\ IsNode(s[target]) /\ s[target].nPrefix = Len(target)
      /\ s[target].kv = <<>> /\ s[target].children = <<>>
      /\ Len(s[target].tokens) = Len(target) - Len(parent)
      /\ \A i \in 1 .. Len(target) - Len(parent) :
           s[target].tokens[i] = target[Len(parent) + i]
      /\ \A n \in DOMAIN t :
           /\ IsNode(s[n]) /\ s[n].nPrefix = t[n].nPrefix
           /\ s[n].tokens = t[n].tokens /\ s[n].kv = t[n].kv
           /\ s[n].children = IF n = parent THEN Put(t[n].children, x, target)
                              ELSE t[n].children
  BY LeafFields, ZenonT(60)
<1> HIDE DEF s
<1>3. DOMAIN s \subseteq Seq(Symbols) /\ IsFiniteSet(DOMAIN s)
  BY <1>1, FS_AddElement DEF TreeShape
<1>4. Root \in DOMAIN s /\ s[Root].kv = <<>>
  BY <1>1 DEF TreeShape
<1>5. \A n \in DOMAIN s : IsNode(s[n]) /\ s[n].nPrefix = Len(n)
  BY <1>1 DEF TreeShape
<1>6. ASSUME NEW n \in DOMAIN t, NEW y \in DOMAIN t[n].children
      PROVE  /\ y \in DOMAIN s[n].children /\ s[n].children[y] = t[n].children[y]
             /\ Edge(s, n, y)
  <2>1. Edge(t, n, y)
    BY DEF TreeShape
  <2>2. n = parent => y # x
    OBVIOUS
  <2> HIDE DEF x
  <2>3. y \in DOMAIN s[n].children /\ s[n].children[y] = t[n].children[y]
    <3>1. CASE n # parent
      BY <1>1, <3>1
    <3>2. CASE n = parent
      <4>1. s[n].children = Put(t[n].children, x, target)
        BY <1>1, <3>2
      <4> QED
        BY <2>2, <3>2, <4>1 DEF Put
    <3> QED
      BY <3>1, <3>2
  <2>4. t[n].children[y] \in DOMAIN t
    BY <2>1 DEF Edge
  <2>5. s[t[n].children[y]].tokens = t[t[n].children[y]].tokens
    BY <1>1, <2>4
  <2>6. Hangs(t, n, t[n].children[y]) /\ y = t[n].children[y][Len(n) + 1]
    BY <2>1 DEF Edge
  <2>7. Hangs(s, n, t[n].children[y])
    BY <2>3, <2>6 DEF Hangs
  <2>8. t[n].children[y] \in DOMAIN s
    BY <1>1, <2>4
  <2> QED
    BY <2>1, <2>3, <2>5, <2>6, <2>7, <2>8 DEF Edge
<1>7. x \in DOMAIN s[parent].children /\ s[parent].children[x] = target /\ Edge(s, parent, x)
  <2>1. x \in DOMAIN s[parent].children /\ s[parent].children[x] = target
    BY <1>1 DEF Put
  <2>2. Hangs(s, parent, target)
    BY <2>1 DEF Hangs
  <2> QED
    BY <1>1, <2>1, <2>2 DEF Edge
<1>8. \A n \in DOMAIN s : \A y \in DOMAIN s[n].children : Edge(s, n, y)
  <2> SUFFICES ASSUME NEW n \in DOMAIN s, NEW y \in DOMAIN s[n].children PROVE Edge(s, n, y)
    OBVIOUS
  <2>1. CASE n = target
    BY <1>1, <2>1
  <2>2. CASE n \in DOMAIN t /\ n # parent
    BY <1>1, <1>6, <2>2
  <2>3. CASE n = parent
    <3>1. y \in DOMAIN t[parent].children \cup {x}
      BY <1>1, <2>3 DEF Put
    <3> HIDE DEF x
    <3> QED
      BY <1>6, <1>7, <2>3, <3>1
  <2> QED
    BY <1>1, <2>1, <2>2, <2>3
<1>9. \A c \in DOMAIN s : c # Root => \E n \in DOMAIN s : Hangs(s, n, c)
  <2> SUFFICES ASSUME NEW c \in DOMAIN s, c # Root PROVE \E n \in DOMAIN s : Hangs(s, n, c)
    OBVIOUS
  <2>1. CASE c = target
    <3>1. Hangs(s, parent, target)
      BY <1>7 DEF Hangs
    <3> QED
      BY <1>1, <2>1, <3>1
  <2>2. CASE c \in DOMAIN t
    <3>1. PICK n \in DOMAIN t : Hangs(t, n, c)
      BY <2>2 DEF TreeShape
    <3> DEFINE y == c[Len(n) + 1]
    <3>2. y \in DOMAIN t[n].children /\ t[n].children[y] = c
      BY <3>1 DEF Hangs
    <3>3. y \in DOMAIN s[n].children /\ s[n].children[y] = c
      BY <1>6, <3>2
    <3>4. Hangs(s, n, c)
      BY <3>1, <3>3 DEF Hangs
    <3> QED
      BY <1>1, <3>4
  <2> QED
    BY <1>1, <2>1, <2>2
<1> HIDE DEF x
<1>10. TreeShape(s)
  BY <1>3, <1>4, <1>5, <1>8, <1>9 DEF TreeShape
<1> QED
  BY <1>10 DEF s

\* The edge from parent towards target goes along with target for its first n tokens and ends
\* behind them.
Cuts(t, parent, n, target) ==
    LET c == t[parent].children[target[Len(parent) + 1]]
    IN  /\ parent \in DOMAIN t /\ target \in Seq(Symbols) /\ Below(parent, target)
        /\ n \in Nat /\ Len(parent) < n /\ n <= Len(target)
        /\ target[Len(parent) + 1] \in DOMAIN t[parent].children
        /\ n < Len(c) /\ \A i \in 1 .. n : c[i] = target[i]

\* What is known of the node in the middle, of the child below it and of their names.
CutKnown(t, parent, n, target) ==
    LET x == target[Len(parent) + 1]
        c == t[parent].children[x]
        middle == SubSeq(target, 1, n)
    IN  /\ c \in DOMAIN t /\ c \in Seq(Symbols) /\ Len(c) \in Nat /\ c # parent
        /\ Edge(t, parent, x) /\ x = c[Len(parent) + 1]
        /\ parent \in Seq(Symbols) /\ Len(parent) \in Nat /\ Len(target) \in Nat
        /\ middle \in Seq(Symbols) /\ Len(middle) = n /\ middle \notin DOMAIN t
        /\ \A i \in 1 .. n : middle[i] = c[i]
        /\ Below(parent, middle) /\ Below(middle, c) /\ Below(middle, target)
        /\ middle[Len(parent) + 1] = x

LEMMA CutNames ==
    ASSUME NEW t, TreeShape(t), NEW parent, NEW n, NEW target, Cuts(t, parent, n, target)
    PROVE  CutKnown(t, parent, n, target)
<1> DEFINE x == target[Len(parent) + 1]
           c == t[parent].children[x]
           middle == SubSeq(target, 1, n)
<1>1. /\ parent \in DOMAIN t /\ target \in Seq(Symbols) /\ Below(parent, target)
      /\ n \in Nat /\ Len(parent) < n /\ n <= Len(target) /\ x \in DOMAIN t[parent].children
      /\ n < Len(c) /\ \A i \in 1 .. n : c[i] = target[i]
  BY DEF Cuts
<1>2. parent \in Seq(Symbols) /\ Len(parent) \in Nat /\ Len(target) \in Nat
  BY <1>1 DEF TreeShape
<1>3. Edge(t, parent, x)
  BY <1>1 DEF TreeShape
<1>4. c \in DOMAIN t /\ Hangs(t, parent, c) /\ x = c[Len(parent) + 1]
  BY <1>3 DEF Edge
<1>5. c \in Seq(Symbols) /\ Len(c) \in Nat
  BY <1>4 DEF TreeShape
<1>6. c # parent
  BY <1>2, <1>4, <1>5 DEF Hangs
<1>7. middle \in Seq(Symbols) /\ Len(middle) = n /\ \A i \in 1 .. n : middle[i] = target[i]
  BY <1>1, <1>2
<1> HIDE DEF c, middle, x
<1>8. \A i \in 1 .. n : middle[i] = c[i]
  BY <1>1, <1>7
<1>9. Below(middle, c) /\ Below(middle, target)
  BY <1>1, <1>2, <1>5, <1>7, <1>8 DEF Below
<1>10. Below(parent, middle)
  BY <1>1, <1>2, <1>7 DEF Below
<1>11. middle[Len(parent) + 1] = x
  BY <1>1, <1>2, <1>7 DEF x
<1>12. middle \notin DOMAIN t
  <2> SUFFICES ASSUME middle \in DOMAIN t PROVE FALSE
    OBVIOUS
  <2>1. OnPath(t, parent, middle)
    BY <1>1, <1>7, <1>10, Path
  <2>2. Below(c, middle)
    BY <1>11, <2>1 DEF OnPath, c
  <2> QED
    BY <1>1, <1>5, <1>7, <2>2 DEF Below
<1> QED
  BY <1>2, <1>3, <1>4, <1>5, <1>6, <1>7, <1>8, <1>9, <1>10, <1>11, <1>12
     DEF CutKnown, c, middle, x

\* What the cut leaves as it was, and what it changes.
SplitKnown(t, parent, n, target, s) ==
    LET x == target[Len(parent) + 1]
        c == t[parent].children[x]
        middle == SubSeq(target, 1, n)
    IN  /\ DOMAIN s = DOMAIN t \cup {middle}
        /\ IsNode(s[middle]) /\ s[middle].nPrefix = n /\ s[middle].kv = <<>>
        /\ s[middle].children = Put(<<>>, c[n + 1], c)
        /\ Len(s[middle].tokens) = n - Len(parent)
        /\ \A i \in 1 .. n - Len(parent) : s[middle].tokens[i] = middle[Len(parent) + i]
        /\ Len(s[c].tokens) = Len(c) - n
        /\ \A i \in 1 .. Len(c) - n : s[c].tokens[i] = c[n + i]
        /\ \A m \in DOMAIN t :
             /\ IsNode(s[m]) /\ s[m].nPrefix = t[m].nPrefix /\ s[m].kv = t[m].kv
             /\ m # c => s[m].tokens = t[m].tokens
             /\ s[m].children = IF m = parent THEN [t[m].children EXCEPT ![x] = middle]
                                ELSE t[m].children

LEMMA SplitFields ==
    ASSUME NEW t, TreeShape(t), NEW parent, NEW n, NEW target, Cuts(t, parent, n, target)
    PROVE  SplitKnown(t, parent, n, target, WithSplit(t, parent, Len(parent), n, target))
<1> DEFINE at == Len(parent)
           x == target[at + 1]
           c == t[parent].children[x]
           edge == t[c].tokens
           shared == SubSeq(edge, 1, n - at)
           middle == SubSeq(target, 1, n)
           tail == SubSeq(edge, n - at + 1, Len(edge))
           cut == [t EXCEPT ![c].tokens = tail, ![parent].children[x] = middle]
           node == [NewNode(shared, t[parent].nPrefix + n - at)
                      EXCEPT !.children = Put(<<>>, Head(tail), c)]
           s == Put(cut, middle, node)
<1>0. CutKnown(t, parent, n, target)
  BY CutNames
<1> HIDE DEF edge, shared, tail, cut, node, s
<1>1. /\ c \in DOMAIN t /\ c \in Seq(Symbols) /\ Len(c) \in Nat /\ c # parent
      /\ Edge(t, parent, x) /\ x = c[at + 1]
      /\ parent \in Seq(Symbols) /\ at \in Nat /\ Len(target) \in Nat
      /\ middle \in Seq(Symbols) /\ Len(middle) = n /\ middle \notin DOMAIN t
      /\ \A i \in 1 .. n : middle[i] = c[i]
      /\ Below(parent, middle) /\ Below(middle, c) /\ Below(middle, target)
      /\ middle[at + 1] = x
  BY <1>0 DEF CutKnown
<1> USE DEF edge, shared, tail, cut, node, s
<1>2. /\ parent \in DOMAIN t /\ n \in Nat /\ at < n /\ n < Len(c) /\ x \in DOMAIN t[parent].children
  BY DEF Cuts
<1>3. WithSplit(t, parent, at, n, target) = s
  BY DEF WithSplit
<1>4. Len(edge) = Len(c) - at /\ \A i \in 1 .. Len(c) - at : edge[i] = c[at + i]
  BY <1>1 DEF Edge
<1>5. IsNode(t[c]) /\ IsNode(t[parent]) /\ t[parent].nPrefix = at /\ edge \in Seq(Symbols)
  BY <1>1, <1>2 DEF TreeShape, IsNode
<1> HIDE DEF c, edge, middle, x, at
<1>6. /\ shared \in Seq(Symbols) /\ Len(shared) = n - at
      /\ \A i \in 1 .. n - at : shared[i] = edge[i]
  BY <1>1, <1>2, <1>4, <1>5
<1>7. \A i \in 1 .. n - at : shared[i] = middle[at + i]
  BY <1>1, <1>2, <1>4, <1>6
<1>8. /\ tail \in Seq(Symbols) /\ Len(tail) = Len(c) - n
      /\ \A i \in 1 .. Len(c) - n : tail[i] = edge[n - at + i]
  BY <1>1, <1>2, <1>4, <1>5
<1>9. \A i \in 1 .. Len(c) - n : tail[i] = c[n + i]
  <2> SUFFICES ASSUME NEW i \in 1 .. Len(c) - n PROVE tail[i] = c[n + i]
    OBVIOUS
  <2>1. n - at + i \in 1 .. Len(c) - at /\ at + (n - at + i) = n + i
    BY <1>1, <1>2
  <2> QED
    BY <1>4, <1>8, <2>1
<1>10. Head(tail) = c[n + 1]
  <2>1. 1 \in 1 .. Len(c) - n /\ Len(c) - n \in Nat
    BY <1>1, <1>2
  <2> HIDE DEF tail
  <2> QED
    BY <1>8, <1>9, <2>1
<1> HIDE DEF shared, tail
<1>11. /\ IsNode(node) /\ node.nPrefix = n /\ node.kv = <<>> /\ node.tokens = shared
       /\ node.children = Put(<<>>, c[n + 1], c)
  <2> DEFINE put == Put(<<>>, Head(tail), c)
  <2>1. put = Put(<<>>, c[n + 1], c)
    BY <1>10
  <2> HIDE DEF put
  <2>2. node.nPrefix = n
    BY <1>1, <1>2, <1>5 DEF NewNode
  <2> QED
    BY <1>6, <2>1, <2>2 DEF NewNode, IsNode, put
<1>12. DOMAIN cut = DOMAIN t
  OBVIOUS
<1>13. ASSUME NEW m \in DOMAIN t
       PROVE  /\ IsNode(cut[m]) /\ cut[m].nPrefix = t[m].nPrefix /\ cut[m].kv = t[m].kv
              /\ m # c => cut[m].tokens = t[m].tokens
              /\ m = c => cut[m].tokens = tail
              /\ cut[m].children = IF m = parent THEN [t[m].children EXCEPT ![x] = middle]
                                   ELSE t[m].children
  <2>1. IsNode(t[m])
    BY DEF TreeShape
  <2>2. CASE m # c /\ m # parent
    BY <2>1, <2>2
  <2>3. CASE m = c
    <3>1. cut[m] = [t[m] EXCEPT !.tokens = tail]
      BY <1>1, <2>3
    <3> HIDE DEF cut
    <3> QED
      BY <1>1, <1>8, <2>1, <2>3, <3>1 DEF IsNode
  <2>4. CASE m = parent
    <3> DEFINE changed == [t[m].children EXCEPT ![x] = middle]
    <3>1. cut[m] = [t[m] EXCEPT !.children = changed]
      BY <1>1, <2>4
    <3> HIDE DEF cut, changed
    <3> QED
      BY <1>1, <2>1, <2>4, <3>1 DEF IsNode, changed
  <2> QED
    BY <2>2, <2>3, <2>4
<1> HIDE DEF cut, node
<1>14. DOMAIN s = DOMAIN t \cup {middle} /\ s[middle] = node /\ \A m \in DOMAIN t : s[m] = cut[m]
  <2>1. \A m \in DOMAIN t : m # middle
    BY <1>1
  <2> QED
    BY <1>12, <2>1 DEF Put
<1> HIDE DEF s
<1>15. s[c].tokens = tail
  BY <1>1, <1>13, <1>14
<1>16. /\ DOMAIN s = DOMAIN t \cup {middle}
       /\ IsNode(s[middle]) /\ s[middle].nPrefix = n /\ s[middle].kv = <<>>
       /\ s[middle].children = Put(<<>>, c[n + 1], c)
       /\ Len(s[middle].tokens) = n - at
       /\ \A i \in 1 .. n - at : s[middle].tokens[i] = middle[at + i]
       /\ Len(s[c].tokens) = Len(c) - n
       /\ \A i \in 1 .. Len(c) - n : s[c].tokens[i] = c[n + i]
  BY <1>6, <1>7, <1>8, <1>9, <1>11, <1>14, <1>15
<1>17. \A m \in DOMAIN t :
         /\ IsNode(s[m]) /\ s[m].nPrefix = t[m].nPrefix /\ s[m].kv = t[m].kv
         /\ m # c => s[m].tokens = t[m].tokens
         /\ s[m].children = IF m = parent THEN [t[m].children EXCEPT ![x] = middle]
                            ELSE t[m].children
  BY <1>13, <1>14
<1> QED
  BY <1>3, <1>16, <1>17 DEF SplitKnown, s, c, middle, x, at

LEMMA SplitShape ==
    ASSUME NEW t, TreeShape(t), NEW parent, NEW n, NEW target, Cuts(t, parent, n, target)
    PROVE  TreeShape(WithSplit(t, parent, Len(parent), n, target))
<1> DEFINE s == WithSplit(t, parent, Len(parent), n, target)
           x == target[Len(parent) + 1]
           c == t[parent].children[x]
           middle == SubSeq(target, 1, n)
<1>a. CutKnown(t, parent, n, target) /\ SplitKnown(t, parent, n, target, s)
  BY CutNames, SplitFields
<1> HIDE DEF s
<1>1. /\ c \in DOMAIN t /\ c \in Seq(Symbols) /\ Len(c) \in Nat /\ c # parent
      /\ Edge(t, parent, x) /\ x = c[Len(parent) + 1]
      /\ parent \in Seq(Symbols) /\ Len(parent) \in Nat /\ Len(target) \in Nat
      /\ middle \in Seq(Symbols) /\ Len(middle) = n /\ middle \notin DOMAIN t
      /\ Below(parent, middle) /\ Below(middle, c) /\ Below(middle, target)
      /\ middle[Len(parent) + 1] = x
  BY <1>a DEF CutKnown
<1>2. /\ parent \in DOMAIN t /\ n \in Nat /\ Len(parent) < n /\ n < Len(c)
      /\ x \in DOMAIN t[parent].children
  BY DEF Cuts
<1>3. /\ DOMAIN s = DOMAIN t \cup {middle}
      /\ IsNode(s[middle]) /\ s[middle].nPrefix = n /\ s[middle].kv = <<>>
      /\ s[middle].children = Put(<<>>, c[n + 1], c)
      /\ Len(s[middle].tokens) = n - Len(parent)
      /\ \A i \in 1 .. n - Len(parent) : s[middle].tokens[i] = middle[Len(parent) + i]
      /\ Len(s[c].tokens) = Len(c) - n
      /\ \A i \in 1 .. Len(c) - n : s[c].tokens[i] = c[n + i]
  BY <1>a DEF SplitKnown
<1>4. \A m \in DOMAIN t :
        /\ IsNode(s[m]) /\ s[m].nPrefix = t[m].nPrefix /\ s[m].kv = t[m].kv
        /\ m # c => s[m].tokens = t[m].tokens
        /\ s[m].children = IF m = parent THEN [t[m].children EXCEPT ![x] = middle]
                           ELSE t[m].children
  BY <1>a DEF SplitKnown
<1> HIDE DEF x, c, middle
<1>5. DOMAIN s \subseteq Seq(Symbols) /\ IsFiniteSet(DOMAIN s)
  BY <1>1, <1>3, FS_AddElement DEF TreeShape
<1>6. Root \in DOMAIN s /\ s[Root].kv = <<>>
  BY <1>3, <1>4 DEF TreeShape
<1>7. \A m \in DOMAIN s : IsNode(s[m]) /\ s[m].nPrefix = Len(m)
  BY <1>1, <1>3, <1>4 DEF TreeShape
<1>8. ASSUME NEW m \in DOMAIN t, NEW y \in DOMAIN t[m].children, ~(m = parent /\ y = x)
      PROVE  /\ y \in DOMAIN s[m].children /\ s[m].children[y] = t[m].children[y]
             /\ t[m].children[y] # c /\ Edge(s, m, y)
  <2> DEFINE d == t[m].children[y]
  <2>1. d \in DOMAIN t /\ Hangs(t, m, d) /\ y = d[Len(m) + 1] /\ Edge(t, m, y)
    BY DEF TreeShape, Edge
  <2>2. y \in DOMAIN s[m].children /\ s[m].children[y] = t[m].children[y]
    <3>1. CASE m # parent
      BY <1>4, <3>1
    <3>2. CASE m = parent
      <4>1. s[m].children = [t[m].children EXCEPT ![x] = middle] /\ y # x
        BY <1>4, <1>8, <3>2
      <4> QED
        BY <4>1
    <3> QED
      BY <3>1, <3>2
  <2>3. d # c
    <3> SUFFICES ASSUME d = c PROVE FALSE
      OBVIOUS
    <3>1. Hangs(t, parent, c)
      BY <1>1 DEF Edge, c
    <3>2. m = parent
      BY <1>1, <1>2, <2>1, <3>1, OneParent
    <3> QED
      BY <1>1, <1>8, <2>1, <3>2
  <2>4. s[d].tokens = t[d].tokens /\ d \in DOMAIN s
    BY <1>3, <1>4, <2>1, <2>3
  <2>5. Hangs(s, m, d)
    BY <2>1, <2>2 DEF Hangs
  <2> QED
    BY <2>1, <2>2, <2>3, <2>4, <2>5 DEF Edge
<1>9. x \in DOMAIN s[parent].children /\ s[parent].children[x] = middle /\ Edge(s, parent, x)
  <2>1. x \in DOMAIN s[parent].children /\ s[parent].children[x] = middle
    BY <1>2, <1>4
  <2>2. Hangs(s, parent, middle)
    BY <1>1, <1>2, <2>1 DEF Hangs
  <2> QED
    BY <1>1, <1>3, <2>1, <2>2 DEF Edge
<1>10. /\ DOMAIN s[middle].children = {c[n + 1]} /\ s[middle].children[c[n + 1]] = c
       /\ Edge(s, middle, c[n + 1])
  <2>1. DOMAIN s[middle].children = {c[n + 1]} /\ s[middle].children[c[n + 1]] = c
    BY <1>3 DEF Put
  <2>2. Hangs(s, middle, c)
    BY <1>1, <1>2, <2>1 DEF Hangs
  <2> QED
    BY <1>1, <1>3, <2>1, <2>2 DEF Edge
<1>11. \A m \in DOMAIN s : \A y \in DOMAIN s[m].children : Edge(s, m, y)
  <2> SUFFICES ASSUME NEW m \in DOMAIN s, NEW y \in DOMAIN s[m].children PROVE Edge(s, m, y)
    OBVIOUS
  <2>1. CASE m = middle
    BY <1>10, <2>1
  <2>2. CASE m \in DOMAIN t /\ m # parent
    BY <1>4, <1>8, <2>2
  <2>3. CASE m = parent
    <3>1. y \in DOMAIN t[parent].children
      BY <1>2, <1>4, <2>3
    <3> QED
      BY <1>2, <1>8, <1>9, <2>3, <3>1
  <2> QED
    BY <1>3, <2>1, <2>2, <2>3
<1>12. \A d \in DOMAIN s : d # Root => \E m \in DOMAIN s : Hangs(s, m, d)
  <2> SUFFICES ASSUME NEW d \in DOMAIN s, d # Root PROVE \E m \in DOMAIN s : Hangs(s, m, d)
    OBVIOUS
  <2>1. CASE d = middle
    BY <1>2, <1>3, <1>9, <2>1 DEF Edge
  <2>2. CASE d = c
    BY <1>3, <1>10, <2>2 DEF Edge
  <2>3. CASE d \in DOMAIN t /\ d # c
    <3>1. PICK m \in DOMAIN t : Hangs(t, m, d)
      BY <2>3 DEF TreeShape
    <3> DEFINE y == d[Len(m) + 1]
    <3>2. y \in DOMAIN t[m].children /\ t[m].children[y] = d
      BY <3>1 DEF Hangs
    <3>3. ~(m = parent /\ y = x)
      BY <2>3, <3>2 DEF c
    <3>4. y \in DOMAIN s[m].children /\ s[m].children[y] = d
      <4> HIDE DEF y
      <4> QED
        BY <1>8, <3>2, <3>3
    <3>5. Hangs(s, m, d)
      BY <3>1, <3>4 DEF Hangs
    <3> QED
      BY <1>3, <3>5
  <2> QED
    BY <1>3, <2>1, <2>2, <2>3
<1>13. TreeShape(s)
  BY <1>5, <1>6, <1>7, <1>11, <1>12 DEF TreeShape
<1> QED
  BY <1>13 DEF s

----------------------------------------------------------------------------
(* The tree an insertion grows. *)

\* The old nodes keep their rows, the new ones lie on the way to target, and a leaf stays one
\* unless target has been hung below it and is the only new node.
Grows(t, s, target) ==
    /\ TreeShape(s) /\ DOMAIN t \subseteq DOMAIN s
    /\ \A m \in DOMAIN t : s[m].kv = t[m].kv
    /\ \A m \in DOMAIN s \ DOMAIN t : s[m].kv = <<>> /\ Below(m, target)
    /\ \A m \in DOMAIN t : t[m].children = <<>> /\ s[m].children # <<>> =>
         target \notin DOMAIN t /\ DOMAIN s = DOMAIN t \cup {target} /\ Below(m, target)

\* The name of parent is a prefix of target, and parent has no child on the way there.
Fits(t, parent, target) ==
    /\ target \in Seq(Symbols) /\ target \notin DOMAIN t /\ parent \in DOMAIN t
    /\ Len(parent) < Len(target) /\ Below(parent, target)
    /\ target[Len(parent) + 1] \notin DOMAIN t[parent].children

LeafGrown(t, parent, target, s) ==
    /\ Grows(t, s, target) /\ DOMAIN s = DOMAIN t \cup {target}
    /\ \A m \in DOMAIN t \ {parent} : s[m].children = t[m].children

LEMMA LeafGrows ==
    ASSUME NEW t, TreeShape(t), NEW parent, NEW target, Fits(t, parent, target)
    PROVE  LeafGrown(t, parent, target, WithLeaf(t, parent, Len(parent), target))
<1> DEFINE s == WithLeaf(t, parent, Len(parent), target)
           x == target[Len(parent) + 1]
<1> USE DEF Fits
<1>1. TreeShape(s)
  BY LeafShape
<1>2. /\ DOMAIN s = DOMAIN t \cup {target}
      /\ IsNode(s[target]) /\ s[target].nPrefix = Len(target)
      /\ s[target].kv = <<>> /\ s[target].children = <<>>
      /\ Len(s[target].tokens) = Len(target) - Len(parent)
      /\ \A i \in 1 .. Len(target) - Len(parent) :
           s[target].tokens[i] = target[Len(parent) + i]
      /\ \A n \in DOMAIN t :
           /\ IsNode(s[n]) /\ s[n].nPrefix = t[n].nPrefix
           /\ s[n].tokens = t[n].tokens /\ s[n].kv = t[n].kv
           /\ s[n].children = IF n = parent THEN Put(t[n].children, x, target)
                              ELSE t[n].children
  BY LeafFields, ZenonT(60)
<1> HIDE DEF s, x
<1>3. Below(target, target)
  BY DEF Below
<1>4. Grows(t, s, target)
  BY <1>1, <1>2, <1>3 DEF Grows
<1>5. \A m \in DOMAIN t \ {parent} : s[m].children = t[m].children
  BY <1>2
<1> QED
  BY <1>2, <1>4, <1>5 DEF LeafGrown, s

SplitGrown(t, parent, n, target, s) ==
    /\ Grows(t, s, target) /\ DOMAIN s = DOMAIN t \cup {SubSeq(target, 1, n)}
    /\ DOMAIN s[SubSeq(target, 1, n)].children
         = {t[parent].children[target[Len(parent) + 1]][n + 1]}
    /\ \A m \in DOMAIN t : t[m].children = <<>> => s[m].children = <<>>

LEMMA SplitGrows ==
    ASSUME NEW t, TreeShape(t), NEW parent, NEW n, NEW target, Cuts(t, parent, n, target)
    PROVE  SplitGrown(t, parent, n, target, WithSplit(t, parent, Len(parent), n, target))
<1> DEFINE s == WithSplit(t, parent, Len(parent), n, target)
           x == target[Len(parent) + 1]
           c == t[parent].children[x]
           middle == SubSeq(target, 1, n)
<1>1. CutKnown(t, parent, n, target) /\ SplitKnown(t, parent, n, target, s)
  BY CutNames, SplitFields
<1>2. TreeShape(s)
  BY SplitShape
<1>3. Below(middle, target)
  BY <1>1 DEF CutKnown
<1>4. x \in DOMAIN t[parent].children
  BY DEF Cuts
<1>5. /\ DOMAIN s = DOMAIN t \cup {middle} /\ s[middle].kv = <<>>
      /\ s[middle].children = Put(<<>>, c[n + 1], c)
      /\ \A m \in DOMAIN t :
           /\ s[m].kv = t[m].kv
           /\ m # parent => s[m].children = t[m].children
  BY <1>1 DEF SplitKnown
<1> HIDE DEF s, x, c, middle
<1>6. \A m \in DOMAIN t : t[m].children = <<>> => s[m].children = <<>>
  BY <1>4, <1>5
<1>7. DOMAIN s[middle].children = {c[n + 1]}
  BY <1>5 DEF Put
<1>8. Grows(t, s, target)
  BY <1>2, <1>3, <1>5, <1>6 DEF Grows
<1> QED
  BY <1>5, <1>6, <1>7, <1>8 DEF SplitGrown, s, x, c, middle

LEMMA GrownGrows ==
    ASSUME NEW t, TreeShape(t), NEW target \in Seq(Symbols)
    PROVE  Grows(t, Grown(t, target), target) /\ target \in DOMAIN Grown(t, target)
<1> DEFINE walked == Walk(t, target)
           node == walked.node
           at == walked.at
           n == Reached(t, target, walked)
           middle == SubSeq(target, 1, n)
           cut == IF n = at THEN t ELSE WithSplit(t, node, at, n, target)
           last == IF n = at THEN node ELSE middle
           s == IF n = Len(target) THEN cut ELSE WithLeaf(cut, last, n, target)
<1>1. Grown(t, target) = s
  BY DEF Grown
<1>2. Place(t, target, walked) /\ ~Descends(t, target, walked)
  BY WalkEnds
<1>3. /\ walked \in [node : DOMAIN t, at : 0 .. Len(target)] /\ node \in DOMAIN t
      /\ at = Len(node) /\ Below(node, target)
  BY <1>2 DEF Place
<1>4. n = at + Matched(t, target, walked)
  BY DEF Reached
<1>5. target \in DOMAIN t => Below(target, node)
  <2>1. Below(target, target)
    BY DEF Below
  <2> QED
    BY <2>1, WalkDeepest
<1> HIDE DEF walked, n
<1>6. node \in Seq(Symbols) /\ at \in Nat /\ Len(target) \in Nat /\ at <= Len(target)
  BY <1>3 DEF TreeShape
<1>7. target \in DOMAIN t => at = Len(target)
  BY <1>3, <1>5, <1>6 DEF Below
<1>8. CASE n = at
  <2>1. ~HasChild(t, target, walked)
    <3> SUFFICES ASSUME HasChild(t, target, walked) PROVE FALSE
      OBVIOUS
    <3>1. Matched(t, target, walked) \in 1 .. Len(t[ChildAt(t, target, walked)].tokens)
      BY <1>3, MatchedFacts DEF MatchedKnown
    <3> QED
      BY <1>4, <1>6, <1>8, <3>1
  <2>2. CASE n = Len(target)
    <3>1. node = target
      BY <1>3, <1>6, <1>8, <2>2, SameSequence DEF Below
    <3>2. s = t
      BY <1>8, <2>2
    <3>3. Grows(t, t, target)
      BY DEF Grows
    <3> QED
      BY <1>1, <1>3, <3>1, <3>2, <3>3
  <2>3. CASE n # Len(target)
    <3>1. at < Len(target) /\ target \notin DOMAIN t
      BY <1>6, <1>7, <1>8, <2>3
    <3>2. target[Len(node) + 1] \notin DOMAIN t[node].children
      BY <1>3, <2>1, <3>1 DEF HasChild
    <3>3. s = WithLeaf(t, node, Len(node), target)
      BY <1>3, <1>8, <2>3
    <3> HIDE DEF s
    <3>4. Grows(t, s, target) /\ DOMAIN s = DOMAIN t \cup {target}
      <4>1. Fits(t, node, target)
        BY <1>3, <3>1, <3>2 DEF Fits
      <4>2. LeafGrown(t, node, target, s)
        BY <3>3, <4>1, LeafGrows
      <4> QED
        BY <4>2 DEF LeafGrown
    <3> QED
      BY <1>1, <3>4
  <2> QED
    BY <2>2, <2>3
<1>9. CASE n # at
  <2> DEFINE x == target[Len(node) + 1]
             c == t[node].children[x]
             edge == t[ChildAt(t, target, walked)].tokens
             k == Matched(t, target, walked)
  <2>1. HasChild(t, target, walked)
    BY <1>4, <1>6, <1>9 DEF Matched
  <2>2. ChildAt(t, target, walked) = c
    BY <1>3 DEF ChildAt
  <2>3. /\ Edge(t, node, target[at + 1])
        /\ k \in 1 .. Len(edge) /\ at + k <= Len(target)
        /\ \A i \in 1 .. k : edge[i] = target[at + i]
        /\ k < Len(edge) /\ at + k < Len(target) => edge[k + 1] # target[at + k + 1]
    <3>1. MatchedKnown(t, target, walked)
      BY <1>3, <2>1, MatchedFacts
    <3> HIDE DEF x, c, s
    <3> QED
      BY <3>1 DEF MatchedKnown
  <2>4. k # Len(edge)
    BY <1>2, <2>1 DEF Descends
  <2>5. x \in DOMAIN t[node].children
    BY <1>3, <2>1 DEF HasChild
  <2>6. c \in DOMAIN t /\ c \in Seq(Symbols) /\ Len(c) \in Nat /\ Below(node, c)
        /\ Len(edge) = Len(c) - at /\ \A i \in 1 .. Len(c) - at : edge[i] = c[at + i]
    <3>1. Edge(t, node, x)
      BY <1>3, <2>3
    <3>2. c \in DOMAIN t /\ Below(node, c) /\ Len(t[c].tokens) = Len(c) - Len(node)
          /\ \A i \in 1 .. Len(c) - Len(node) : t[c].tokens[i] = c[Len(node) + i]
      BY <3>1 DEF Edge, Hangs
    <3>3. c \in Seq(Symbols) /\ Len(c) \in Nat
      <4>1. \A d \in DOMAIN t : d \in Seq(Symbols) /\ Len(d) \in Nat
        BY DEF TreeShape
      <4> HIDE DEF c
      <4> QED
        BY <3>2, <4>1
    <3> QED
      BY <1>3, <2>2, <3>2, <3>3
  <2> HIDE DEF x, c, edge, k
  <2>7. k \in Nat /\ 1 <= k /\ k < Len(edge) /\ n = at + k
    BY <1>4, <1>6, <2>3, <2>4, <2>6 DEF k
  <2>8. n \in Nat /\ at < n /\ n <= Len(target) /\ n < Len(c)
    BY <1>6, <2>3, <2>6, <2>7, SMTT(30)
  <2>9. \A i \in 1 .. n : c[i] = target[i]
    <3> SUFFICES ASSUME NEW i \in 1 .. n PROVE c[i] = target[i]
      OBVIOUS
    <3>1. CASE i <= at
      BY <1>3, <1>6, <2>6, <2>8, <3>1 DEF Below
    <3>2. CASE at < i
      <4>1. i - at \in 1 .. k /\ i - at \in 1 .. Len(c) - at /\ at + (i - at) = i
        BY <1>6, <2>6, <2>7, <2>8, <3>2, SMTT(30)
      <4>2. edge[i - at] = target[i] /\ edge[i - at] = c[i]
        BY <2>3, <2>6, <4>1
      <4> QED
        BY <4>2
    <3> QED
      BY <1>6, <2>8, <3>1, <3>2
  <2>10. Cuts(t, node, n, target)
    BY <1>3, <2>5, <2>8, <2>9 DEF Cuts, c, x
  <2>11. cut = WithSplit(t, node, Len(node), n, target) /\ last = middle
    BY <1>3, <1>9
  <2> HIDE DEF s, cut, last, middle
  <2>12. /\ Grows(t, cut, target) /\ DOMAIN cut = DOMAIN t \cup {middle}
         /\ DOMAIN cut[middle].children = {c[n + 1]}
         /\ \A m \in DOMAIN t : t[m].children = <<>> => cut[m].children = <<>>
    <3>1. SplitGrown(t, node, n, target, cut)
      BY <2>10, <2>11, SplitGrows
    <3> QED
      BY <3>1 DEF SplitGrown, middle, c, x
  <2>13. CutKnown(t, node, n, target)
    BY <2>10, CutNames
  <2>14. middle \in Seq(Symbols) /\ Len(middle) = n /\ Below(middle, target) /\ middle \notin DOMAIN t
    BY <2>13 DEF CutKnown, middle
  <2>15. CASE n = Len(target)
    <3>1. middle = target
      BY <1>6, <2>14, <2>15, SameSequence DEF Below
    <3>2. s = cut
      BY <2>15 DEF s
    <3> QED
      BY <1>1, <2>12, <3>1, <3>2
  <2>16. CASE n # Len(target)
    <3>1. n < Len(target) /\ target # middle
      BY <1>6, <2>8, <2>14, <2>16
    <3>2. target \notin DOMAIN cut
      BY <1>6, <1>7, <2>8, <2>12, <3>1
    <3>3. target[n + 1] # c[n + 1]
      <4>1. k + 1 \in 1 .. Len(c) - at /\ at + (k + 1) = n + 1 /\ at + k + 1 = n + 1
        BY <1>6, <2>6, <2>7
      <4>2. edge[k + 1] = c[n + 1]
        BY <2>6, <4>1
      <4>3. edge[k + 1] # target[n + 1]
        BY <2>3, <2>7, <3>1, <4>1
      <4> QED
        BY <4>2, <4>3
    <3>4. middle \in DOMAIN cut /\ target[Len(middle) + 1] \notin DOMAIN cut[middle].children
      BY <2>12, <2>14, <3>3
    <3>5. s = WithLeaf(cut, middle, Len(middle), target)
      BY <2>11, <2>14, <2>16 DEF s
    <3>6. TreeShape(cut)
      BY <2>12 DEF Grows
    <3>7. /\ Grows(cut, s, target) /\ DOMAIN s = DOMAIN cut \cup {target}
          /\ \A m \in DOMAIN cut \ {middle} : s[m].children = cut[m].children
      <4>1. Fits(cut, middle, target)
        BY <2>14, <3>1, <3>2, <3>4 DEF Fits
      <4>2. LeafGrown(cut, middle, target, s)
        BY <3>5, <3>6, <4>1, LeafGrows
      <4> QED
        BY <4>2 DEF LeafGrown
    <3>8. \A m \in DOMAIN t : s[m].kv = t[m].kv
      BY <2>12, <3>7 DEF Grows
    <3>9. \A m \in DOMAIN s \ DOMAIN t : s[m].kv = <<>> /\ Below(m, target)
      BY <2>12, <3>7 DEF Grows
    <3>10. \A m \in DOMAIN t : t[m].children = <<>> => s[m].children = <<>>
      BY <2>12, <2>14, <3>7
    <3>11. TreeShape(s) /\ DOMAIN t \subseteq DOMAIN s
      BY <2>12, <3>7 DEF Grows
    <3>12. Grows(t, s, target)
      BY <3>8, <3>9, <3>10, <3>11 DEF Grows
    <3> QED
      BY <1>1, <3>7, <3>12
  <2> QED
    BY <2>15, <2>16
<1> QED
  BY <1>8, <1>9

LEMMA StoringShape ==
    ASSUME NEW t, TreeShape(t), NEW target \in DOMAIN t, target # Root, NEW kv \in Seq(Symbols)
    PROVE  TreeShape([t EXCEPT ![target].kv = kv])
<1> DEFINE s == [t EXCEPT ![target].kv = kv]
<1>1. ASSUME NEW m \in DOMAIN t
      PROVE  /\ IsNode(s[m]) /\ s[m].nPrefix = t[m].nPrefix /\ s[m].tokens = t[m].tokens
             /\ s[m].children = t[m].children /\ (m # target => s[m].kv = t[m].kv)
  <2>1. IsNode(t[m])
    BY DEF TreeShape
  <2>2. CASE m # target
    BY <2>1, <2>2
  <2>3. CASE m = target
    <3>1. s[m] = [t[m] EXCEPT !.kv = kv]
      BY <2>3
    <3> HIDE DEF s
    <3> QED
      BY <2>1, <2>3, <3>1 DEF IsNode
  <2> QED
    BY <2>2, <2>3
<1>2. DOMAIN s = DOMAIN t
  OBVIOUS
<1> HIDE DEF s
<1>3. \A m \in DOMAIN s : IsNode(s[m]) /\ s[m].nPrefix = Len(m)
  BY <1>1, <1>2 DEF TreeShape
<1>4. \A n, c \in DOMAIN t : Hangs(t, n, c) => Hangs(s, n, c)
  BY <1>1 DEF Hangs
<1>5. \A n \in DOMAIN s : \A x \in DOMAIN s[n].children : Edge(s, n, x)
  <2> SUFFICES ASSUME NEW n \in DOMAIN t, NEW x \in DOMAIN t[n].children PROVE Edge(s, n, x)
    BY <1>1, <1>2
  <2>1. Edge(t, n, x)
    BY DEF TreeShape
  <2>2. t[n].children[x] \in DOMAIN t /\ s[n].children[x] = t[n].children[x]
    BY <1>1, <2>1 DEF Edge
  <2> QED
    BY <1>1, <1>2, <1>4, <2>1, <2>2 DEF Edge
<1>6. \A c \in DOMAIN s : c # Root => \E n \in DOMAIN s : Hangs(s, n, c)
  BY <1>2, <1>4 DEF TreeShape
<1>7. Root \in DOMAIN s /\ s[Root].kv = <<>>
  BY <1>1, <1>2 DEF TreeShape
<1>8. DOMAIN s \subseteq Seq(Symbols) /\ IsFiniteSet(DOMAIN s)
  BY <1>2 DEF TreeShape
<1>9. TreeShape(s)
  BY <1>3, <1>5, <1>6, <1>7, <1>8 DEF TreeShape
<1> QED
  BY <1>9 DEF s

----------------------------------------------------------------------------
(* The tree without a leaf. *)

\* Nothing else goes with a leaf, and a leaf stays one.
Sheds(t, leaf, s) ==
    /\ TreeShape(s) /\ DOMAIN s = DOMAIN t \ {leaf}
    /\ \A m \in DOMAIN s :
         s[m].kv = t[m].kv /\ (t[m].children = <<>> => s[m].children = <<>>)

LEMMA WithoutSheds ==
    ASSUME NEW t, TreeShape(t), NEW leaf \in DOMAIN t, leaf # Root, t[leaf].children = <<>>
    PROVE  Sheds(t, leaf, WithoutLeaf(t, leaf))
<1> DEFINE p == ParentOf(t, leaf)
           key == Head(t[leaf].tokens)
           left == Restrict(t[p].children, DOMAIN t[p].children \ {key})
           bare == [t EXCEPT ![p].children = left]
           s == Restrict(bare, DOMAIN t \ {leaf})
<1>1. WithoutLeaf(t, leaf) = s
  BY DEF WithoutLeaf
<1>2. p \in DOMAIN t /\ Hangs(t, p, leaf)
  BY ParentHangs
<1> HIDE DEF p, key
<1>3. key = leaf[Len(p) + 1] /\ key \in DOMAIN t[p].children /\ t[p].children[key] = leaf
  <2> DEFINE x == leaf[Len(p) + 1]
  <2>1. x \in DOMAIN t[p].children /\ t[p].children[x] = leaf /\ Len(p) < Len(leaf)
    BY <1>2 DEF Hangs
  <2>2. Edge(t, p, x)
    BY <1>2, <2>1 DEF TreeShape
  <2>3. p \in Seq(Symbols) /\ leaf \in Seq(Symbols) /\ Len(p) \in Nat /\ Len(leaf) \in Nat
    BY <1>2 DEF TreeShape
  <2>4. t[leaf].tokens \in Seq(Symbols)
    BY DEF TreeShape, IsNode
  <2>5. Len(t[leaf].tokens) = Len(leaf) - Len(p)
        /\ \A i \in 1 .. Len(leaf) - Len(p) : t[leaf].tokens[i] = leaf[Len(p) + i]
    BY <2>1, <2>2 DEF Edge
  <2>6. t[leaf].tokens[1] = x /\ Len(t[leaf].tokens) > 0
    BY <2>1, <2>3, <2>5
  <2> HIDE DEF x
  <2>7. key = x
    BY <2>4, <2>6 DEF key
  <2> QED
    BY <2>1, <2>7 DEF x
<1>4. /\ DOMAIN left = DOMAIN t[p].children \ {key}
      /\ \A x \in DOMAIN left : left[x] = t[p].children[x]
  BY DEF Restrict
<1>5. ASSUME NEW m \in DOMAIN t
      PROVE  /\ IsNode(bare[m]) /\ bare[m].nPrefix = t[m].nPrefix
             /\ bare[m].tokens = t[m].tokens /\ bare[m].kv = t[m].kv
             /\ bare[m].children = IF m = p THEN left ELSE t[m].children
  <2>1. IsNode(t[m])
    BY DEF TreeShape
  <2> HIDE DEF left
  <2>2. CASE m # p
    BY <2>1, <2>2
  <2>3. CASE m = p
    <3>1. bare[m] = [t[m] EXCEPT !.children = left]
      BY <2>3
    <3> HIDE DEF bare
    <3> QED
      BY <2>1, <2>3, <3>1 DEF IsNode
  <2> QED
    BY <2>2, <2>3
<1> HIDE DEF left, bare
<1>6. DOMAIN s = DOMAIN t \ {leaf} /\ \A m \in DOMAIN s : s[m] = bare[m]
  BY DEF Restrict
<1> HIDE DEF s
<1>7. \A m \in DOMAIN s :
        /\ m \in DOMAIN t /\ m # leaf
        /\ IsNode(s[m]) /\ s[m].nPrefix = t[m].nPrefix
        /\ s[m].tokens = t[m].tokens /\ s[m].kv = t[m].kv
        /\ s[m].children = IF m = p THEN left ELSE t[m].children
  BY <1>5, <1>6
<1>8. \A m \in DOMAIN s : t[m].children = <<>> => s[m].children = <<>>
  BY <1>3, <1>7
<1>9. ASSUME NEW m \in DOMAIN s, NEW y \in DOMAIN t[m].children, t[m].children[y] # leaf
      PROVE  y \in DOMAIN s[m].children /\ s[m].children[y] = t[m].children[y]
  <2>1. CASE m # p
    BY <1>7, <2>1
  <2>2. CASE m = p
    <3>1. s[m].children = left /\ y # key
      BY <1>3, <1>7, <1>9, <2>2
    <3> QED
      BY <1>4, <2>2, <3>1
  <2> QED
    BY <2>1, <2>2
<1>10. ASSUME NEW m \in DOMAIN s, NEW y \in DOMAIN s[m].children
       PROVE  /\ y \in DOMAIN t[m].children /\ s[m].children[y] = t[m].children[y]
              /\ t[m].children[y] # leaf
  <2>1. y \in DOMAIN t[m].children /\ s[m].children[y] = t[m].children[y]
    <3>1. CASE m # p
      BY <1>7, <3>1
    <3>2. CASE m = p
      <4>1. s[m].children = left
        BY <1>7, <3>2
      <4> QED
        BY <1>4, <3>2, <4>1
    <3> QED
      BY <3>1, <3>2
  <2>2. t[m].children[y] # leaf
    <3> SUFFICES ASSUME t[m].children[y] = leaf PROVE FALSE
      OBVIOUS
    <3>1. m \in DOMAIN t /\ Edge(t, m, y)
      BY <1>7, <2>1 DEF TreeShape
    <3>2. Hangs(t, m, leaf) /\ y = leaf[Len(m) + 1]
      BY <3>1 DEF Edge
    <3>3. m = p
      BY <1>2, <3>1, <3>2, OneParent
    <3>4. y = key /\ s[m].children = left
      BY <1>3, <1>7, <3>2, <3>3
    <3> QED
      BY <1>4, <3>4
  <2> QED
    BY <2>1, <2>2
<1>11. \A m \in DOMAIN s : \A y \in DOMAIN s[m].children : Edge(s, m, y)
  <2> SUFFICES ASSUME NEW m \in DOMAIN s, NEW y \in DOMAIN s[m].children PROVE Edge(s, m, y)
    OBVIOUS
  <2> DEFINE d == t[m].children[y]
  <2>1. y \in DOMAIN t[m].children /\ s[m].children[y] = d /\ d # leaf
    BY <1>10
  <2>2. m \in DOMAIN t /\ Edge(t, m, y)
    BY <1>7, <2>1 DEF TreeShape
  <2>3. /\ d \in DOMAIN t /\ Hangs(t, m, d) /\ y = d[Len(m) + 1]
        /\ Len(t[d].tokens) = Len(d) - Len(m)
        /\ \A i \in 1 .. Len(d) - Len(m) : t[d].tokens[i] = d[Len(m) + i]
    BY <2>2 DEF Edge
  <2> HIDE DEF d
  <2>4. d \in DOMAIN s /\ s[d].tokens = t[d].tokens
    BY <1>6, <1>7, <2>1, <2>3
  <2>5. Hangs(s, m, d)
    BY <2>1, <2>3 DEF Hangs
  <2> QED
    BY <2>1, <2>3, <2>4, <2>5 DEF Edge
<1>12. \A d \in DOMAIN s : d # Root => \E m \in DOMAIN s : Hangs(s, m, d)
  <2> SUFFICES ASSUME NEW d \in DOMAIN s, d # Root PROVE \E m \in DOMAIN s : Hangs(s, m, d)
    OBVIOUS
  <2>1. d \in DOMAIN t /\ d # leaf
    BY <1>7
  <2>2. PICK m \in DOMAIN t : Hangs(t, m, d)
    BY <2>1 DEF TreeShape
  <2> DEFINE y == d[Len(m) + 1]
  <2>3. y \in DOMAIN t[m].children /\ t[m].children[y] = d
    BY <2>2 DEF Hangs
  <2>4. m # leaf
    BY <2>3
  <2>5. m \in DOMAIN s
    BY <1>6, <2>4
  <2>6. y \in DOMAIN s[m].children /\ s[m].children[y] = d
    <3> HIDE DEF y
    <3> QED
      BY <1>9, <2>1, <2>3, <2>5
  <2>7. Hangs(s, m, d)
    BY <2>2, <2>6 DEF Hangs
  <2> QED
    BY <2>5, <2>7
<1>13. DOMAIN s \subseteq Seq(Symbols) /\ IsFiniteSet(DOMAIN s)
  <2>1. DOMAIN s \subseteq DOMAIN t
    BY <1>6
  <2> QED
    BY <2>1, FS_Subset DEF TreeShape
<1>14. Root \in DOMAIN s /\ s[Root].kv = <<>>
  BY <1>6, <1>7 DEF TreeShape
<1>15. \A m \in DOMAIN s : IsNode(s[m]) /\ s[m].nPrefix = Len(m)
  BY <1>7 DEF TreeShape
<1>16. TreeShape(s)
  BY <1>11, <1>12, <1>13, <1>14, <1>15 DEF TreeShape
<1>17. Sheds(t, leaf, s)
  BY <1>6, <1>7, <1>8, <1>16 DEF Sheds
<1> QED
  BY <1>1, <1>17

----------------------------------------------------------------------------
(* The order of last_use, and the leaf that was used longest ago. *)

IsOrder(O, P) ==
    /\ O \subseteq P \X P
    /\ \A m \in P : <<m, m>> \notin O
    /\ \A m, n \in P : m # n => <<m, n>> \in O \/ <<n, m>> \in O
    /\ \A l, m, n \in P : <<l, m>> \in O /\ <<m, n>> \in O => <<l, n>> \in O

LEMMA TouchedOrder ==
    ASSUME NEW P, NEW O, IsOrder(O, P), NEW node, NEW Q, Q = P \cup {node}
    PROVE  IsOrder(Touched(O, Q, node), Q)
<1> DEFINE T == Touched(O, Q, node)
<1>1. \A m, n : <<m, n>> \in T <=> (<<m, n>> \in O /\ m # node /\ n # node)
                                    \/ (m \in Q /\ m # node /\ n = node)
  BY DEF Touched
<1>2. T \subseteq Q \X Q
  BY DEF Touched, IsOrder
<1> HIDE DEF T
<1>3. \A m \in Q : <<m, m>> \notin T
  BY <1>1 DEF IsOrder
<1>4. \A m, n \in Q : m # n => <<m, n>> \in T \/ <<n, m>> \in T
  BY <1>1 DEF IsOrder
<1>5. \A l, m, n \in Q : <<l, m>> \in T /\ <<m, n>> \in T => <<l, n>> \in T
  BY <1>1 DEF IsOrder
<1>6. IsOrder(T, Q)
  BY <1>2, <1>3, <1>4, <1>5 DEF IsOrder
<1> QED
  BY <1>6 DEF T

LEMMA RestrictedOrder ==
    ASSUME NEW P, NEW O, IsOrder(O, P), NEW D
    PROVE  IsOrder({pair \in O : pair[1] \in D /\ pair[2] \in D}, P \cap D)
<1> DEFINE T == {pair \in O : pair[1] \in D /\ pair[2] \in D}
<1>1. T \subseteq (P \cap D) \X (P \cap D)
  BY DEF IsOrder
<1>2. \A m, n \in P \cap D : <<m, n>> \in T <=> <<m, n>> \in O
  OBVIOUS
<1> HIDE DEF T
<1>3. IsOrder(T, P \cap D)
  BY <1>1, <1>2 DEF IsOrder
<1> QED
  BY <1>3 DEF T

LEMMA EarliestExists ==
    ASSUME NEW P, NEW O, IsOrder(O, P), NEW S, S \subseteq P, IsFiniteSet(S), S # {}
    PROVE  \E x \in S : \A y \in S \ {x} : <<x, y>> \in O
<1> DEFINE Before(x) == {y \in S : <<y, x>> \in O}
           T == {Cardinality(Before(x)) : x \in S}
<1>1. \A x \in S : Cardinality(Before(x)) \in Nat
  <2> SUFFICES ASSUME NEW x \in S PROVE Cardinality(Before(x)) \in Nat
    OBVIOUS
  <2>1. IsFiniteSet(Before(x))
    BY FS_Subset
  <2> QED
    BY <2>1, FS_CardinalityType
<1>2. PICK l \in T : \A k \in T : l <= k
  <2>1. T \subseteq Nat /\ T # {}
    BY <1>1
  <2> HIDE DEF T
  <2> QED
    BY <2>1, LeastNumber
<1>3. PICK x \in S : l = Cardinality(Before(x))
  OBVIOUS
<1>4. ASSUME NEW y \in S, y # x, <<x, y>> \notin O PROVE FALSE
  <2>1. <<y, x>> \in O
    BY <1>4 DEF IsOrder
  <2>2. Before(y) \subseteq Before(x)
    BY <2>1 DEF IsOrder
  <2>3. y \in Before(x) /\ y \notin Before(y)
    BY <2>1 DEF IsOrder
  <2>4. IsFiniteSet(Before(x))
    BY FS_Subset
  <2>5. Cardinality(Before(y)) \in T
    OBVIOUS
  <2>6. Cardinality(Before(x)) <= Cardinality(Before(y))
    BY <1>2, <1>3, <2>5
  <2> HIDE DEF Before, T
  <2>7. /\ Cardinality(Before(y)) \in Nat /\ Cardinality(Before(x)) \in Nat
        /\ Cardinality(Before(y)) < Cardinality(Before(x))
    BY <2>2, <2>3, <2>4, StrictlyFewer
  <2> QED
    BY <2>6, <2>7
<1> QED
  BY <1>4

LEMMA ColdestFacts ==
    ASSUME NEW t, TreeShape(t), NEW O, NEW P, IsOrder(O, P), Payloads(t) \subseteq P,
           PayloadLeaves(t) # {}
    PROVE  /\ Coldest(t, O) \in PayloadLeaves(t)
           /\ \A other \in PayloadLeaves(t) \ {Coldest(t, O)} : <<Coldest(t, O), other>> \in O
<1>1. PayloadLeaves(t) \subseteq P /\ PayloadLeaves(t) \subseteq DOMAIN t
  BY DEF PayloadLeaves, Payloads
<1>2. IsFiniteSet(PayloadLeaves(t))
  BY <1>1, FS_Subset DEF TreeShape
<1>3. \E leaf \in PayloadLeaves(t) : \A other \in PayloadLeaves(t) \ {leaf} : <<leaf, other>> \in O
  BY <1>1, <1>2, EarliestExists
<1> QED
  BY <1>3 DEF Coldest

----------------------------------------------------------------------------
(* The rounds of an eviction. *)

\* What any number of rounds does to the tree g: a node that goes held a payload, it is no
\* prefix of one that stays, and of those that were leaves all along it was the coldest.  No
\* round begins with room for another node.
Shrinks(g, O, s) ==
    /\ TreeShape(s) /\ DOMAIN s \subseteq DOMAIN g
    /\ \A m \in DOMAIN s : s[m].kv = g[m].kv /\ (g[m].children = <<>> => s[m].children = <<>>)
    /\ \A lost \in DOMAIN g \ DOMAIN s : lost \in Payloads(g)
    /\ \A lost \in DOMAIN g \ DOMAIN s, kept \in Payloads(s) :
         ~Below(lost, kept) /\ (g[kept].children = <<>> => <<lost, kept>> \in O)
    /\ s = g \/ Cardinality(DOMAIN s) >= CapacityNodes

LEMMA ShrunkShrinks ==
    ASSUME RadixAssumption, NEW g, NEW O, IsOrder(O, Payloads(g)), NEW s, Shrinks(g, O, s)
    PROVE  /\ Shrinks(g, O, Shrunk(s, O))
           /\ Cardinality(DOMAIN s) \in Nat
           /\ \/ Shrunk(s, O) = s /\ (Cardinality(DOMAIN s) > CapacityNodes => PayloadLeaves(s) = {})
              \/ Cardinality(DOMAIN Shrunk(s, O)) = Cardinality(DOMAIN s) - 1
<1>1. TreeShape(s) /\ IsFiniteSet(DOMAIN s) /\ CapacityNodes \in Nat
  BY DEF Shrinks, TreeShape, RadixAssumption
<1>2. Cardinality(DOMAIN s) \in Nat
  BY <1>1, FS_CardinalityType
<1>3. CASE ~(Cardinality(DOMAIN s) > CapacityNodes /\ PayloadLeaves(s) # {})
  <2>1. Shrunk(s, O) = s
    BY <1>3 DEF Shrunk
  <2> QED
    BY <1>2, <1>3, <2>1
<1>4. CASE Cardinality(DOMAIN s) > CapacityNodes /\ PayloadLeaves(s) # {}
  <2> DEFINE leaf == Coldest(s, O)
             r == WithoutLeaf(s, leaf)
  <2>1. Shrunk(s, O) = r
    BY <1>4 DEF Shrunk
  <2>2. Payloads(s) \subseteq Payloads(g)
    BY DEF Payloads, HasPayload, Shrinks
  <2>3. leaf \in PayloadLeaves(s) /\ \A other \in PayloadLeaves(s) \ {leaf} : <<leaf, other>> \in O
    BY <1>1, <1>4, <2>2, ColdestFacts
  <2>4. leaf \in Payloads(s) /\ leaf \in DOMAIN s /\ s[leaf].children = <<>> /\ leaf # Root
    BY <1>1, <2>3 DEF PayloadLeaves, Payloads, HasPayload, TreeShape
  <2>5. Sheds(s, leaf, r)
    BY <1>1, <2>4, WithoutSheds
  <2> HIDE DEF leaf, r
  <2>6. /\ TreeShape(r) /\ DOMAIN r = DOMAIN s \ {leaf}
        /\ \A m \in DOMAIN r : r[m].kv = s[m].kv /\ (s[m].children = <<>> => r[m].children = <<>>)
    BY <2>5 DEF Sheds
  <2>7. Cardinality(DOMAIN r) = Cardinality(DOMAIN s) - 1
    BY <1>1, <2>4, <2>6, FS_RemoveElement
  <2>8. Payloads(r) \subseteq Payloads(s) \ {leaf}
    BY <2>6 DEF Payloads, HasPayload
  <2>9. ASSUME NEW kept \in Payloads(r), Below(leaf, kept) PROVE FALSE
    <3>1. kept \in DOMAIN s /\ kept # leaf
      BY <2>8 DEF Payloads
    <3>2. kept \in Seq(Symbols) /\ leaf \in Seq(Symbols) /\ Len(kept) \in Nat /\ Len(leaf) \in Nat
      BY <1>1, <2>4, <3>1 DEF TreeShape
    <3>3. Len(leaf) < Len(kept)
      BY <2>9, <3>1, <3>2, SameSequence DEF Below
    <3>4. OnPath(s, leaf, kept)
      BY <1>1, <2>4, <2>9, <3>1, <3>3, Path
    <3> QED
      BY <2>4, <3>4 DEF OnPath
  <2>10. ASSUME NEW kept \in Payloads(r), g[kept].children = <<>> PROVE <<leaf, kept>> \in O
    <3>1. kept \in DOMAIN s /\ kept \in Payloads(s) /\ kept # leaf
      BY <2>8 DEF Payloads
    <3>2. s[kept].children = <<>>
      BY <2>10, <3>1 DEF Shrinks
    <3>3. kept \in PayloadLeaves(s)
      BY <3>1, <3>2 DEF PayloadLeaves
    <3> QED
      BY <2>3, <3>1, <3>3
  <2>11. DOMAIN r \subseteq DOMAIN g
    BY <2>6 DEF Shrinks
  <2>12. \A m \in DOMAIN r : r[m].kv = g[m].kv /\ (g[m].children = <<>> => r[m].children = <<>>)
    BY <2>6 DEF Shrinks
  <2>13. \A lost \in DOMAIN g \ DOMAIN r : lost \in DOMAIN g \ DOMAIN s \/ lost = leaf
    BY <2>6
  <2>14. \A lost \in DOMAIN g \ DOMAIN r : lost \in Payloads(g)
    BY <2>2, <2>4, <2>13 DEF Shrinks
  <2>15. \A lost \in DOMAIN g \ DOMAIN r, kept \in Payloads(r) :
           ~Below(lost, kept) /\ (g[kept].children = <<>> => <<lost, kept>> \in O)
    <3> SUFFICES ASSUME NEW lost \in DOMAIN g \ DOMAIN r, NEW kept \in Payloads(r)
                 PROVE  ~Below(lost, kept) /\ (g[kept].children = <<>> => <<lost, kept>> \in O)
      OBVIOUS
    <3>1. CASE lost = leaf
      BY <2>9, <2>10, <3>1
    <3>2. CASE lost \in DOMAIN g \ DOMAIN s
      BY <2>8, <3>2 DEF Shrinks
    <3> QED
      BY <2>13, <3>1, <3>2
  <2>16. Cardinality(DOMAIN r) >= CapacityNodes
    BY <1>1, <1>2, <1>4, <2>7
  <2>17. Shrinks(g, O, r)
    BY <2>6, <2>11, <2>12, <2>14, <2>15, <2>16 DEF Shrinks
  <2> QED
    BY <1>2, <2>1, <2>7, <2>17
<1> QED
  BY <1>3, <1>4

\* The rounds are as many as it takes: the tree has as many nodes, and each round but the
\* last one takes one away.
LEMMA EvictedShrinks ==
    ASSUME RadixAssumption, NEW g, TreeShape(g), NEW O, IsOrder(O, Payloads(g))
    PROVE  /\ Shrinks(g, O, Evicted(g, O))
           /\ Cardinality(DOMAIN Evicted(g, O)) > CapacityNodes => PayloadLeaves(Evicted(g, O)) = {}
<1> DEFINE N == Cardinality(DOMAIN g)
           Solves(f, k) == f = [n \in 0 .. k |-> IF n = 0 THEN g ELSE Shrunk(f[n - 1], O)]
           evict == CHOOSE f : Solves(f, N)
           Done(s) == Shrunk(s, O) = s /\ (Cardinality(DOMAIN s) > CapacityNodes => PayloadLeaves(s) = {})
<1>1. N \in Nat
  BY FS_CardinalityType DEF TreeShape
<1>2. Evicted(g, O) = evict[N]
  BY DEF Evicted
<1> HIDE DEF N
<1>3. \E f : Solves(f, N)
  <2> DEFINE T == {k \in Nat : \E f : Solves(f, k)}
  <2>1. 0 \in T
    <3> DEFINE f == [n \in 0 .. 0 |-> g]
    <3>1. Solves(f, 0)
      OBVIOUS
    <3> HIDE DEF f, Solves
    <3> QED
      BY <3>1
  <2>2. ASSUME NEW k \in Nat, k \in T PROVE k + 1 \in T
    <3>1. PICK f : Solves(f, k)
      BY <2>2
    <3> DEFINE h == [n \in 0 .. k + 1 |-> IF n = 0 THEN g ELSE Shrunk(f[n - 1], O)]
    <3>2. ASSUME NEW n \in 0 .. k PROVE h[n] = f[n]
      <4>1. f[n] = IF n = 0 THEN g ELSE Shrunk(f[n - 1], O)
        BY <3>1
      <4> QED
        BY <4>1
    <3>3. ASSUME NEW n \in 0 .. k + 1, n # 0 PROVE f[n - 1] = h[n - 1]
      <4>1. n - 1 \in 0 .. k
        BY <3>3
      <4> HIDE DEF h
      <4> QED
        BY <3>2, <4>1
    <3>4. Solves(h, k + 1)
      BY <3>3, Zenon
    <3> HIDE DEF h, Solves
    <3> QED
      BY <3>4
  <2>3. N \in T
    <3> HIDE DEF T
    <3> QED
      BY <1>1, <2>1, <2>2, Upwards
  <2> QED
    BY <2>3
<1>4. Solves(evict, N)
  <2> HIDE DEF Solves
  <2> QED
    BY <1>3
<1> HIDE DEF evict
<1>5. evict[0] = g /\ \A k \in 0 .. N - 1 : evict[k + 1] = Shrunk(evict[k], O)
  <2>1. ASSUME NEW n \in 0 .. N PROVE evict[n] = IF n = 0 THEN g ELSE Shrunk(evict[n - 1], O)
    BY <1>4
  <2>2. evict[0] = g
    BY <1>1, <2>1
  <2>3. ASSUME NEW k \in 0 .. N - 1 PROVE evict[k + 1] = Shrunk(evict[k], O)
    <3>1. k + 1 \in 0 .. N /\ k + 1 # 0 /\ (k + 1) - 1 = k
      BY <1>1
    <3> HIDE DEF Solves
    <3> QED
      BY <2>1, <3>1
  <2> QED
    BY <2>2, <2>3
<1> HIDE DEF Solves
<1>6. Shrinks(g, O, g)
  BY DEF Shrinks
<1> DEFINE Fine(k) == /\ Shrinks(g, O, evict[k])
                      /\ Done(evict[k]) \/ Cardinality(DOMAIN evict[k]) = N - k
           T == {k \in Nat : k <= N => Fine(k)}
<1>7. 0 \in T
  BY <1>1, <1>5, <1>6 DEF N
<1>8. ASSUME NEW k \in Nat, k \in T PROVE k + 1 \in T
  <2> SUFFICES ASSUME k + 1 <= N PROVE Fine(k + 1)
    OBVIOUS
  <2>1. Fine(k) /\ evict[k + 1] = Shrunk(evict[k], O)
    BY <1>1, <1>5, <1>8
  <2> DEFINE s == evict[k]
             r == evict[k + 1]
  <2>2. Shrinks(g, O, s) /\ (Done(s) \/ Cardinality(DOMAIN s) = N - k)
    BY <2>1
  <2>3. r = Shrunk(s, O)
    BY <2>1
  <2> HIDE DEF s, r
  <2>4. Shrinks(g, O, r) /\ (Done(s) \/ Cardinality(DOMAIN r) = Cardinality(DOMAIN s) - 1)
    BY <2>2, <2>3, ShrunkShrinks
  <2>5. CASE Done(s)
    BY <2>3, <2>4, <2>5 DEF r
  <2>6. CASE ~Done(s)
    <3>1. Cardinality(DOMAIN r) = N - (k + 1)
      BY <1>1, <2>2, <2>4, <2>6
    <3> QED
      BY <2>4, <3>1 DEF r
  <2> QED
    BY <2>5, <2>6
<1>9. N \in T
  <2> HIDE DEF T
  <2> QED
    BY <1>1, <1>7, <1>8, Upwards
<1>10. Fine(N)
  BY <1>1, <1>9
<1> DEFINE s == evict[N]
<1>11. Shrinks(g, O, s) /\ (Done(s) \/ Cardinality(DOMAIN s) = 0)
  BY <1>1, <1>10
<1> HIDE DEF s
<1>12. Root \in DOMAIN s /\ IsFiniteSet(DOMAIN s)
  BY <1>11 DEF Shrinks, TreeShape
<1>13. Cardinality(DOMAIN s) # 0
  BY <1>12, FS_EmptySet
<1> QED
  BY <1>2, <1>11, <1>13 DEF s

----------------------------------------------------------------------------
(***************************************************************************)
(* The invariant.  A request never holds more tokens as prefilled than its *)
(* prompt has, and holds rows as soon as one is: what it inserts is a      *)
(* payload.                                                                *)
(***************************************************************************)

NamesKnown == \A m \in DOMAIN tree : m = Root \/ \E prompt \in Prompts : Below(m, prompt)

RequestOK(q) ==
    \/ q = Absent
    \/ /\ q = [prompt |-> q.prompt, prefilled |-> q.prefilled, kv |-> q.kv, ready |-> q.ready]
       /\ q.prompt \in Prompts /\ q.prefilled \in 0 .. Len(q.prompt)
       /\ q.kv \in Seq(Symbols) /\ q.ready \in BOOLEAN
       /\ q.kv = <<>> => q.prefilled = 0

RadixInv ==
    /\ TreeShape(tree) /\ NamesKnown
    /\ IsOrder(older, Stored)
    /\ EvictsWhatItCan
    /\ request = [q \in Requests |-> request[q]] /\ \A r \in Requests : RequestOK(request[r])

LEMMA PromptsKnown ==
    ASSUME RadixAssumption, NEW prompt \in Prompts
    PROVE  prompt \in Seq(Symbols) /\ prompt # <<>> /\ Len(prompt) \in Nat /\ Len(prompt) > 0
BY OnlyRootEmpty DEF RadixAssumption, Root

LEMMA EmptyTreeShape ==
    /\ TreeShape(EmptyTree) /\ DOMAIN EmptyTree = {Root} /\ Payloads(EmptyTree) = {}
<1>1. DOMAIN EmptyTree = {Root} /\ EmptyTree[Root] = NewNode(<<>>, 0)
  BY DEF EmptyTree
<1>2. /\ EmptyTree[Root].tokens = <<>> /\ EmptyTree[Root].nPrefix = 0
      /\ EmptyTree[Root].children = <<>> /\ EmptyTree[Root].kv = <<>> /\ IsNode(EmptyTree[Root])
  BY <1>1 DEF NewNode, IsNode
<1>3. DOMAIN EmptyTree \subseteq Seq(Symbols) /\ IsFiniteSet(DOMAIN EmptyTree)
  BY <1>1, RootName, FS_Singleton
<1>4. \A n \in DOMAIN EmptyTree : IsNode(EmptyTree[n]) /\ EmptyTree[n].nPrefix = Len(n)
  BY <1>1, <1>2, RootName
<1>5. \A n \in DOMAIN EmptyTree : DOMAIN EmptyTree[n].children = {}
  BY <1>1, <1>2
<1>6. TreeShape(EmptyTree)
  BY <1>1, <1>2, <1>3, <1>4, <1>5 DEF TreeShape
<1> QED
  BY <1>1, <1>2, <1>6 DEF Payloads, HasPayload

LEMMA RadixInit ==
    ASSUME RadixAssumption, TreeInit
    PROVE  RadixInv
<1>1. tree = EmptyTree /\ older = {} /\ request = [r \in Requests |-> Absent]
  BY DEF TreeInit
<1>2. TreeShape(tree) /\ DOMAIN tree = {Root} /\ Stored = {}
  BY <1>1, EmptyTreeShape DEF Stored
<1>3. NamesKnown
  BY <1>2 DEF NamesKnown
<1>4. IsOrder(older, Stored)
  BY <1>1, <1>2 DEF IsOrder
<1>5. EvictsWhatItCan
  BY <1>2 DEF EvictsWhatItCan, PayloadLeaves, Stored
<1>6. request = [q \in Requests |-> request[q]] /\ \A r \in Requests : RequestOK(request[r])
  BY <1>1 DEF RequestOK
<1> QED
  BY <1>2, <1>3, <1>4, <1>5, <1>6 DEF RadixInv

\* The tree and the order of last_use after an insertion.
LEMMA InsertStep ==
    ASSUME RadixAssumption, RadixInv, NEW target \in Prompts, NEW kv \in Seq(Symbols), kv # <<>>,
           Insert(target, kv)
    PROVE  LET t == Grown(tree, target)
               grown == [t EXCEPT ![target].kv = kv]
               order == Touched(older, Payloads(grown), target)
           IN  /\ Grows(tree, t, target) /\ target \in DOMAIN t
               /\ Payloads(grown) = Stored \cup {target}
               /\ Shrinks(grown, order, tree') /\ EvictsWhatItCan'
               /\ IsOrder(older', Stored')
<1> DEFINE t == Grown(tree, target)
           grown == [t EXCEPT ![target].kv = kv]
           order == Touched(older, Payloads(grown), target)
<1>1. target \in Seq(Symbols) /\ target # Root
  BY PromptsKnown DEF Root
<1>2. TreeShape(tree) /\ IsOrder(older, Stored)
  BY DEF RadixInv
<1>3. Grows(tree, t, target) /\ target \in DOMAIN t
  BY <1>1, <1>2, GrownGrows
<1>4. tree' = Evicted(grown, order)
      /\ older' = {pair \in order : pair[1] \in DOMAIN tree' /\ pair[2] \in DOMAIN tree'}
  BY DEF Insert
<1> HIDE DEF t
<1>5. TreeShape(t)
  BY <1>3 DEF Grows
<1>6. TreeShape(grown)
  BY <1>1, <1>3, <1>5, StoringShape
<1>7. /\ DOMAIN grown = DOMAIN t /\ grown[target].kv = kv
      /\ \A m \in DOMAIN t \ {target} : grown[m] = t[m]
  <2>1. t[target] = [tokens |-> t[target].tokens, nPrefix |-> t[target].nPrefix,
                     children |-> t[target].children, kv |-> t[target].kv]
    BY <1>3, <1>5 DEF TreeShape, IsNode
  <2> QED
    BY <1>3, <2>1
<1> HIDE DEF grown
<1>8. Payloads(grown) = Stored \cup {target}
  BY <1>3, <1>7 DEF Payloads, HasPayload, Stored, Grows
<1>9. IsOrder(order, Payloads(grown))
  BY <1>2, <1>8, TouchedOrder
<1> HIDE DEF order
<1>10. /\ Shrinks(grown, order, tree')
       /\ Cardinality(DOMAIN tree') > CapacityNodes => PayloadLeaves(tree') = {}
  BY <1>4, <1>6, <1>9, EvictedShrinks
<1>11. EvictsWhatItCan'
  BY <1>10 DEF EvictsWhatItCan
<1>12. Stored' = Payloads(grown) \cap DOMAIN tree'
  BY <1>10 DEF Stored, Payloads, HasPayload, Shrinks
<1>13. IsOrder(older', Stored')
  BY <1>4, <1>9, <1>12, RestrictedOrder
<1> QED
  BY <1>3, <1>8, <1>10, <1>11, <1>13 DEF t, grown, order

\* What match() gives a new request: rows, and no more tokens than its prompt has.
LEMMA MatchGives ==
    ASSUME NEW t, TreeShape(t), NEW ids \in Seq(Symbols)
    PROVE  LET walked == Walk(t, ids)
               node == Climb(t, walked.node)
           IN  /\ node \in DOMAIN t
               /\ MatchedTokens(t, ids, walked, node) \in 0 .. Len(ids)
<1> DEFINE walked == Walk(t, ids)
           node == Climb(t, walked.node)
           k == Matched(t, ids, walked)
<1>1. Place(t, ids, walked)
  BY WalkEnds
<1>2. /\ walked \in [node : DOMAIN t, at : 0 .. Len(ids)] /\ walked.node \in DOMAIN t
      /\ walked.at = Len(walked.node) /\ Below(walked.node, ids)
  BY <1>1 DEF Place
<1>3. node \in DOMAIN t /\ Below(node, walked.node)
  BY <1>2, ClimbEnds
<1> HIDE DEF walked, node
<1>4. walked.at \in Nat /\ walked.at <= Len(ids) /\ Len(ids) \in Nat
  BY <1>2
<1>5. k \in Nat /\ walked.at + k <= Len(ids)
  <2>1. CASE HasChild(t, ids, walked)
    <3>1. MatchedKnown(t, ids, walked)
      BY <1>2, <2>1, MatchedFacts
    <3>2. k \in 1 .. Len(t[ChildAt(t, ids, walked)].tokens) /\ walked.at + k <= Len(ids)
          /\ t[ChildAt(t, ids, walked)].tokens \in Seq(Symbols)
      BY <3>1 DEF MatchedKnown
    <3> QED
      BY <3>2
  <2>2. CASE ~HasChild(t, ids, walked)
    BY <1>4, <2>2 DEF Matched
  <2> QED
    BY <2>1, <2>2
<1>6. Reached(t, ids, walked) \in 0 .. Len(ids)
  <2>1. Reached(t, ids, walked) = walked.at + k
    BY DEF Reached
  <2> HIDE DEF k
  <2> QED
    BY <1>4, <1>5, <2>1
<1>7. t[node].nPrefix \in 0 .. Len(ids)
  <2>1. t[node].nPrefix = Len(node) /\ Len(node) \in Nat
    BY <1>3 DEF TreeShape
  <2>2. Len(node) <= Len(walked.node)
    BY <1>3 DEF Below
  <2> QED
    BY <1>2, <1>4, <2>1, <2>2
<1>8. MatchedTokens(t, ids, walked, node) \in 0 .. Len(ids)
  BY <1>6, <1>7 DEF MatchedTokens
<1> QED
  BY <1>3, <1>8 DEF walked, node

LEMMA NewRequestStep ==
    ASSUME RadixAssumption, RadixInv, NEW r \in Requests, NEW prompt \in Prompts,
           NewRequest(r, prompt)
    PROVE  RadixInv'
<1> DEFINE walked == Walk(tree, prompt)
           node == Climb(tree, walked.node)
           n == MatchedTokens(tree, prompt, walked, node)
<1>1. TreeShape(tree) /\ IsOrder(older, Stored) /\ request = [q \in Requests |-> request[q]]
      /\ \A q \in Requests : RequestOK(request[q])
  BY DEF RadixInv
<1>2. prompt \in Seq(Symbols) /\ Len(prompt) \in Nat
  BY PromptsKnown
<1>3. node \in DOMAIN tree /\ n \in 0 .. Len(prompt)
  BY <1>1, <1>2, MatchGives
<1>4. UNCHANGED tree /\ Stored' = Stored /\ NamesKnown' /\ EvictsWhatItCan' /\ TreeShape(tree')
  BY DEF NewRequest, RadixInv, Stored, NamesKnown, EvictsWhatItCan
<1>5. request[r] = Absent
  BY DEF NewRequest
<1>6. IsOrder(older', Stored') /\ request' = [q \in Requests |-> request'[q]] /\ RequestOK(request'[r])
      /\ \A q \in Requests \ {r} : request'[q] = request[q]
  <2>1. CASE HasPayload(tree, node)
    <3> DEFINE warm == [prompt |-> prompt, prefilled |-> n, kv |-> tree[node].kv, ready |-> FALSE]
    <3>1. request' = [request EXCEPT ![r] = warm] /\ older' = Touched(older, Payloads(tree), node)
      BY <2>1 DEF NewRequest
    <3>2. tree[node].kv \in Seq(Symbols)
      BY <1>1, <1>3 DEF TreeShape, IsNode
    <3>3. tree[node].kv # <<>>
      BY <2>1 DEF HasPayload
    <3>4. Payloads(tree) = Stored \cup {node}
      BY <1>3, <2>1 DEF Stored, Payloads
    <3>5. IsOrder(older', Stored')
      <4> HIDE DEF node
      <4>1. Payloads(tree) = Stored
        BY DEF Stored
      <4> QED
        BY <1>1, <1>4, <3>1, <3>4, <4>1, TouchedOrder
    <3> HIDE DEF n, node
    <3>6. RequestOK(warm)
      BY <1>3, <3>2, <3>3 DEF RequestOK
    <3> HIDE DEF warm
    <3> QED
      BY <1>1, <3>1, <3>5, <3>6
  <2>2. CASE ~HasPayload(tree, node)
    <3> DEFINE cold == [Absent EXCEPT !.prompt = prompt]
    <3>1. request' = [request EXCEPT ![r].prompt = prompt] /\ UNCHANGED older
      BY <2>2 DEF NewRequest
    <3>2. request'[r] = cold
      BY <1>1, <1>5, <3>1
    <3>3. RequestOK(cold)
      <4>1. cold = [prompt |-> cold.prompt, prefilled |-> cold.prefilled, kv |-> cold.kv,
                    ready |-> cold.ready]
        <5>1. Absent = [prompt |-> Absent.prompt, prefilled |-> Absent.prefilled,
                        kv |-> Absent.kv, ready |-> Absent.ready]
          BY DEF Absent
        <5> QED
          BY <5>1
      <4>2. cold.prompt = prompt /\ cold.prefilled = 0 /\ cold.kv = <<>> /\ cold.ready = FALSE
        BY DEF Absent
      <4>3. <<>> \in Seq(Symbols) /\ 0 \in 0 .. Len(prompt)
        BY <1>2
      <4> HIDE DEF cold
      <4> QED
        BY <4>1, <4>2, <4>3 DEF RequestOK
    <3> QED
      BY <1>1, <1>4, <3>1, <3>2, <3>3
  <2> QED
    BY <2>1, <2>2
<1> QED
  BY <1>1, <1>4, <1>6 DEF RadixInv

\* The next chunk of a request, and what it inserts with the last one.
LEMMA PrefillStep ==
    ASSUME RadixAssumption, RadixInv, NEW r \in Requests, Prefill(r)
    PROVE  /\ request' = [q \in Requests |-> request'[q]] /\ \A q \in Requests : RequestOK(request'[q])
           /\ \/ UNCHANGED <<tree, older>>
              \/ \E target \in Prompts, kv \in Seq(Symbols) : kv # <<>> /\ Insert(target, kv)
<1> DEFINE state == request[r]
           remaining == Len(state.prompt) - state.prefilled
           n == IF remaining < PrefillChunk THEN remaining ELSE PrefillChunk
           more == SubSeq(state.prompt, state.prefilled + 1, state.prefilled + n)
           kv == state.kv \o more
           through == n = remaining
           next == [prompt |-> state.prompt, prefilled |-> state.prefilled + n,
                    kv |-> kv, ready |-> through]
<1>1. request = [q \in Requests |-> request[q]] /\ \A q \in Requests : RequestOK(request[q])
  BY DEF RadixInv
<1>2. state # Absent /\ request' = [request EXCEPT ![r] = next]
      /\ IF through THEN Insert(state.prompt, kv) ELSE UNCHANGED <<tree, older>>
  BY Zenon DEF Prefill
<1>3. /\ state = [prompt |-> state.prompt, prefilled |-> state.prefilled,
                  kv |-> state.kv, ready |-> state.ready]
      /\ state.prompt \in Prompts /\ state.prefilled \in 0 .. Len(state.prompt)
      /\ state.kv \in Seq(Symbols) /\ (state.kv = <<>> => state.prefilled = 0)
  BY <1>1, <1>2 DEF RequestOK
<1> HIDE DEF state
<1>4. /\ state.prompt \in Seq(Symbols) /\ Len(state.prompt) \in Nat /\ Len(state.prompt) > 0
      /\ state.prefilled \in Nat /\ remaining \in Nat /\ PrefillChunk \in Nat \ {0}
  BY <1>3, PromptsKnown DEF RadixAssumption
<1>5. /\ n \in Nat /\ n <= remaining /\ (remaining > 0 => n > 0)
      /\ state.prefilled + n \in 0 .. Len(state.prompt)
  BY <1>3, <1>4
<1> HIDE DEF n
<1>6. more \in Seq(Symbols) /\ Len(more) = n
  BY <1>3, <1>4, <1>5, SMTT(30)
<1> HIDE DEF more
<1>7. kv \in Seq(Symbols) /\ Len(kv) = Len(state.kv) + n /\ Len(state.kv) \in Nat
  BY <1>3, <1>6
<1> HIDE DEF kv
<1>8. kv = <<>> => state.kv = <<>> /\ n = 0
  BY <1>3, <1>5, <1>7
<1>9. kv = <<>> => state.prefilled + n = 0
  BY <1>3, <1>8
<1>10. through => kv # <<>>
  <2> SUFFICES ASSUME through, kv = <<>> PROVE FALSE
    OBVIOUS
  <2>1. remaining = Len(state.prompt) /\ n = 0
    BY <1>3, <1>4, <1>8
  <2> QED
    BY <1>4, <2>1
<1>a. through \in BOOLEAN
  OBVIOUS
<1> HIDE DEF remaining, through
<1>11. RequestOK(next)
  <2>1. next = [prompt |-> next.prompt, prefilled |-> next.prefilled, kv |-> next.kv,
                ready |-> next.ready]
    OBVIOUS
  <2>2. next.prompt = state.prompt /\ next.prefilled = state.prefilled + n
        /\ next.kv = kv /\ next.ready = through
    OBVIOUS
  <2> HIDE DEF next
  <2> QED
    BY <1>a, <1>3, <1>5, <1>7, <1>9, <2>1, <2>2 DEF RequestOK
<1> HIDE DEF next
<1>12. request' = [q \in Requests |-> request'[q]] /\ \A q \in Requests : RequestOK(request'[q])
  BY <1>1, <1>2, <1>11
<1> QED
  BY <1>2, <1>3, <1>7, <1>10, <1>12

LEMMA RadixStep ==
    ASSUME RadixAssumption, RadixInv, [TreeNext]_radixVars
    PROVE  RadixInv'
<1>1. TreeShape(tree) /\ NamesKnown /\ IsOrder(older, Stored) /\ EvictsWhatItCan
      /\ request = [q \in Requests |-> request[q]] /\ \A r \in Requests : RequestOK(request[r])
  BY DEF RadixInv
<1>2. ASSUME NEW r \in Requests, NEW prompt \in Prompts, NewRequest(r, prompt)
      PROVE  RadixInv'
  BY <1>2, NewRequestStep
<1>3. ASSUME NEW r \in Requests, Prefill(r) PROVE RadixInv'
  <2>1. request' = [q \in Requests |-> request'[q]] /\ \A q \in Requests : RequestOK(request'[q])
    BY <1>3, PrefillStep
  <2>2. CASE UNCHANGED <<tree, older>>
    <3>1. TreeShape(tree') /\ NamesKnown' /\ IsOrder(older', Stored') /\ EvictsWhatItCan'
      BY <1>1, <2>2 DEF NamesKnown, Stored, EvictsWhatItCan
    <3> QED
      BY <2>1, <3>1 DEF RadixInv
  <2>3. ASSUME NEW target \in Prompts, NEW kv \in Seq(Symbols), kv # <<>>, Insert(target, kv)
        PROVE  RadixInv'
    <3> DEFINE t == Grown(tree, target)
               grown == [t EXCEPT ![target].kv = kv]
               order == Touched(older, Payloads(grown), target)
    <3>1. /\ Grows(tree, t, target) /\ target \in DOMAIN t
          /\ Payloads(grown) = Stored \cup {target}
          /\ Shrinks(grown, order, tree') /\ EvictsWhatItCan'
          /\ IsOrder(older', Stored')
      BY <2>3, InsertStep
    <3>2. DOMAIN grown = DOMAIN t
      OBVIOUS
    <3> HIDE DEF t, grown, order
    <3>3. TreeShape(tree') /\ DOMAIN tree' \subseteq DOMAIN t
      BY <3>1, <3>2 DEF Shrinks
    <3>4. NamesKnown'
      <4>1. \A m \in DOMAIN tree' : m \in DOMAIN tree \/ Below(m, target)
        BY <3>1, <3>3 DEF Grows
      <4> QED
        BY <1>1, <4>1 DEF NamesKnown
    <3> QED
      BY <2>1, <3>1, <3>3, <3>4 DEF RadixInv
  <2> QED
    BY <1>3, <2>2, <2>3, PrefillStep
<1>4. ASSUME NEW r \in Requests, Retire(r) PROVE RadixInv'
  <2>1. UNCHANGED <<tree, older>> /\ request' = [request EXCEPT ![r] = Absent]
    BY <1>4 DEF Retire
  <2>2. TreeShape(tree') /\ NamesKnown' /\ IsOrder(older', Stored') /\ EvictsWhatItCan'
    BY <1>1, <2>1 DEF NamesKnown, Stored, EvictsWhatItCan
  <2>3. request' = [q \in Requests |-> request'[q]] /\ \A q \in Requests : RequestOK(request'[q])
    BY <1>1, <2>1 DEF RequestOK
  <2> QED
    BY <2>2, <2>3 DEF RadixInv
<1>5. CASE Clear
  <2>1. tree' = EmptyTree /\ older' = {} /\ UNCHANGED request
    BY <1>5 DEF Clear
  <2>2. TreeShape(tree') /\ DOMAIN tree' = {Root} /\ Stored' = {}
    BY <2>1, EmptyTreeShape DEF Stored
  <2>3. NamesKnown'
    BY <2>2 DEF NamesKnown
  <2>4. IsOrder(older', Stored')
    BY <2>1, <2>2 DEF IsOrder
  <2>5. EvictsWhatItCan'
    BY <2>2 DEF EvictsWhatItCan, PayloadLeaves, Stored
  <2> QED
    BY <1>1, <2>1, <2>2, <2>3, <2>4, <2>5 DEF RadixInv
<1>6. CASE UNCHANGED radixVars
  <2>1. UNCHANGED <<tree, older, request>>
    BY <1>6 DEF radixVars
  <2> QED
    BY <1>1, <2>1 DEF RadixInv, NamesKnown, Stored, EvictsWhatItCan
<1> QED
  BY <1>2, <1>3, <1>4, <1>5, <1>6 DEF TreeNext

----------------------------------------------------------------------------
(* The theorems. *)

THEOREM RadixInvariant == ASSUME RadixAssumption PROVE TreeSpec => []RadixInv
<1>1. TreeInit => RadixInv
  BY RadixInit
<1>2. RadixInv /\ [TreeNext]_radixVars => RadixInv'
  BY RadixStep
<1> QED
  BY <1>1, <1>2, PTL DEF TreeSpec

\* The nodes are paths of symbols whose children are nodes, and last_use orders exactly the
\* nodes with a payload (radix_cache.py).
THEOREM RadixTypes == ASSUME RadixAssumption PROVE TreeSpec => []RadixTypeOK
<1>1. RadixInv => RadixTypeOK
  <2> SUFFICES ASSUME RadixInv PROVE RadixTypeOK
    OBVIOUS
  <2>1. TreeShape(tree) /\ NamesKnown /\ IsOrder(older, Stored)
        /\ request = [q \in Requests |-> request[q]] /\ \A r \in Requests : RequestOK(request[r])
    BY DEF RadixInv
  <2>2. \A m \in DOMAIN tree : m \in Seq(Symbols) /\ Len(m) \in Nat
    BY <2>1 DEF TreeShape
  <2>3. DOMAIN tree \subseteq {Root} \cup UNION {Prefixes(prompt) : prompt \in Prompts}
    <3> SUFFICES ASSUME NEW m \in DOMAIN tree, NEW prompt \in Prompts, Below(m, prompt)
                 PROVE  m \in Prefixes(prompt)
      BY <2>1 DEF NamesKnown
    <3>1. prompt \in Seq(Symbols) /\ Len(prompt) \in Nat
      BY PromptsKnown
    <3>2. Len(m) \in 0 .. Len(prompt) /\ m = SubSeq(prompt, 1, Len(m))
      <4> DEFINE front == SubSeq(prompt, 1, Len(m))
      <4>1. Len(m) \in 0 .. Len(prompt)
        BY <2>2, <3>1 DEF Below
      <4>2. front \in Seq(Symbols) /\ Len(front) = Len(m) /\ \A i \in 1 .. Len(m) : front[i] = prompt[i]
        BY <3>1, <4>1
      <4> HIDE DEF front
      <4>3. m = front
        BY <2>2, <4>2, SameSequence DEF Below
      <4> QED
        BY <4>1, <4>3 DEF front
    <3> QED
      BY <3>2 DEF Prefixes
  <2>4. ASSUME NEW node \in DOMAIN tree
        PROVE  /\ tree[node].tokens \in Seq(Symbols) /\ tree[node].nPrefix \in Nat
               /\ DOMAIN tree[node].children \subseteq Symbols
               /\ Children(tree, node) \subseteq DOMAIN tree
               /\ tree[node].kv \in Seq(Symbols)
    <3>1. IsNode(tree[node]) /\ tree[node].nPrefix = Len(node)
      BY <2>1 DEF TreeShape
    <3>2. ASSUME NEW x \in DOMAIN tree[node].children
          PROVE  x \in Symbols /\ tree[node].children[x] \in DOMAIN tree
      <4> DEFINE c == tree[node].children[x]
      <4>1. Edge(tree, node, x)
        BY <2>1 DEF TreeShape
      <4>2. c \in DOMAIN tree /\ x = c[Len(node) + 1] /\ Len(node) < Len(c)
        BY <4>1 DEF Edge, Hangs
      <4> HIDE DEF c
      <4>3. c \in Seq(Symbols) /\ Len(node) + 1 \in 1 .. Len(c)
        BY <2>2, <4>2
      <4>4. x \in Symbols
        BY <4>2, <4>3
      <4> QED
        BY <4>2, <4>4 DEF c
    <3>3. Children(tree, node) \subseteq DOMAIN tree
      BY <3>2 DEF Children, Range
    <3> QED
      BY <2>2, <3>1, <3>2, <3>3 DEF IsNode
  <2>5. /\ older \subseteq Stored \X Stored
        /\ \A m, n \in Stored : (<<m, n>> \in older) # (m = n \/ <<n, m>> \in older)
        /\ \A m, n, o \in Stored : <<m, n>> \in older /\ <<n, o>> \in older => <<m, o>> \in older
    BY <2>1 DEF IsOrder
  <2>6. request \in [Requests -> [prompt : Prompts \cup {<<>>}, prefilled : Nat,
                                  kv : Seq(Symbols), ready : BOOLEAN]]
    <3> DEFINE R == [prompt : Prompts \cup {<<>>}, prefilled : Nat, kv : Seq(Symbols), ready : BOOLEAN]
    <3>1. ASSUME NEW r \in Requests PROVE request[r] \in R
      <4>1. Absent \in R
        BY DEF Absent
      <4>2. ASSUME NEW q, RequestOK(q), q # Absent PROVE q \in R
        <5>1. /\ q = [prompt |-> q.prompt, prefilled |-> q.prefilled, kv |-> q.kv, ready |-> q.ready]
              /\ q.prompt \in Prompts /\ q.prefilled \in 0 .. Len(q.prompt)
              /\ q.kv \in Seq(Symbols) /\ q.ready \in BOOLEAN
          BY <4>2 DEF RequestOK
        <5>2. q.prefilled \in Nat
          BY <5>1, PromptsKnown
        <5> QED
          BY <5>1, <5>2
      <4> HIDE DEF R
      <4> QED
        BY <2>1, <4>1, <4>2
    <3> HIDE DEF R
    <3>2. [q \in Requests |-> request[q]] \in [Requests -> R]
      BY <3>1
    <3>3. request = [q \in Requests |-> request[q]]
      BY <2>1
    <3>4. request \in [Requests -> R]
      BY <3>2, <3>3, Zenon
    <3> QED
      BY <3>4 DEF R
  <2> QED
    BY <2>3, <2>4, <2>5, <2>6 DEF RadixTypeOK
<1> QED
  BY <1>1, RadixInvariant, PTL

\* Whatever is inserted, split, evicted and cleared, the edges spell the stored prefixes,
\* match() finds the longest of them and no leaf that could go is left above the capacity
\* (radix_cache.py, insert, match and _evict_if_needed).
THEOREM RadixTreeExact == ASSUME RadixAssumption PROVE TreeSpec => []TreeExact
<1>1. RadixInv => TreeExact
  BY ShapeSpells, ShapeMatches DEF RadixInv, TreeExact
<1> QED
  BY <1>1, RadixInvariant, PTL

\* Whatever goes is no prefix of what stays, and was used before every leaf that stays but the
\* one that was used in this very step (radix_cache.py, _lru_leaf and _evict_if_needed).
THEOREM RadixEvictsColdest == ASSUME RadixAssumption PROVE TreeSpec => EvictsColdestLeaf
<1> DEFINE Fair(lost, kept) ==
             /\ ~IsPrefix(lost, kept)
             /\ kept \in PayloadLeaves(tree) \cap PayloadLeaves(tree') =>
                  \/ \A other \in Stored' \ {kept} : <<other, kept>> \in older'
                  \/ <<lost, kept>> \in older
           Colder == \A lost \in Stored \ Stored', kept \in Stored' : Fair(lost, kept)
<1>1. RadixInv /\ [TreeNext]_radixVars => [Colder]_radixVars
  <2> SUFFICES ASSUME RadixInv, TreeNext, NEW lost \in Stored \ Stored', NEW kept \in Stored'
               PROVE  Fair(lost, kept)
    OBVIOUS
  <2>1. CASE UNCHANGED tree
    BY <2>1 DEF Stored
  <2>2. CASE Clear
    <3>1. Stored' = {}
      BY <2>2, EmptyTreeShape DEF Clear, Stored
    <3> QED
      BY <3>1
  <2>3. ASSUME NEW target \in Prompts, NEW kv \in Seq(Symbols), kv # <<>>, Insert(target, kv)
        PROVE  Fair(lost, kept)
    <3> DEFINE t == Grown(tree, target)
               grown == [t EXCEPT ![target].kv = kv]
               order == Touched(older, Payloads(grown), target)
    <3>1. /\ Grows(tree, t, target) /\ target \in DOMAIN t
          /\ Payloads(grown) = Stored \cup {target}
          /\ Shrinks(grown, order, tree') /\ EvictsWhatItCan'
          /\ IsOrder(older', Stored')
      BY <2>3, InsertStep
    <3>2. older' = {pair \in order : pair[1] \in DOMAIN tree' /\ pair[2] \in DOMAIN tree'}
      BY <2>3 DEF Insert
    <3>3. DOMAIN grown = DOMAIN t /\ \A m \in DOMAIN t : grown[m].children = t[m].children
      <4>1. TreeShape(t)
        BY <3>1 DEF Grows
      <4>2. t[target] = [tokens |-> t[target].tokens, nPrefix |-> t[target].nPrefix,
                         children |-> t[target].children, kv |-> t[target].kv]
        BY <3>1, <4>1 DEF TreeShape, IsNode
      <4> QED
        BY <3>1, <4>2
    <3>4. \A m, n : <<m, n>> \in order <=> (<<m, n>> \in older /\ m # target /\ n # target)
                                            \/ (m \in Stored \cup {target} /\ m # target /\ n = target)
      <4> DEFINE P == Payloads(grown)
      <4>1. order = Touched(older, P, target) /\ P = Stored \cup {target}
        BY <3>1
      <4> HIDE DEF P, order
      <4>2. \A m, n : <<m, n>> \in Touched(older, P, target)
                       <=> (<<m, n>> \in older /\ m # target /\ n # target)
                           \/ (m \in P /\ m # target /\ n = target)
        BY DEF Touched
      <4> QED
        BY <4>1, <4>2
    <3> HIDE DEF t, grown, order
    <3>5. Stored' = (Stored \cup {target}) \cap DOMAIN tree'
      BY <3>1 DEF Stored, Payloads, HasPayload, Shrinks
    <3>6. lost \in DOMAIN grown \ DOMAIN tree' /\ lost \in Stored /\ lost \in DOMAIN tree
      <4>1. lost \in Stored /\ lost \notin DOMAIN tree'
        BY <3>5
      <4>2. lost \in DOMAIN tree /\ lost \in DOMAIN grown
        BY <3>1, <3>3, <4>1 DEF Stored, Payloads, Grows
      <4> QED
        BY <4>1, <4>2
    <3>7. kept \in Payloads(tree') /\ kept \in DOMAIN tree' /\ kept \in Stored \cup {target}
      BY <3>5 DEF Stored
    <3>8. ~Below(lost, kept) /\ (grown[kept].children = <<>> => <<lost, kept>> \in order)
      BY <3>1, <3>6, <3>7 DEF Shrinks
    <3>9. TreeShape(tree) /\ TreeShape(tree')
      BY <3>1 DEF RadixInv, Shrinks
    <3>10. ~IsPrefix(lost, kept)
      <4>1. lost \in Seq(Symbols) /\ kept \in Seq(Symbols)
        BY <3>6, <3>7, <3>9 DEF TreeShape
      <4> QED
        BY <3>8, <4>1, PrefixBelow
    <3>11. CASE kept = target
      <4>1. \A other \in Stored' \ {kept} : <<other, kept>> \in older'
        BY <3>2, <3>4, <3>5, <3>7, <3>11
      <4> QED
        BY <3>10, <4>1
    <3>12. CASE kept # target /\ grown[kept].children = <<>>
      <4>1. <<lost, kept>> \in older
        BY <3>4, <3>8, <3>12
      <4> QED
        BY <3>10, <4>1
    <3>13. CASE kept # target /\ grown[kept].children # <<>>
      <4> SUFFICES ASSUME kept \in PayloadLeaves(tree), kept \in PayloadLeaves(tree') PROVE FALSE
        BY <3>10
      <4>1. /\ kept \in DOMAIN tree /\ tree[kept].children = <<>> /\ tree'[kept].children = <<>>
        BY DEF PayloadLeaves, Payloads
      <4>2. t[kept].children # <<>>
        BY <3>1, <3>3, <3>13, <4>1 DEF Grows
      <4>3. target \notin DOMAIN tree /\ DOMAIN t = DOMAIN tree \cup {target} /\ Below(kept, target)
        BY <3>1, <4>1, <4>2 DEF Grows
      <4>4. target \notin DOMAIN tree'
        <5> SUFFICES ASSUME target \in DOMAIN tree' PROVE FALSE
          OBVIOUS
        <5>1. /\ kept \in Seq(Symbols) /\ target \in Seq(Symbols)
              /\ Len(kept) \in Nat /\ Len(target) \in Nat
          BY <3>7, <3>9 DEF TreeShape
        <5>2. Len(kept) < Len(target)
          BY <3>13, <4>3, <5>1, SameSequence DEF Below
        <5>3. OnPath(tree', kept, target)
          BY <3>7, <3>9, <4>3, <5>2, Path
        <5> QED
          BY <4>1, <5>3 DEF OnPath
      <4>5. DOMAIN tree' \subseteq DOMAIN tree /\ lost \in DOMAIN tree /\ lost \notin DOMAIN tree'
        BY <3>1, <3>3, <3>6, <4>3, <4>4 DEF Shrinks
      <4>6. IsFiniteSet(DOMAIN tree) /\ CapacityNodes \in Nat
        BY <3>9 DEF TreeShape, RadixAssumption
      <4>7. /\ Cardinality(DOMAIN tree') \in Nat /\ Cardinality(DOMAIN tree) \in Nat
            /\ Cardinality(DOMAIN tree') < Cardinality(DOMAIN tree)
        BY <4>5, <4>6, StrictlyFewer
      <4>8. Cardinality(DOMAIN tree') >= CapacityNodes
        <5>1. tree' # grown
          BY <3>6
        <5> QED
          BY <3>1, <5>1 DEF Shrinks
      <4>9. ~(Cardinality(DOMAIN tree) > CapacityNodes)
        <5>1. EvictsWhatItCan /\ PayloadLeaves(tree) # {}
          BY DEF RadixInv
        <5> QED
          BY <5>1 DEF EvictsWhatItCan
      <4> QED
        BY <4>6, <4>7, <4>8, <4>9
    <3> QED
      BY <3>11, <3>12, <3>13
  <2>4. ASSUME NEW r \in Requests, Prefill(r) PROVE Fair(lost, kept)
    <3>1. \/ UNCHANGED <<tree, older>>
          \/ \E target \in Prompts, kv \in Seq(Symbols) : kv # <<>> /\ Insert(target, kv)
      BY <2>4, PrefillStep
    <3> HIDE DEF Fair
    <3> QED
      BY <2>1, <2>3, <3>1
  <2> HIDE DEF Fair
  <2>5. ASSUME NEW r \in Requests, NEW prompt \in Prompts, NewRequest(r, prompt)
        PROVE  Fair(lost, kept)
    BY <2>1, <2>5 DEF NewRequest
  <2>6. ASSUME NEW r \in Requests, Retire(r) PROVE Fair(lost, kept)
    BY <2>1, <2>6 DEF Retire
  <2> QED
    BY <2>2, <2>4, <2>5, <2>6 DEF TreeNext
<1>2. [][Colder]_radixVars <=> EvictsColdestLeaf
  BY DEF EvictsColdestLeaf
<1> HIDE DEF Colder
<1>3. TreeSpec => [][TreeNext]_radixVars
  BY PTL DEF TreeSpec
<1> QED
  BY <1>1, <1>2, <1>3, RadixInvariant, PTL

=============================================================================
