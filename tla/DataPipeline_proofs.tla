------------------------ MODULE DataPipeline_proofs ------------------------
(***************************************************************************)
(* DataExact of DataPipeline, for every set of tokenizers, lengths of      *)
(* documents and block sizes, every batch size and every number of packs;  *)
(* and EncodeExact of Bpe, for every alphabet, document, text and number   *)
(* of merges.                                                              *)
(*                                                                         *)
(* The inductive invariant DataInv says what the files hold (FilesMatch)   *)
(* and where an epoch is (EpochsHold).  A packed file is a stream, whose   *)
(* places increase, so none comes twice; its rows cut the first U * B of   *)
(* them; and the pairs trained so far are those of the rows that the order *)
(* does not hold any more, each once.  The row of a chat is exact when it  *)
(* is made.                                                                *)
(*                                                                         *)
(* The inductive invariant BpeInv says of the encoder that its living      *)
(* positions are a rising sequence, linked both ways; that every ranked    *)
(* pair of neighbours is in the heap; that the living tokens spell the     *)
(* text, and that merging on from them ends where merging from the text    *)
(* does.  The least entry that is not stale is the leftmost place of the   *)
(* first merge there is, which may be merged first.  Of the trainer it     *)
(* says that no pair it has learned is left in its document.               *)
(***************************************************************************)
EXTENDS TrainingParts_proofs

----------------------------------------------------------------------------
(* Sequences of sequences. *)

\* FlattenSeq by its equations.
LEMMA FlattenIs ==
    ASSUME NEW S, NEW seqs \in Seq(Seq(S))
    PROVE  \E F \in [0 .. Len(seqs) -> Seq(S)] :
             /\ F[0] = <<>> /\ \A n \in 1 .. Len(seqs) : F[n] = F[n - 1] \o seqs[n]
             /\ Data!FlattenSeq(seqs) = F[Len(seqs)]
<1> DEFINE N == Len(seqs)
           D == Seq(S)
           next == [p \in (1 .. N) \X D |-> p[2] \o seqs[p[1]]]
           Solves(f) == f = [i \in 1 .. N |-> IF i = 1 THEN seqs[i] ELSE f[i - 1] \o seqs[i]]
           flatten == CHOOSE f : Solves(f)
<1>1. N \in Nat /\ <<>> \in D /\ \A n \in 1 .. N : seqs[n] \in D
  OBVIOUS
<1>2. N # 0 => Data!FlattenSeq(seqs) = flatten[N]
  BY DEF Data!FlattenSeq
<1>3. N = 0 => Data!FlattenSeq(seqs) = <<>>
  BY DEF Data!FlattenSeq
<1>c. \A x, y \in D : x \o y \in D
  OBVIOUS
<1>e. \A x \in D : <<>> \o x = x
  OBVIOUS
<1> HIDE DEF D, N
<1>4. next \in [(1 .. N) \X D -> D] /\ \A n \in 1 .. N, x \in D : next[<<n, x>>] = x \o seqs[n]
  BY <1>1, <1>c
<1> HIDE DEF next
<1>5. PICK F : Recurs(F, N, D, <<>>, next)
  BY <1>1, <1>4, Recursion
<1>6. /\ F \in [0 .. N -> D] /\ F[0] = <<>>
      /\ \A n \in 1 .. N : n \in 0 .. N /\ n - 1 \in 0 .. N /\ F[n] = F[n - 1] \o seqs[n]
  <2>1. F \in [0 .. N -> D] /\ F[0] = <<>>
    BY <1>5 DEF Recurs
  <2>2. ASSUME NEW n \in 1 .. N
        PROVE  n \in 0 .. N /\ n - 1 \in 0 .. N /\ F[n] = F[n - 1] \o seqs[n]
    <3>1. n \in 0 .. N /\ n - 1 \in 0 .. N
      BY <1>1
    <3>2. F[n] = next[<<n, F[n - 1]>>] /\ F[n - 1] \in D
      BY <1>5, <3>1 DEF Recurs
    <3> QED
      BY <1>4, <3>1, <3>2
  <2> QED
    BY <2>1, <2>2
<1> DEFINE f == [i \in 1 .. N |-> F[i]]
<1>7. Solves(f)
  <2>1. ASSUME NEW i \in 1 .. N
        PROVE  f[i] = IF i = 1 THEN seqs[i] ELSE f[i - 1] \o seqs[i]
    <3>1. f[i] = F[i] /\ F[i] = F[i - 1] \o seqs[i]
      BY <1>6
    <3>2. CASE i = 1
      <4>1. F[i - 1] = <<>>
        BY <1>6, <3>2
      <4> QED
        BY <1>1, <1>e, <3>1, <3>2, <4>1
    <3>3. CASE i # 1
      <4>1. i - 1 \in 1 .. N
        BY <1>1, <3>3
      <4> QED
        BY <3>1, <3>3, <4>1
    <3> QED
      BY <3>2, <3>3
  <2>2. f = [i \in 1 .. N |-> f[i]]
    OBVIOUS
  <2> HIDE DEF f
  <2> QED
    BY <2>1, <2>2
<1>8. Solves(flatten)
  <2> HIDE DEF Solves
  <2> QED
    BY <1>7
<1> HIDE DEF flatten
<1>9. \A i \in 1 .. N : flatten[i] = IF i = 1 THEN seqs[i] ELSE flatten[i - 1] \o seqs[i]
  BY <1>8
<1> DEFINE T == {n \in 0 .. N : n # 0 => flatten[n] = F[n]}
<1>10. 0 \in T
  BY <1>1
<1>11. ASSUME NEW n \in 0 .. N - 1, n \in T PROVE n + 1 \in T
  <2>1. n + 1 \in 1 .. N /\ (n + 1) - 1 = n /\ (n # 0 => flatten[n] = F[n])
    BY <1>1, <1>11
  <2>2. F[n + 1] = F[n] \o seqs[n + 1]
    BY <1>6, <2>1
  <2>3. flatten[n + 1] = IF n + 1 = 1 THEN seqs[n + 1] ELSE flatten[n] \o seqs[n + 1]
    BY <1>9, <2>1
  <2>4. CASE n = 0
    <3>1. F[n] = <<>> /\ seqs[n + 1] \in D /\ n + 1 = 1
      BY <1>1, <1>6, <2>1, <2>4
    <3> QED
      BY <1>1, <1>e, <2>1, <2>2, <2>3, <3>1
  <2>5. CASE n # 0
    <3>1. n + 1 # 1 /\ n + 1 \in 0 .. N
      BY <1>1, <2>5
    <3> QED
      BY <2>1, <2>2, <2>3, <2>5, <3>1
  <2> QED
    BY <2>4, <2>5
<1> HIDE DEF T
<1>12. \A n \in 0 .. N : n \in T
  BY <1>1, <1>10, <1>11, UpTo
<1>13. N \in 0 .. N
  BY <1>1
<1>14. Data!FlattenSeq(seqs) = F[N]
  BY <1>2, <1>3, <1>6, <1>12, <1>13 DEF T
<1> QED
  BY <1>6, <1>14 DEF N, D

\* Neighbours are in R, and x is an element of one of the sequences.
Linked(s, R) == \A i \in 1 .. Len(s) - 1 : <<s[i], s[i + 1]>> \in R

Among(x, seqs) == \E k \in 1 .. Len(seqs) : \E j \in 1 .. Len(seqs[k]) : x = seqs[k][j]

\* Two chains that fit together, and a chain that is both of them.
Fits(a, b, R) ==
    Len(b) > 0 /\ Linked(a, R) /\ Linked(b, R) /\ (Len(a) > 0 => <<a[Len(a)], b[1]>> \in R)

Joined(c, a, b, R) ==
    /\ Len(c) > 0 /\ c[Len(c)] = b[Len(b)] /\ Linked(c, R)
    /\ \A i \in 1 .. Len(c) : \/ \E j \in 1 .. Len(a) : c[i] = a[j]
                              \/ \E j \in 1 .. Len(b) : c[i] = b[j]

LEMMA ChainsJoin ==
    ASSUME NEW S, NEW R, NEW a \in Seq(S), NEW b \in Seq(S), Fits(a, b, R)
    PROVE  Joined(a \o b, a, b, R)
<1> DEFINE c == a \o b
           m == Len(a)
           n == Len(b)
<1>1. /\ c \in Seq(S) /\ Len(c) = m + n /\ m \in Nat /\ n \in Nat
      /\ \A i \in 1 .. m + n : c[i] = IF i <= m THEN a[i] ELSE b[i - m]
  OBVIOUS
<1> HIDE DEF c
<1>2. c[Len(c)] = b[n]
  <2>1. n > 0 /\ m + n \in 1 .. m + n /\ ~(m + n <= m) /\ (m + n) - m = n
    BY <1>1 DEF Fits
  <2> QED
    BY <1>1, <2>1
<1>3. ASSUME NEW i \in 1 .. Len(c) - 1 PROVE <<c[i], c[i + 1]>> \in R
  <2>0. i \in 1 .. m + n /\ i + 1 \in 1 .. m + n
    BY <1>1
  <2>1. CASE i < m
    <3>1. i \in 1 .. m - 1 /\ i <= m /\ i + 1 <= m
      BY <1>1, <2>1
    <3>2. c[i] = a[i] /\ c[i + 1] = a[i + 1]
      BY <1>1, <2>0, <3>1
    <3> QED
      BY <3>1, <3>2 DEF Linked, Fits
  <2>2. CASE i = m
    <3>1. i <= m /\ ~(i + 1 <= m) /\ (i + 1) - m = 1 /\ m > 0
      BY <1>1, <2>2
    <3>2. c[i] = a[m] /\ c[i + 1] = b[1]
      BY <1>1, <2>0, <2>2, <3>1
    <3> QED
      BY <3>1, <3>2 DEF Fits
  <2>3. CASE i > m
    <3>1. i - m \in 1 .. n - 1 /\ ~(i <= m) /\ ~(i + 1 <= m) /\ (i + 1) - m = (i - m) + 1
      BY <1>1, <2>3
    <3>2. c[i] = b[i - m] /\ c[i + 1] = b[(i - m) + 1]
      BY <1>1, <2>0, <3>1
    <3> QED
      BY <3>1, <3>2 DEF Linked, Fits
  <2> QED
    BY <1>1, <2>1, <2>2, <2>3
<1>4. ASSUME NEW i \in 1 .. Len(c)
      PROVE  (\E j \in 1 .. m : c[i] = a[j]) \/ (\E j \in 1 .. n : c[i] = b[j])
  <2>1. CASE i <= m
    BY <1>1, <2>1
  <2>2. CASE ~(i <= m)
    <3>1. i - m \in 1 .. n /\ c[i] = b[i - m]
      BY <1>1, <2>2
    <3> QED
      BY <3>1
  <2> QED
    BY <2>1, <2>2
<1>5. Len(c) > 0
  BY <1>1 DEF Fits
<1> QED
  BY <1>1, <1>2, <1>3, <1>4, <1>5 DEF c, Linked, Joined

\* So is a sequence of chains that fit together, flattened.
LEMMA FlattenChain ==
    ASSUME NEW S, NEW R, NEW seqs \in Seq(Seq(S)),
           \A k \in 1 .. Len(seqs) : Len(seqs[k]) > 0 /\ Linked(seqs[k], R),
           \A k \in 1 .. Len(seqs) - 1 : <<seqs[k][Len(seqs[k])], seqs[k + 1][1]>> \in R
    PROVE  LET s == Data!FlattenSeq(seqs)
           IN  /\ s \in Seq(S) /\ (Len(seqs) > 0 => Len(s) > 0)
               /\ Linked(s, R) /\ \A i \in 1 .. Len(s) : Among(s[i], seqs)
<1> DEFINE N == Len(seqs)
<1>1. PICK F \in [0 .. N -> Seq(S)] :
        /\ F[0] = <<>> /\ \A n \in 1 .. N : F[n] = F[n - 1] \o seqs[n]
        /\ Data!FlattenSeq(seqs) = F[N]
  BY FlattenIs
<1> DEFINE Good(n) ==
      /\ n > 0 => Len(F[n]) > 0 /\ F[n][Len(F[n])] = seqs[n][Len(seqs[n])]
      /\ Linked(F[n], R) /\ \A i \in 1 .. Len(F[n]) : Among(F[n][i], seqs)
    T == {n \in 0 .. N : Good(n)}
<1>2. N \in Nat /\ \A k \in 1 .. N : seqs[k] \in Seq(S)
  OBVIOUS
<1>3. 0 \in T
  <2>1. F[0] = <<>> /\ Len(F[0]) = 0 /\ 0 \in 0 .. N
    BY <1>1, <1>2
  <2>2. Good(0)
    BY <2>1 DEF Linked
  <2> HIDE DEF Good
  <2> QED
    BY <2>1, <2>2
<1>4. ASSUME NEW n \in 0 .. N - 1, n \in T PROVE n + 1 \in T
  <2> DEFINE a == F[n]
             b == seqs[n + 1]
             c == F[n + 1]
  <2>1. n + 1 \in 1 .. N /\ (n + 1) - 1 = n /\ n \in 0 .. N /\ n + 1 \in 0 .. N /\ Good(n)
        /\ n + 1 > 0
    BY <1>2, <1>4
  <2>2. a \in Seq(S) /\ b \in Seq(S) /\ Len(b) > 0 /\ Linked(b, R) /\ c = a \o b
    BY <1>1, <1>2, <2>1
  <2>3. Len(a) > 0 => <<a[Len(a)], b[1]>> \in R
    <3>1. CASE n = 0
      BY <1>1, <3>1
    <3>2. CASE n # 0
      <4>1. n \in 1 .. N - 1 /\ n > 0
        BY <1>2, <3>2
      <4>2. a[Len(a)] = seqs[n][Len(seqs[n])]
        BY <2>1, <4>1
      <4> QED
        BY <4>1, <4>2
    <3> QED
      BY <3>1, <3>2
  <2>4. Linked(a, R) /\ \A i \in 1 .. Len(a) : Among(a[i], seqs)
    BY <2>1
  <2>5. \A j \in 1 .. Len(b) : Among(b[j], seqs)
    BY <2>1 DEF Among
  <2> HIDE DEF a, b, c, Good
  <2>6. Joined(c, a, b, R)
    <3>1. Fits(a, b, R)
      BY <2>2, <2>3, <2>4 DEF Fits
    <3> QED
      BY <2>2, <3>1, ChainsJoin
  <2>7. \A i \in 1 .. Len(c) : Among(c[i], seqs)
    BY <2>4, <2>5, <2>6 DEF Joined
  <2>8. Good(n + 1)
    BY <2>6, <2>7 DEF Good, b, c, Joined
  <2> QED
    BY <2>1, <2>8
<1> HIDE DEF T
<1>5. \A n \in 0 .. N : n \in T
  <2> HIDE DEF N, Good
  <2> QED
    BY <1>2, <1>3, <1>4, UpTo
<1>6. N \in 0 .. N /\ Good(N)
  <2> HIDE DEF N, Good
  <2> QED
    BY <1>2, <1>5 DEF T
<1> DEFINE s == Data!FlattenSeq(seqs)
<1>7. s = F[N] /\ F[N] \in Seq(S)
  BY <1>1, <1>6
<1> HIDE DEF s
<1>8. s \in Seq(S) /\ (N > 0 => Len(s) > 0)
  BY <1>6, <1>7
<1> QED
  BY <1>6, <1>7, <1>8 DEF s

----------------------------------------------------------------------------
(* Streams: tokens of one tokenizer, each with the next position of its document or the first  *)
(* one of the next document.                                                                   *)

Follows(p, q) == q = Data!Successor(p) \/ (q[2] = p[2] + 1 /\ q[3] = 0)

Consecutive(s) == \A i \in 1 .. Len(s) - 1 : Follows(s[i], s[i + 1])

IsStream(t, s) ==
    t \in DataTokenizers /\ s \in Seq({t} \X Nat \X Nat) /\ Len(s) > 0 /\ Consecutive(s)

Later(p, q) == p[2] < q[2] \/ (p[2] = q[2] /\ p[3] < q[3])

LEMMA LaterIsTransitive ==
    ASSUME NEW p, NEW q, NEW r, Later(p, q), Later(q, r),
           p[2] \in Nat, q[2] \in Nat, r[2] \in Nat, p[3] \in Nat, q[3] \in Nat, r[3] \in Nat
    PROVE  Later(p, r)
BY DEF Later

LEMMA FollowsIsLater ==
    ASSUME NEW p, NEW q, Follows(p, q), p[2] \in Nat, p[3] \in Nat PROVE Later(p, q)
<1>1. CASE q = Data!Successor(p)
  <2>1. q[2] = p[2] /\ q[3] = p[3] + 1
    BY <1>1 DEF Data!Successor
  <2> QED
    BY <2>1 DEF Later
<1>2. CASE q[2] = p[2] + 1 /\ q[3] = 0
  BY <1>2 DEF Later
<1> QED
  BY <1>1, <1>2 DEF Follows

\* No place comes twice in a stream, or in a chat.
LEMMA PlacesIncrease ==
    ASSUME NEW A, NEW s \in Seq(A \X Nat \X Nat), Consecutive(s)
    PROVE  \A i, j \in 1 .. Len(s) : s[i][2] = s[j][2] /\ s[i][3] = s[j][3] => i = j
<1> DEFINE N == Len(s)
           T == {d \in 0 .. N : \A i \in 1 .. N : d > 0 /\ i + d <= N => Later(s[i], s[i + d])}
<1>1. N \in Nat /\ \A i \in 1 .. N : s[i][2] \in Nat /\ s[i][3] \in Nat
  <2>1. ASSUME NEW i \in 1 .. N PROVE s[i][2] \in Nat /\ s[i][3] \in Nat
    <3>1. s[i] \in A \X Nat \X Nat
      OBVIOUS
    <3> QED
      BY <3>1
  <2> QED
    BY <2>1
<1>2. \A i \in 1 .. N - 1 : Later(s[i], s[i + 1])
  <2> SUFFICES ASSUME NEW i \in 1 .. N - 1 PROVE Later(s[i], s[i + 1])
    OBVIOUS
  <2>1. Follows(s[i], s[i + 1]) /\ s[i][2] \in Nat /\ s[i][3] \in Nat
    BY <1>1 DEF Consecutive
  <2> QED
    BY <2>1, FollowsIsLater
<1> HIDE DEF N
<1>3. 0 \in T
  BY <1>1
<1>4. ASSUME NEW d \in 0 .. N - 1, d \in T PROVE d + 1 \in T
  <2> SUFFICES ASSUME NEW i \in 1 .. N, i + (d + 1) <= N PROVE Later(s[i], s[i + (d + 1)])
    BY <1>1
  <2>1. i + d \in 1 .. N - 1 /\ i + (d + 1) = (i + d) + 1 /\ i + (d + 1) \in 1 .. N
        /\ i + d \in 1 .. N /\ i + d <= N
    BY <1>1
  <2>2. Later(s[i + d], s[i + (d + 1)])
    BY <1>2, <2>1
  <2>3. CASE d = 0
    BY <1>1, <2>2, <2>3
  <2>4. CASE d # 0
    <3>0. \A j \in 1 .. N : d > 0 /\ j + d <= N => Later(s[j], s[j + d])
      BY <1>4
    <3>1. Later(s[i], s[i + d])
      <4>1. d > 0
        BY <1>1, <2>4
      <4> HIDE DEF T
      <4> QED
        BY <2>1, <3>0, <4>1
    <3>2. s[i][2] \in Nat /\ s[i + d][2] \in Nat /\ s[i + (d + 1)][2] \in Nat
          /\ s[i][3] \in Nat /\ s[i + d][3] \in Nat /\ s[i + (d + 1)][3] \in Nat
      BY <1>1, <2>1
    <3> QED
      BY <2>2, <3>1, <3>2, LaterIsTransitive
  <2> QED
    BY <2>3, <2>4
<1> HIDE DEF T
<1>5. \A d \in 0 .. N : d \in T
  BY <1>1, <1>3, <1>4, UpTo
<1>6. ASSUME NEW i \in 1 .. N, NEW j \in 1 .. N, i < j
      PROVE  ~(s[i][2] = s[j][2] /\ s[i][3] = s[j][3])
  <2>1. j - i \in 0 .. N /\ j - i > 0 /\ i + (j - i) = j
    BY <1>1, <1>6
  <2>2. Later(s[i], s[i + (j - i)])
    <3>1. j - i \in T /\ i + (j - i) <= N
      BY <1>1, <1>5, <2>1
    <3> QED
      BY <2>1, <3>1 DEF T
  <2>3. s[i][2] \in Nat /\ s[j][2] \in Nat /\ s[i][3] \in Nat /\ s[j][3] \in Nat
    BY <1>1
  <2>4. Later(s[i], s[j])
    BY <2>1, <2>2
  <2> DEFINE p == s[i]
             q == s[j]
  <2>5. Later(p, q) /\ p[2] \in Nat /\ q[2] \in Nat /\ p[3] \in Nat /\ q[3] \in Nat
    BY <2>3, <2>4
  <2> HIDE DEF p, q
  <2>6. ~(p[2] = q[2] /\ p[3] = q[3])
    BY <2>5 DEF Later
  <2> QED
    BY <2>6 DEF p, q
<1>7. \A i, j \in 1 .. N : s[i][2] = s[j][2] /\ s[i][3] = s[j][3] => i = j
  <2> SUFFICES ASSUME NEW i \in 1 .. N, NEW j \in 1 .. N, s[i][2] = s[j][2] /\ s[i][3] = s[j][3]
               PROVE  i = j
    OBVIOUS
  <2>1. ~(i < j) /\ ~(j < i)
    BY <1>6
  <2> QED
    BY <1>1, <2>1
<1> QED
  BY <1>7 DEF N

LEMMA StreamFacts ==
    ASSUME NEW t, NEW s, IsStream(t, s)
    PROVE  /\ t \in DataTokenizers /\ Len(s) \in Nat /\ Len(s) > 0
           /\ \A i \in 1 .. Len(s) : s[i][1] = t /\ s[i] \in {t} \X Nat \X Nat
           /\ \A i, j \in 1 .. Len(s) : s[i] = s[j] => i = j
<1>1. s \in Seq({t} \X Nat \X Nat) /\ Consecutive(s) /\ t \in DataTokenizers /\ Len(s) > 0
  BY DEF IsStream
<1>2. \A i \in 1 .. Len(s) : s[i] \in {t} \X Nat \X Nat
  BY <1>1
<1>3. \A i, j \in 1 .. Len(s) : s[i] = s[j] => i = j
  BY <1>1, PlacesIncrease
<1>4. \A p \in {t} \X Nat \X Nat : p[1] = t
  OBVIOUS
<1> QED
  BY <1>1, <1>2, <1>3, <1>4

\* What is packed is a stream, and so is what is left of it for whole blocks.
LEMMA FlatIsStream ==
    ASSUME Data!DataAssumption, NEW t \in DataTokenizers,
           documents \in Seq(DataLengths), documents # <<>>
    PROVE  IsStream(t, Data!Flat(t))
<1> DEFINE N == Len(documents)
           S == {t} \X Nat \X Nat
           R == {p \in S \X S : Follows(p[1], p[2])}
           seqs == [row \in DOMAIN documents |-> Data!Bracketed(t, row, documents[row])]
<1>1. N \in Nat /\ N > 0 /\ DOMAIN documents = 1 .. N /\ \A k \in 1 .. N : documents[k] \in Nat
  <2>1. N \in Nat /\ DOMAIN documents = 1 .. N /\ \A k \in 1 .. N : documents[k] \in DataLengths
    OBVIOUS
  <2>2. N # 0
    BY EmptySeq
  <2>3. DataLengths \subseteq Nat
    BY DEF Data!DataAssumption
  <2> HIDE DEF N
  <2>4. N > 0
    BY <2>1, <2>2
  <2> QED
    BY <2>1, <2>3, <2>4
<1>2. ASSUME NEW k \in 1 .. N
      PROVE  /\ seqs[k] \in Seq(S) /\ Len(seqs[k]) > 0 /\ Linked(seqs[k], R)
             /\ seqs[k][1] = <<t, k, 0>> /\ seqs[k][Len(seqs[k])] \in S
             /\ seqs[k][Len(seqs[k])][2] = k
  <2> DEFINE n == documents[k] + 2
             b == [i \in 1 .. n |-> <<t, k, i - 1>>]
  <2>1. seqs[k] = b
    BY <1>1 DEF Data!Bracketed
  <2>2. n \in Nat /\ n > 0 /\ k \in Nat
    BY <1>1
  <2> HIDE DEF n, seqs
  <2>3. \A i \in 1 .. n : i - 1 \in Nat /\ b[i] \in S /\ b[i] = <<t, k, i - 1>>
    BY <2>2
  <2>4. b \in Seq(S) /\ Len(b) = n
    BY <2>2, <2>3
  <2> HIDE DEF b
  <2>5. ASSUME NEW i \in 1 .. n - 1 PROVE <<b[i], b[i + 1]>> \in R
    <3>1. i \in 1 .. n /\ i + 1 \in 1 .. n /\ (i + 1) - 1 = (i - 1) + 1
      BY <2>2
    <3>2. Data!Successor(b[i]) = b[i + 1]
      BY <2>3, <3>1 DEF Data!Successor
    <3> QED
      BY <2>3, <3>1, <3>2 DEF Follows
  <2>6. 1 \in 1 .. n /\ n \in 1 .. n /\ 1 - 1 = 0
    BY <2>2
  <2> HIDE DEF S, R
  <2>7. b[1] = <<t, k, 0>> /\ b[n] \in S /\ b[n][2] = k
    BY <2>3, <2>6
  <2> QED
    BY <2>1, <2>2, <2>4, <2>5, <2>7 DEF Linked
<1>3. seqs \in Seq(Seq(S)) /\ Len(seqs) = N
  <2>1. seqs = [k \in 1 .. N |-> seqs[k]]
    BY <1>1
  <2> HIDE DEF S, R, N, seqs
  <2>2. \A k \in 1 .. N : seqs[k] \in Seq(S)
    BY <1>2
  <2> QED
    BY <1>1, <2>1, <2>2
<1> HIDE DEF seqs
<1>4. ASSUME NEW k \in 1 .. N - 1 PROVE <<seqs[k][Len(seqs[k])], seqs[k + 1][1]>> \in R
  <2>1. k \in 1 .. N /\ k + 1 \in 1 .. N /\ k + 1 \in Nat
    BY <1>1
  <2> DEFINE p == seqs[k][Len(seqs[k])]
  <2>2. p \in S /\ p[2] = k /\ seqs[k + 1][1] = <<t, k + 1, 0>> /\ <<t, k + 1, 0>> \in S
    BY <1>2, <2>1
  <2> HIDE DEF p
  <2> QED
    BY <2>2 DEF Follows, p
<1> DEFINE s == Data!FlattenSeq(seqs)
<1>5. s \in Seq(S) /\ Len(s) > 0 /\ Linked(s, R)
  <2> HIDE DEF S, R, N
  <2> QED
    BY <1>1, <1>2, <1>3, <1>4, FlattenChain
<1>6. Data!Flat(t) = s
  BY DEF Data!Flat, seqs
<1> HIDE DEF s
<1>7. Consecutive(s)
  BY <1>5 DEF Linked, Consecutive
<1> QED
  BY <1>5, <1>6, <1>7 DEF IsStream

LEMMA StreamPrefix ==
    ASSUME NEW t, NEW s, IsStream(t, s), NEW n \in 1 .. Len(s)
    PROVE  IsStream(t, SubSeq(s, 1, n)) /\ Len(SubSeq(s, 1, n)) = n
<1> DEFINE p == SubSeq(s, 1, n)
           S == {t} \X Nat \X Nat
<1>1. s \in Seq(S) /\ Consecutive(s) /\ t \in DataTokenizers /\ Len(s) \in Nat /\ n \in Nat
  BY DEF IsStream
<1> HIDE DEF S
<1>2. p \in Seq(S) /\ Len(p) = n /\ \A i \in 1 .. n : p[i] = s[i]
  BY <1>1
<1> HIDE DEF p
<1>3. Consecutive(p)
  <2> SUFFICES ASSUME NEW i \in 1 .. n - 1 PROVE Follows(p[i], p[i + 1])
    BY <1>2 DEF Consecutive
  <2>1. i \in 1 .. n /\ i + 1 \in 1 .. n /\ i \in 1 .. Len(s) - 1
    BY <1>1
  <2> QED
    BY <1>1, <1>2, <2>1 DEF Consecutive
<1>4. Len(p) > 0
  BY <1>1, <1>2
<1> QED
  BY <1>1, <1>2, <1>3, <1>4 DEF IsStream, p, S

----------------------------------------------------------------------------
(* The rows of a packed file: U of them, of B tokens each. *)

LEMMA Products ==
    \A x, y, z \in Nat : /\ (x + y) * z = x * z + y * z /\ x * z \in Nat
                        /\ x > 0 => x * z >= z
OBVIOUS

LEMMA PlaceOfRow ==
    ASSUME NEW B \in Nat, NEW r \in Nat \ {0}, NEW s \in Nat \ {0}, NEW k \in 1 .. B, NEW l \in 1 .. B,
           (r - 1) * B + k = (s - 1) * B + l
    PROVE  r = s /\ k = l
<1>1. ASSUME NEW a \in Nat \ {0}, NEW b \in Nat \ {0}, a < b, NEW i \in 1 .. B, NEW j \in 1 .. B
      PROVE  (a - 1) * B + i # (b - 1) * B + j
  <2>1. a - 1 \in Nat /\ b - a \in Nat /\ b - a > 0 /\ (a - 1) + (b - a) = b - 1
    BY <1>1
  <2>2. (b - 1) * B = (a - 1) * B + (b - a) * B /\ (b - a) * B >= B
        /\ (a - 1) * B \in Nat /\ (b - a) * B \in Nat
    BY <2>1, Products
  <2> DEFINE x == (a - 1) * B
             y == (b - a) * B
             z == (b - 1) * B
  <2> HIDE DEF x, y, z
  <2>3. z = x + y /\ y >= B /\ x \in Nat /\ y \in Nat
    BY <2>2 DEF x, y, z
  <2>4. x + i # z + j
    BY <1>1, <2>3
  <2> QED
    BY <2>4 DEF x, z
<1>2. r = s
  <2>1. ~(r < s)
    BY <1>1
  <2>2. ~(s < r)
    BY <1>1
  <2> QED
    BY <2>1, <2>2
<1>3. (r - 1) * B \in Nat
  BY Products
<1> QED
  BY <1>2, <1>3

LEMMA PlaceInRows ==
    ASSUME NEW B \in Nat, NEW U \in Nat, NEW r \in 1 .. U, NEW k \in 1 .. B
    PROVE  (r - 1) * B + k \in 1 .. U * B
<1> DEFINE x == (r - 1) * B
           y == (U - (r - 1)) * B
           z == U * B
<1>1. r - 1 \in Nat /\ U - (r - 1) \in Nat /\ U - (r - 1) > 0 /\ (r - 1) + (U - (r - 1)) = U
  OBVIOUS
<1>2. x \in Nat /\ y \in Nat /\ y >= B /\ z = x + y
  BY <1>1, Products
<1> HIDE DEF x, y, z
<1>3. x + k \in 1 .. z
  BY <1>2
<1> QED
  BY <1>3 DEF x, z

LEMMA RowOfPlace ==
    ASSUME NEW B \in Nat, B > 0, NEW U \in Nat, NEW p \in 1 .. U * B
    PROVE  \E r \in 1 .. U, k \in 1 .. B : p = (r - 1) * B + k
<1> DEFINE d == (p - 1) \div B
           m == (p - 1) % B
<1>1. p \in Nat /\ p - 1 \in Nat /\ p <= U * B /\ U * B \in Nat
  BY Products
<1>2. d \in Nat /\ m \in Nat /\ m < B /\ p - 1 = B * d + m
  BY <1>1, Division
<1> HIDE DEF d, m
<1>3. B * d = d * B /\ d * B \in Nat
  BY <1>2
<1>4. d < U
  <2> SUFFICES ASSUME ~(d < U) PROVE FALSE
    OBVIOUS
  <2>1. d - U \in Nat /\ U + (d - U) = d
    BY <1>2
  <2>2. d * B = U * B + (d - U) * B /\ (d - U) * B \in Nat
    BY <2>1, Products
  <2> DEFINE x == d * B
             y == U * B
             z == (d - U) * B
  <2>3. x = y + z /\ z \in Nat /\ y \in Nat /\ p - 1 = x + m /\ p <= y
    BY <1>1, <1>2, <1>3, <2>2
  <2> HIDE DEF x, y, z
  <2> QED
    BY <1>1, <1>2, <2>3
<1>5. d + 1 \in 1 .. U /\ m + 1 \in 1 .. B /\ (d + 1) - 1 = d
  BY <1>2, <1>4
<1>6. p = d * B + (m + 1)
  BY <1>1, <1>2, <1>3
<1> QED
  BY <1>5, <1>6

\* Pair k of row r, and what it means that a sequence of pairs is all pairs of the rows in done,
\* each once.
PairOf(T, B, r, k) == <<T[(r - 1) * B + k], T[(r - 1) * B + k + 1]>>

RowOf(T, B, r) == [k \in 1 .. B |-> PairOf(T, B, r, k)]

PairsOf(T, B, rs) == {PairOf(T, B, r, k) : r \in rs, k \in 1 .. B}

LEMMA PairInRows ==
    ASSUME NEW T, NEW B, NEW rs, NEW r \in rs, NEW k \in 1 .. B
    PROVE  PairOf(T, B, r, k) \in PairsOf(T, B, rs)
BY DEF PairsOf

TrainedOn(q, T, B, U, done) ==
    /\ q \in Seq(PairsOf(T, B, 1 .. U))
    /\ \A i \in 1 .. Len(q) : q[i] \in PairsOf(T, B, done)
    /\ \A i, j \in 1 .. Len(q) : q[i] = q[j] => i = j
    /\ \A x \in PairsOf(T, B, done) : \E i \in 1 .. Len(q) : q[i] = x

\* The stream T has U rows of B tokens, and a token behind them.
HasRows(t, T, B, U) == IsStream(t, T) /\ B \in Nat /\ U \in Nat /\ U * B < Len(T)

LEMMA PairsDiffer ==
    ASSUME NEW t, NEW T, NEW B, NEW U, HasRows(t, T, B, U)
    PROVE  \A r, s \in 1 .. U : \A k, l \in 1 .. B :
             PairOf(T, B, r, k) = PairOf(T, B, s, l) => r = s /\ k = l
<1> SUFFICES ASSUME NEW r \in 1 .. U, NEW s \in 1 .. U, NEW k \in 1 .. B, NEW l \in 1 .. B,
                    PairOf(T, B, r, k) = PairOf(T, B, s, l)
             PROVE  r = s /\ k = l
  OBVIOUS
<1>0. IsStream(t, T) /\ B \in Nat /\ U \in Nat /\ U * B < Len(T)
  BY DEF HasRows
<1>1. (r - 1) * B + k \in 1 .. U * B /\ (s - 1) * B + l \in 1 .. U * B /\ U * B \in Nat
  BY <1>0, PlaceInRows, Products
<1>2. (r - 1) * B + k \in 1 .. Len(T) /\ (s - 1) * B + l \in 1 .. Len(T)
  BY <1>0, <1>1, StreamFacts
<1>3. T[(r - 1) * B + k] = T[(s - 1) * B + l]
  BY DEF PairOf
<1>4. (r - 1) * B + k = (s - 1) * B + l
  BY <1>0, <1>2, <1>3, StreamFacts
<1> QED
  BY <1>0, <1>4, PlaceOfRow

LEMMA MoreTrained ==
    ASSUME NEW t, NEW T, NEW B \in Nat, NEW U \in Nat, HasRows(t, T, B, U),
           NEW done \in SUBSET (1 .. U), NEW r \in (1 .. U) \ done, NEW q,
           TrainedOn(q, T, B, U, done)
    PROVE  TrainedOn(q \o RowOf(T, B, r), T, B, U, done \cup {r})
<1> DEFINE S == PairsOf(T, B, 1 .. U)
           p == RowOf(T, B, r)
           c == q \o p
           m == Len(q)
<1>0. ASSUME NEW s \in 1 .. U, NEW k \in 1 .. B, NEW l \in 1 .. B,
             PairOf(T, B, r, k) = PairOf(T, B, s, l)
      PROVE  r = s /\ k = l
  <2>1. r \in 1 .. U
    OBVIOUS
  <2>2. \A u, v \in 1 .. U : \A x, y \in 1 .. B :
          PairOf(T, B, u, x) = PairOf(T, B, v, y) => u = v /\ x = y
    BY PairsDiffer
  <2> QED
    BY <1>0, <2>1, <2>2
<1>1. ASSUME NEW k \in 1 .. B
      PROVE  /\ PairOf(T, B, r, k) \in S /\ PairOf(T, B, r, k) \in PairsOf(T, B, done \cup {r})
             /\ PairOf(T, B, r, k) \notin PairsOf(T, B, done)
  <2>1. ASSUME NEW s \in done, NEW l \in 1 .. B PROVE PairOf(T, B, r, k) # PairOf(T, B, s, l)
    BY <1>0
  <2> QED
    BY <2>1 DEF PairsOf
<1>2. q \in Seq(S) /\ m \in Nat
  BY DEF TrainedOn
<1>3. PairsOf(T, B, done) \subseteq PairsOf(T, B, done \cup {r})
  BY DEF PairsOf
<1> HIDE DEF S
<1>4. p \in Seq(S) /\ Len(p) = B /\ \A k \in 1 .. B : p[k] = PairOf(T, B, r, k)
  BY <1>1 DEF RowOf
<1> HIDE DEF p
<1>5. /\ c \in Seq(S) /\ Len(c) = m + B
      /\ \A i \in 1 .. m + B : c[i] = IF i <= m THEN q[i] ELSE p[i - m]
  BY <1>2, <1>4
<1> HIDE DEF c, m
<1>6. ASSUME NEW i \in 1 .. m + B
      PROVE  \/ i <= m /\ i \in 1 .. m /\ c[i] = q[i] /\ c[i] \in PairsOf(T, B, done)
             \/ ~(i <= m) /\ i - m \in 1 .. B /\ c[i] = PairOf(T, B, r, i - m)
  <2>1. CASE i <= m
    BY <1>2, <1>5, <2>1 DEF TrainedOn, m
  <2>2. CASE ~(i <= m)
    <3>1. i - m \in 1 .. B
      BY <1>2, <2>2
    <3> QED
      BY <1>4, <1>5, <2>2, <3>1
  <2> QED
    BY <2>1, <2>2
<1>7. \A i \in 1 .. m + B : c[i] \in PairsOf(T, B, done \cup {r})
  BY <1>1, <1>3, <1>6
<1>8. ASSUME NEW i \in 1 .. m + B, NEW j \in 1 .. m + B, c[i] = c[j] PROVE i = j
  <2>1. CASE i <= m /\ j <= m
    <3>1. q[i] = q[j] /\ i \in 1 .. m /\ j \in 1 .. m
      BY <1>6, <1>8, <2>1
    <3> QED
      BY <3>1 DEF TrainedOn, m
  <2>2. CASE ~(i <= m) /\ ~(j <= m)
    <3>1. /\ PairOf(T, B, r, i - m) = PairOf(T, B, r, j - m)
          /\ i - m \in 1 .. B /\ j - m \in 1 .. B
      BY <1>6, <1>8, <2>2
    <3>2. i - m = j - m
      BY <1>0, <3>1
    <3> QED
      BY <1>2, <3>2
  <2>3. CASE (i <= m) # (j <= m)
    BY <1>1, <1>6, <1>8, <2>3
  <2> QED
    BY <2>1, <2>2, <2>3
<1>9. ASSUME NEW x \in PairsOf(T, B, done \cup {r}) PROVE \E i \in 1 .. m + B : c[i] = x
  <2>1. PICK s \in done \cup {r}, k \in 1 .. B : x = PairOf(T, B, s, k)
    BY DEF PairsOf
  <2>2. CASE s = r
    <3>1. m + k \in 1 .. m + B /\ ~(m + k <= m) /\ (m + k) - m = k
      BY <1>2
    <3> QED
      BY <1>4, <1>5, <2>1, <2>2, <3>1
  <2>3. CASE s # r
    <3>1. x \in PairsOf(T, B, done)
      BY <2>1, <2>3 DEF PairsOf
    <3>2. PICK i \in 1 .. m : q[i] = x
      BY <3>1 DEF TrainedOn, m
    <3>3. i \in 1 .. m + B /\ i <= m
      BY <1>2
    <3> QED
      BY <1>5, <3>2, <3>3
  <2> QED
    BY <2>2, <2>3
<1> QED
  BY <1>5, <1>7, <1>8, <1>9 DEF TrainedOn, S, c, p

\* The pairs of a row of the loaded file.
PairsOfRow(row) == [i \in DOMAIN row.x |-> <<row.x[i], row.y[i]>>]

IsRow(row, t, T, B, r) ==
    PairsOfRow(row) = RowOf(T, B, r) /\ \A token \in Data!Range(row.x) : token[1] = t

LEMMA RowPairs ==
    ASSUME NEW t, NEW T, NEW B \in Nat, NEW U \in Nat, HasRows(t, T, B, U), NEW r \in 1 .. U
    PROVE  IsRow(Data!Row(T, (r - 1) * B, B), t, T, B, r)
<1> DEFINE f == (r - 1) * B
           row == Data!Row(T, f, B)
           S == {t} \X Nat \X Nat
<1>1. T \in Seq(S) /\ Len(T) \in Nat /\ U * B < Len(T) /\ U * B \in Nat
  BY Products DEF HasRows, IsStream
<1>2. f \in Nat /\ f + B <= U * B
  <2>1. CASE B = 0
    <3>1. f = 0 /\ U * B = 0
      BY <2>1
    <3> QED
      BY <2>1, <3>1
  <2>2. CASE B # 0
    <3>1. f + B \in 1 .. U * B
      <4>1. B \in 1 .. B
        BY <2>2
      <4> QED
        BY <4>1, PlaceInRows
    <3>2. r - 1 \in Nat
      OBVIOUS
    <3> QED
      BY <3>1, <3>2, Products
  <2> QED
    BY <2>1, <2>2
<1> HIDE DEF f
<1>3. row.x = SubSeq(T, f + 1, f + B) /\ row.y = SubSeq(T, f + 2, f + B + 1)
  BY DEF Data!Row
<1> HIDE DEF row, S
<1> DEFINE u == U * B
<1>4. f + B <= u /\ u < Len(T) /\ u \in Nat
  BY <1>1, <1>2
<1> HIDE DEF u
<1>5. /\ Len(row.x) = B /\ row.x \in Seq(S) /\ DOMAIN row.x = 1 .. B
      /\ \A i \in 1 .. B : row.x[i] = T[f + i] /\ f + i \in 1 .. Len(T)
  BY <1>1, <1>2, <1>3, <1>4
<1>6. \A i \in 1 .. B : row.y[i] = T[f + i + 1]
  BY <1>1, <1>2, <1>3, <1>4
<1>7. [i \in DOMAIN row.x |-> <<row.x[i], row.y[i]>>] = RowOf(T, B, r)
  BY <1>5, <1>6 DEF PairOf, RowOf, f
<1>8. \A token \in Data!Range(row.x) : token[1] = t
  <2>1. \A i \in 1 .. Len(T) : T[i][1] = t
    BY StreamFacts DEF HasRows
  <2> QED
    BY <1>5, <2>1 DEF Data!Range
<1> QED
  BY <1>7, <1>8 DEF IsRow, PairsOfRow, row, f

----------------------------------------------------------------------------
(* A batch takes the next rows of the order. *)

Elements(o) == {o[i] : i \in 1 .. Len(o)}

Distinct(o) == \A i, j \in 1 .. Len(o) : o[i] = o[j] => i = j

LEMMA NextTrained ==
    ASSUME NEW t, NEW T, NEW B \in Nat, NEW U \in Nat, HasRows(t, T, B, U),
           NEW done \in SUBSET (1 .. U), NEW r \in (1 .. U) \ done,
           NEW q \in Seq(PairsOf(T, B, 1 .. U)), NEW a \in Seq(PairsOf(T, B, 1 .. U)),
           TrainedOn(q \o a, T, B, U, done)
    PROVE  TrainedOn(q \o (a \o RowOf(T, B, r)), T, B, U, done \cup {r})
<1> DEFINE S == PairsOf(T, B, 1 .. U)
           p == RowOf(T, B, r)
<1>1. q \in Seq(S) /\ a \in Seq(S) /\ p \in Seq(S)
  <2>1. \A k \in 1 .. B : PairOf(T, B, r, k) \in S
    BY DEF PairsOf
  <2> HIDE DEF S
  <2>2. p \in Seq(S)
    BY <2>1 DEF RowOf
  <2> QED
    BY <2>2 DEF S
<1>2. TrainedOn((q \o a) \o p, T, B, U, done \cup {r})
  BY MoreTrained
<1>3. (q \o a) \o p = q \o (a \o p)
  <2> HIDE DEF S, p
  <2>1. \A A : \A x, y, z \in Seq(A) : (x \o y) \o z = x \o (y \o z)
    BY ConcatAssociative
  <2> QED
    BY <1>1, <2>1, SMTT(60)
<1> QED
  BY <1>2, <1>3

LEMMA FirstOfInterval ==
    ASSUME NEW k \in Nat, NEW n \in Nat, k + 1 <= n
    PROVE  k + 1 .. n = {k + 1} \cup ((k + 1) + 1 .. n)
OBVIOUS

LEMMA BatchTrains ==
    ASSUME NEW t, NEW T, NEW B \in Nat, NEW U \in Nat, HasRows(t, T, B, U),
           NEW o \in Seq(1 .. U), Distinct(o), NEW n \in 0 .. Len(o), NEW q,
           TrainedOn(q, T, B, U, (1 .. U) \ Elements(o)),
           NEW rs, rs = [i \in 1 .. n |-> RowOf(T, B, o[i])]
    PROVE  LET left == SubSeq(o, n + 1, Len(o))
           IN  /\ left \in Seq(1 .. U) /\ Distinct(left)
               /\ TrainedOn(q \o Data!FlattenSeq(rs), T, B, U, (1 .. U) \ Elements(left))
<1> DEFINE S == PairsOf(T, B, 1 .. U)
           N == Len(o)
           D(k) == (1 .. U) \ {o[i] : i \in k + 1 .. N}
           left == SubSeq(o, n + 1, N)
<1>1. N \in Nat /\ n \in Nat /\ n <= N /\ \A i \in 1 .. N : o[i] \in 1 .. U
  OBVIOUS
<1>2. rs \in Seq(Seq(S)) /\ Len(rs) = n /\ \A i \in 1 .. n : rs[i] \in Seq(S)
  <2>1. ASSUME NEW i \in 1 .. n PROVE rs[i] \in Seq(S)
    <3>0. i \in 1 .. N /\ o[i] \in 1 .. U
      <4>1. i \in 1 .. N
        BY <1>1
      <4> QED
        BY <1>1, <4>1
    <3>1. \A k \in 1 .. B : PairOf(T, B, o[i], k) \in S
      BY <3>0, PairInRows
    <3> HIDE DEF S
    <3>2. RowOf(T, B, o[i]) \in Seq(S)
      BY <3>1 DEF RowOf
    <3> QED
      BY <3>2
  <2> HIDE DEF S
  <2> QED
    BY <1>1, <2>1
<1>3. q \in Seq(S)
  BY DEF TrainedOn
<1> HIDE DEF S, N
<1>4. PICK F \in [0 .. n -> Seq(S)] :
        /\ F[0] = <<>> /\ \A k \in 1 .. n : F[k] = F[k - 1] \o rs[k]
        /\ Data!FlattenSeq(rs) = F[n]
  <2>1. \E F \in [0 .. Len(rs) -> Seq(S)] :
          /\ F[0] = <<>> /\ \A k \in 1 .. Len(rs) : F[k] = F[k - 1] \o rs[k]
          /\ Data!FlattenSeq(rs) = F[Len(rs)]
    <3>1. rs \in Seq(Seq(S))
      BY <1>2
    <3> QED
      BY <3>1, FlattenIs
  <2> QED
    BY <1>2, <2>1
<1> DEFINE Tr == {k \in 0 .. n : TrainedOn(q \o F[k], T, B, U, D(k))}
<1>5. 0 \in Tr
  <2>1. q \o F[0] = q /\ 0 \in 0 .. n
    BY <1>1, <1>3, <1>4
  <2>2. D(0) = (1 .. U) \ Elements(o)
    BY DEF Elements, N
  <2> HIDE DEF D
  <2> QED
    BY <2>1, <2>2
<1>6. ASSUME NEW k \in 0 .. n - 1, k \in Tr PROVE k + 1 \in Tr
  <2> DEFINE r == o[k + 1]
             p == RowOf(T, B, r)
  <2>1. /\ k + 1 \in 1 .. n /\ k + 1 \in 1 .. N /\ (k + 1) - 1 = k /\ k \in 0 .. n
        /\ k + 1 \in 0 .. n /\ k \in Nat
    BY <1>1
  <2>2. F[k + 1] = F[k] \o p /\ F[k] \in Seq(S) /\ p \in Seq(S)
    <3>1. rs[k + 1] = p
      BY <2>1
    <3> HIDE DEF p
    <3> QED
      BY <1>2, <1>4, <2>1, <3>1
  <2>3. r \in (1 .. U) \ D(k)
    <3>1. k + 1 \in k + 1 .. N
      BY <1>1, <2>1
    <3>2. r \in 1 .. U
      <4>1. \A i \in 1 .. N : o[i] \in 1 .. U
        BY <1>1
      <4> HIDE DEF D
      <4> QED
        BY <2>1, <4>1, ZenonT(60)
    <3>3. r \in {o[i] : i \in k + 1 .. N}
      BY <3>1
    <3> QED
      BY <3>2, <3>3
  <2>4. D(k + 1) = D(k) \cup {r}
    <3>1. k + 1 .. N = {k + 1} \cup ((k + 1) + 1 .. N)
      <4>1. k \in Nat /\ N \in Nat /\ k + 1 <= N
        BY <1>1, <2>1
      <4> QED
        BY <4>1, FirstOfInterval
    <3>2. \A i \in (k + 1) + 1 .. N : i \in 1 .. N /\ i # k + 1
      BY <1>1, <2>1
    <3>3. \A i \in (k + 1) + 1 .. N : o[i] # r
      BY <2>1, <3>2 DEF Distinct, N
    <3>4. r \in 1 .. U
      BY <2>3
    <3> HIDE DEF r
    <3>5. {o[i] : i \in k + 1 .. N} = {r} \cup {o[i] : i \in (k + 1) + 1 .. N}
      BY <3>1 DEF r
    <3>6. r \notin {o[i] : i \in (k + 1) + 1 .. N}
      BY <3>3
    <3> QED
      BY <3>4, <3>5, <3>6
  <2>5. D(k) \in SUBSET (1 .. U)
    OBVIOUS
  <2> HIDE DEF D, r
  <2>6. TrainedOn(q \o F[k], T, B, U, D(k))
    BY <1>6
  <2> DEFINE done == D(k)
             a == F[k]
  <2>7. TrainedOn(q \o (a \o p), T, B, U, done \cup {r})
    <3>1. /\ done \in SUBSET (1 .. U) /\ r \in (1 .. U) \ done
          /\ q \in Seq(S) /\ a \in Seq(S) /\ TrainedOn(q \o a, T, B, U, done)
      BY <1>3, <2>2, <2>3, <2>5, <2>6
    <3> HIDE DEF done, a
    <3> QED
      BY <3>1, NextTrained DEF S
  <2> QED
    BY <2>1, <2>2, <2>4, <2>7
<1>7. TrainedOn(q \o F[n], T, B, U, D(n))
  <2> HIDE DEF Tr
  <2>1. \A k \in 0 .. n : k \in Tr
    BY <1>1, <1>5, <1>6, UpTo
  <2>2. n \in Tr
    BY <1>1, <2>1
  <2> QED
    BY <2>2 DEF Tr
<1>8. /\ left \in Seq(1 .. U) /\ Len(left) = N - n
      /\ \A i \in 1 .. N - n : left[i] = o[n + i] /\ n + i \in n + 1 .. N /\ n + i \in 1 .. N
  <2> HIDE DEF left
  <2>1. left = SubSeq(o, n + 1, N) /\ Len(o) = N
    BY DEF left, N
  <2> QED
    BY <1>1, <2>1
<1> HIDE DEF left
<1>9. Distinct(left)
  <2> SUFFICES ASSUME NEW i \in 1 .. N - n, NEW j \in 1 .. N - n, left[i] = left[j]
               PROVE  i = j
    BY <1>8 DEF Distinct
  <2>1. n + i = n + j
    BY <1>8 DEF Distinct, N
  <2> QED
    BY <1>1, <2>1
<1>10. D(n) = (1 .. U) \ Elements(left)
  <2>1. ASSUME NEW i \in n + 1 .. N PROVE i - n \in 1 .. N - n /\ o[i] = left[i - n]
    <3>1. i - n \in 1 .. N - n /\ n + (i - n) = i
      BY <1>1
    <3> QED
      BY <1>8, <3>1
  <2>2. {o[i] : i \in n + 1 .. N} \subseteq {left[i] : i \in 1 .. N - n}
    BY <2>1
  <2>3. {left[i] : i \in 1 .. N - n} \subseteq {o[i] : i \in n + 1 .. N}
    BY <1>8
  <2> QED
    BY <1>8, <2>2, <2>3 DEF Elements
<1> HIDE DEF D
<1> QED
  BY <1>4, <1>7, <1>8, <1>9, <1>10 DEF left, N

----------------------------------------------------------------------------
(* A chat. *)

\* The pairs of a chat: a target is masked or a word of the assistant behind the input, none
\* comes twice, and every word of the assistant that is an input was the target before.
ChatExact(q) ==
    /\ Len(q) \in Nat /\ DOMAIN q = 1 .. Len(q)
    /\ \A i \in 1 .. Len(q) : q[i][2] # Data!Masked =>
         q[i][2][1] = "assistant" /\ q[i][2][3] > 0 /\ q[i][2] = Data!Successor(q[i][1])
    /\ \A i, j \in 1 .. Len(q) : q[i][2] # Data!Masked /\ q[i] = q[j] => i = j
    /\ \A i \in 1 .. Len(q) - 1 : q[i + 1][1][1] = "assistant" /\ q[i + 1][1][3] > 0
                                 => q[i][2] = q[i + 1][1]

Word == [token : {"assistant", "user"} \X Nat \X Nat, learn : BOOLEAN]

Learnt(e) == e.token[1] = "assistant" /\ e.token[3] > 0

\* format_chat: consecutive places, learnt where the assistant speaks.
LEMMA ChatIsConsecutive ==
    ASSUME Data!DataAssumption, NEW n \in Nat, NEW messages \in [1 .. n -> Data!Messages]
    PROVE  LET chat == Data!Chat(messages)
           IN  /\ chat \in Seq(Word) /\ \A i \in 1 .. Len(chat) : chat[i].learn = Learnt(chat[i])
               /\ \A i \in 1 .. Len(chat) - 1 : Follows(chat[i].token, chat[i + 1].token)
<1> DEFINE E == {e \in Word : e.learn = Learnt(e)}
           R == {p \in E \X E : Follows(p[1].token, p[2].token)}
           tag(m) == IF messages[m].assistant THEN "assistant" ELSE "user"
           word(m, i) == [token |-> <<tag(m), m, i - 1>>,
                          learn |-> messages[m].assistant /\ i > 1]
           seqs == [m \in DOMAIN messages |->
                      [i \in 1 .. messages[m].length + 1 |-> word(m, i)]]
<1>1. \A m \in 1 .. n : messages[m].length \in Nat /\ messages[m].assistant \in BOOLEAN
  <2>1. ASSUME NEW m \in 1 .. n
        PROVE  messages[m].length \in Nat /\ messages[m].assistant \in BOOLEAN
    <3>1. messages[m] \in [assistant : BOOLEAN, length : {k + 1 : k \in DataLengths}]
      BY DEF Data!Messages
    <3>2. {k + 1 : k \in DataLengths} \subseteq Nat
      BY DEF Data!DataAssumption
    <3> QED
      BY <3>1, <3>2
  <2> QED
    BY <2>1
<1>2. ASSUME NEW m \in 1 .. n, NEW i \in Nat \ {0}
      PROVE  /\ word(m, i) \in E /\ word(m, i).token = <<tag(m), m, i - 1>>
  <2>1. i - 1 \in Nat /\ m \in Nat /\ (i > 1 <=> i - 1 > 0) /\ tag(m) \in {"assistant", "user"}
    OBVIOUS
  <2>2. word(m, i) \in Word /\ word(m, i).token = <<tag(m), m, i - 1>>
    BY <1>1, <2>1 DEF Word
  <2>3. word(m, i).learn = Learnt(word(m, i))
    BY <1>1, <2>1 DEF Learnt
  <2> HIDE DEF word
  <2> QED
    BY <2>2, <2>3
<1> HIDE DEF E, word, tag
<1>3. ASSUME NEW m \in 1 .. n
      PROVE  /\ seqs[m] \in Seq(E) /\ Len(seqs[m]) > 0 /\ Linked(seqs[m], R)
             /\ seqs[m][1] \in E /\ seqs[m][1].token = <<tag(m), m, 0>>
             /\ seqs[m][Len(seqs[m])] \in E /\ seqs[m][Len(seqs[m])].token[2] = m
  <2> DEFINE l == messages[m].length + 1
             b == [i \in 1 .. l |-> word(m, i)]
  <2>1. seqs[m] = b /\ l \in Nat /\ l > 0
    BY <1>1
  <2> HIDE DEF l, seqs
  <2>2. \A i \in 1 .. l : b[i] \in E /\ b[i].token = <<tag(m), m, i - 1>>
    BY <1>2, <2>1
  <2>3. b \in Seq(E) /\ Len(b) = l
    BY <2>1, <2>2
  <2> HIDE DEF b
  <2>4. ASSUME NEW i \in 1 .. l - 1 PROVE <<b[i], b[i + 1]>> \in R
    <3>1. i \in 1 .. l /\ i + 1 \in 1 .. l /\ (i + 1) - 1 = (i - 1) + 1
      BY <2>1
    <3>2. /\ b[i] \in E /\ b[i].token = <<tag(m), m, i - 1>>
          /\ b[i + 1] \in E /\ b[i + 1].token = <<tag(m), m, (i - 1) + 1>>
      BY <2>2, <3>1
    <3>3. Follows(b[i].token, b[i + 1].token)
      BY <3>2 DEF Follows, Data!Successor
    <3> QED
      BY <3>2, <3>3
  <2>5. 1 \in 1 .. l /\ l \in 1 .. l /\ 1 - 1 = 0
    BY <2>1
  <2>6. /\ b[1] \in E /\ b[1].token = <<tag(m), m, 0>>
        /\ b[l] \in E /\ b[l].token[2] = m
    BY <2>2, <2>5
  <2> HIDE DEF R
  <2> QED
    BY <2>1, <2>3, <2>4, <2>6 DEF Linked
<1>4. seqs \in Seq(Seq(E)) /\ Len(seqs) = n
  <2>1. seqs = [m \in 1 .. n |-> seqs[m]]
    OBVIOUS
  <2> HIDE DEF seqs, R
  <2> QED
    BY <1>3, <2>1
<1> HIDE DEF seqs
<1>5. ASSUME NEW k \in 1 .. n - 1 PROVE <<seqs[k][Len(seqs[k])], seqs[k + 1][1]>> \in R
  <2>1. k \in 1 .. n /\ k + 1 \in 1 .. n
    OBVIOUS
  <2> DEFINE p == seqs[k][Len(seqs[k])]
             q == seqs[k + 1][1]
  <2>2. p \in E /\ p.token[2] = k /\ q \in E /\ q.token = <<tag(k + 1), k + 1, 0>>
    BY <1>3, <2>1
  <2> HIDE DEF p, q
  <2> QED
    BY <2>2 DEF Follows, p, q
<1> DEFINE chat == Data!FlattenSeq(seqs)
<1>6. chat \in Seq(E) /\ Linked(chat, R)
  <2> HIDE DEF R
  <2> QED
    BY <1>3, <1>4, <1>5, FlattenChain
<1>7. Data!Chat(messages) = chat
  BY DEF Data!Chat, seqs, word, tag
<1> HIDE DEF chat
<1>8. chat \in Seq(Word)
  BY <1>6 DEF E
<1>9. \A i \in 1 .. Len(chat) : chat[i].learn = Learnt(chat[i])
  BY <1>6 DEF E
<1>10. \A i \in 1 .. Len(chat) - 1 : Follows(chat[i].token, chat[i + 1].token)
  BY <1>6 DEF Linked
<1> QED
  BY <1>7, <1>8, <1>9, <1>10

\* SFTDataset: the row of a chat.
LEMMA ChatRowExact ==
    ASSUME Data!DataAssumption, NEW n \in Nat, NEW messages \in [1 .. n -> Data!Messages],
           NEW block \in DataBlocks
    PROVE  LET row == Data!SftRow(Data!Chat(messages), block)
           IN  ChatExact([i \in DOMAIN row.x |-> <<row.x[i], row.y[i]>>])
<1> DEFINE chat == Data!Chat(messages)
           row == Data!SftRow(chat, block)
           N == Len(chat)
           s == [i \in 1 .. N |-> chat[i].token]
           at(i) == IF i \in 1 .. N THEN chat[i]
                    ELSE [token |-> Data!PadToken, learn |-> FALSE]
           q == [i \in DOMAIN row.x |-> <<row.x[i], row.y[i]>>]
<1>1. /\ chat \in Seq(Word) /\ \A i \in 1 .. N : chat[i].learn = Learnt(chat[i])
      /\ \A i \in 1 .. N - 1 : Follows(chat[i].token, chat[i + 1].token)
  BY ChatIsConsecutive
<1> HIDE DEF chat
<1>2. block \in Nat
  BY DEF Data!DataAssumption
<1>3. N \in Nat /\ DOMAIN chat = 1 .. N /\ \A i \in 1 .. N : chat[i] \in Word
  BY <1>1
<1>4. /\ row.x = [i \in 1 .. block |-> at(i).token]
      /\ row.y = [i \in 1 .. block |-> IF at(i + 1).learn THEN at(i + 1).token
                                       ELSE Data!Masked]
  BY <1>3 DEF Data!SftRow
<1> HIDE DEF N, row
<1>5. \A i \in 1 .. N : s[i] = chat[i].token /\ s[i] \in {"assistant", "user"} \X Nat \X Nat
  BY <1>3 DEF Word
<1>6. s \in Seq({"assistant", "user"} \X Nat \X Nat) /\ Len(s) = N
  BY <1>3, <1>5
<1> HIDE DEF s
<1>7. Consecutive(s)
  <2> SUFFICES ASSUME NEW i \in 1 .. N - 1 PROVE Follows(s[i], s[i + 1])
    BY <1>6 DEF Consecutive
  <2>1. i \in 1 .. N /\ i + 1 \in 1 .. N
    BY <1>3
  <2> QED
    BY <1>1, <1>5, <2>1 DEF N
<1>8. \A i, j \in 1 .. N : s[i] = s[j] => i = j
  BY <1>6, <1>7, PlacesIncrease
<1>9. q = [i \in 1 .. block |-> <<at(i).token, IF at(i + 1).learn THEN at(i + 1).token
                                              ELSE Data!Masked>>]
  BY <1>4
<1>10. \A i \in 1 .. block : /\ q[i][1] = at(i).token
                             /\ q[i][2] = IF at(i + 1).learn THEN at(i + 1).token
                                         ELSE Data!Masked
  BY <1>9
<1>11. Len(q) = block /\ DOMAIN q = 1 .. block
  BY <1>2, <1>9
<1> HIDE DEF q
<1>12. ASSUME NEW i \in Nat \ {0}
       PROVE  /\ at(i).learn => /\ i \in 1 .. N /\ at(i).token = s[i] /\ s[i][1] = "assistant"
                                /\ s[i][3] > 0
              /\ at(i).token[1] = "assistant" /\ at(i).token[3] > 0 => at(i).learn
  <2>1. CASE i \in 1 .. N
    <3>1. at(i) = chat[i] /\ chat[i].learn = Learnt(chat[i]) /\ s[i] = chat[i].token
      BY <1>1, <1>5, <2>1 DEF N
    <3> HIDE DEF at
    <3> QED
      BY <2>1, <3>1 DEF Learnt
  <2>2. CASE i \notin 1 .. N
    BY <2>2 DEF Data!PadToken
  <2> QED
    BY <2>1, <2>2
<1>13. \A i \in 1 .. N - 1 : at(i).token = s[i] /\ i \in 1 .. N /\ i + 1 \in 1 .. N
  BY <1>3, <1>5
<1> HIDE DEF at
<1>14. ASSUME NEW i \in 1 .. block, q[i][2] # Data!Masked
       PROVE  /\ i + 1 \in 1 .. N /\ q[i][2] = s[i + 1]
              /\ s[i + 1][1] = "assistant" /\ s[i + 1][3] > 0
              /\ q[i][2] = Data!Successor(q[i][1])
  <2>1. i + 1 \in Nat \ {0} /\ i \in Nat \ {0}
    OBVIOUS
  <2>2. at(i + 1).learn
    BY <1>10, <1>14
  <2>3. /\ i + 1 \in 1 .. N /\ q[i][2] = s[i + 1]
        /\ s[i + 1][1] = "assistant" /\ s[i + 1][3] > 0
    BY <1>10, <1>12, <2>1, <2>2
  <2>4. i \in 1 .. N - 1
    BY <1>3, <2>3
  <2>5. q[i][1] = s[i] /\ Follows(s[i], s[i + 1])
    BY <1>6, <1>7, <1>10, <1>13, <2>4 DEF Consecutive
  <2>6. s[i + 1][3] # 0
    BY <2>3
  <2> QED
    BY <2>3, <2>5, <2>6 DEF Follows
<1>15. ASSUME NEW i \in 1 .. block, NEW j \in 1 .. block, q[i][2] # Data!Masked, q[i] = q[j]
       PROVE  i = j
  <2>1. s[i + 1] = s[j + 1] /\ i + 1 \in 1 .. N /\ j + 1 \in 1 .. N
    BY <1>14, <1>15
  <2>2. i + 1 = j + 1
    BY <1>8, <2>1
  <2> QED
    BY <1>2, <2>2
<1>16. ASSUME NEW i \in 1 .. block - 1, q[i + 1][1][1] = "assistant", q[i + 1][1][3] > 0
       PROVE  q[i][2] = q[i + 1][1]
  <2>1. i \in 1 .. block /\ i + 1 \in 1 .. block /\ i + 1 \in Nat \ {0}
    BY <1>2
  <2>2. q[i + 1][1] = at(i + 1).token
    BY <1>10, <2>1
  <2>3. at(i + 1).learn
    BY <1>12, <1>16, <2>1, <2>2
  <2> QED
    BY <1>10, <2>1, <2>2, <2>3
<1>17. ChatExact(q)
  BY <1>2, <1>11, <1>14, <1>15, <1>16 DEF ChatExact
<1> QED
  BY <1>17 DEF q, row, chat
----------------------------------------------------------------------------
(* The inductive invariant. *)

\* What the steps of the files keep: whatever a save or the file holds is a stream, and unless
\* a save died, the manifest that a whole file has is its own.
FilesMatch ==
    /\ dataPc \in {"idle", "tokens", "manifest", "epoch"}
    /\ documents \in Seq(DataLengths) /\ torn \in BOOLEAN
    /\ dataPc \in {"tokens", "manifest"} =>
         IsStream(saving.tokenizer, saving.tokens) /\ saving.block \in DataBlocks
    /\ file.whole => IsStream(file.tokenizer, file.tokens)
    /\ dataPc = "manifest" => file.tokenizer = saving.tokenizer
    /\ manifest.tokenizer \in DataTokenizers => manifest.block \in DataBlocks
    /\ dataPc \in {"idle", "epoch"} /\ file.whole /\ ~torn =>
         manifest.tokenizer = file.tokenizer

\* An epoch over U rows of B tokens: what is trained are the pairs of the rows that are not in
\* the order any more.
EpochOver(t, T, B, U, rows, o, q) ==
    /\ HasRows(t, T, B, U) /\ B > 0 /\ rows = Data!BlocksOf(T, B)
    /\ o \in Seq(1 .. U) /\ Distinct(o)
    /\ TrainedOn(q, T, B, U, (1 .. U) \ Elements(o))

PackedEpoch ==
    /\ file.whole /\ user = manifest.tokenizer /\ user \in DataTokenizers
    /\ EpochOver(file.tokenizer, file.tokens, manifest.block,
                 Data!Usable(file.tokens, manifest.block), data, order, trained)

ChatEpoch ==
    /\ Len(data) = 1 /\ DOMAIN data = 1 .. 1 /\ ChatExact(PairsOfRow(data[1]))
    /\ \/ order = <<1>> /\ trained = <<>>
       \/ order = <<>> /\ trained = PairsOfRow(data[1])

EpochsHold ==
    /\ dataPc # "epoch" => trained = <<>> /\ user = "none"
    /\ dataPc = "epoch" /\ user # "none" => PackedEpoch
    /\ dataPc = "epoch" /\ user = "none" => ChatEpoch

DataInv == FilesMatch /\ EpochsHold

\* The rows of a file that is loaded, and those a save keeps of the stream.
LEMMA UsableRows ==
    ASSUME Data!DataAssumption, NEW t, NEW T, IsStream(t, T), NEW B \in DataBlocks
    PROVE  /\ Data!Usable(T, B) \in Nat /\ B \in Nat /\ B > 0
           /\ HasRows(t, T, B, Data!Usable(T, B))
<1> DEFINE n == Len(T) - 1
           U == n \div B
           m == n % B
<1>1. Data!Usable(T, B) = U
  BY DEF Data!Usable
<1>2. B \in Nat /\ B > 0 /\ n \in Nat
  BY StreamFacts DEF Data!DataAssumption
<1>3. U \in Nat /\ m \in Nat /\ n = B * U + m
  BY <1>2, Division
<1> DEFINE x == B * U
           y == U * B
<1>4. x = y /\ y \in Nat
  BY <1>2, <1>3
<1>5. n = x + m /\ Len(T) \in Nat
  BY <1>3, StreamFacts
<1> HIDE DEF x, U, m
<1>6. y < Len(T)
  <2> HIDE DEF y
  <2> QED
    BY <1>2, <1>3, <1>4, <1>5
<1> QED
  BY <1>1, <1>2, <1>3, <1>6 DEF HasRows

LEMMA SavedIsStream ==
    ASSUME Data!DataAssumption, NEW t, NEW T, IsStream(t, T), NEW B \in DataBlocks
    PROVE  IsStream(t, SubSeq(T, 1, Data!Usable(T, B) * B + 1))
<1> DEFINE n == Data!Usable(T, B) * B
<1>1. /\ Data!Usable(T, B) \in Nat /\ B \in Nat /\ B > 0
      /\ HasRows(t, T, B, Data!Usable(T, B))
  BY UsableRows
<1>2. n \in Nat /\ n < Len(T) /\ Len(T) \in Nat
  BY <1>1, Products, StreamFacts DEF HasRows
<1> HIDE DEF n
<1>3. n + 1 \in 1 .. Len(T)
  BY <1>2
<1>4. IsStream(t, SubSeq(T, 1, n + 1))
  BY <1>3, StreamPrefix
<1> QED
  BY <1>4 DEF n

\* An order of all rows has them all.
LEMMA OrderHasAll ==
    ASSUME NEW U \in Nat, NEW o \in [1 .. U -> 1 .. U], Data!IsInjective(o)
    PROVE  o \in Seq(1 .. U) /\ Distinct(o) /\ Elements(o) = 1 .. U
<1>1. IsFiniteSet(1 .. U)
  BY FS_Interval
<1>2. o \in Injection(1 .. U, 1 .. U)
  BY DEF Data!IsInjective, Injection, IsInjective
<1>3. o \in Surjection(1 .. U, 1 .. U)
  BY <1>1, <1>2, FS_Injection
<1>4. o \in Seq(1 .. U) /\ Len(o) = U
  OBVIOUS
<1>5. Distinct(o)
  BY <1>4 DEF Distinct, Data!IsInjective
<1>6. Elements(o) \subseteq 1 .. U
  BY <1>4 DEF Elements
<1>7. \A r \in 1 .. U : \E i \in 1 .. U : o[i] = r
  BY <1>3 DEF Surjection
<1>8. 1 .. U \subseteq Elements(o)
  BY <1>4, <1>7 DEF Elements
<1> QED
  BY <1>4, <1>5, <1>6, <1>8

----------------------------------------------------------------------------
(* The steps of the files. *)

LEMMA DataStart == Data!DataAssumption /\ Data!Init => DataInv
<1> SUFFICES ASSUME Data!DataAssumption, Data!Init PROVE DataInv
  OBVIOUS
<1>1. "none" \notin DataTokenizers
  BY DEF Data!DataAssumption
<1>2. FilesMatch
  <2>1. /\ dataPc = "idle" /\ documents = <<>> /\ torn = FALSE
        /\ manifest.tokenizer = "none" /\ ~file.whole
    BY DEF Data!Init, Data!NoFile, Data!NoManifest
  <2>2. <<>> \in Seq(DataLengths)
    OBVIOUS
  <2> QED
    BY <1>1, <2>1, <2>2 DEF FilesMatch
<1>3. EpochsHold
  BY DEF Data!Init, EpochsHold
<1> QED
  BY <1>2, <1>3 DEF DataInv

LEMMA MaterializeStep ==
    ASSUME Data!DataAssumption, DataInv, Data!Materialize PROVE DataInv'
<1>1. /\ dataPc = "idle" /\ documents' \in Seq(DataLengths)
      /\ UNCHANGED <<dataPc, saving, file, manifest, packs, torn, user, data, order, trained>>
  <2>1. PICK n \in 0 .. MaxRows : documents' \in [1 .. n -> DataLengths]
    BY DEF Data!Materialize
  <2>2. documents' \in Seq(DataLengths)
    <3>1. n \in Nat
      BY DEF Data!DataAssumption
    <3> QED
      BY <2>1, <3>1
  <2> QED
    BY <2>2 DEF Data!Materialize
<1>2. FilesMatch'
  BY <1>1 DEF DataInv, FilesMatch
<1>3. EpochsHold'
  BY <1>1 DEF DataInv, EpochsHold
<1> QED
  BY <1>2, <1>3 DEF DataInv

LEMMA PackStep ==
    ASSUME Data!DataAssumption, DataInv, NEW t \in DataTokenizers, NEW block \in DataBlocks,
           Data!Pack(t, block)
    PROVE  DataInv'
<1> DEFINE T == Data!Flat(t)
           n == Data!Usable(T, block) * block + 1
<1>1. /\ dataPc = "idle" /\ documents # <<>> /\ dataPc' = "tokens"
      /\ saving' = [tokens |-> SubSeq(T, 1, n), tokenizer |-> t, block |-> block]
      /\ file' = [whole |-> FALSE, tokens |-> <<>>, tokenizer |-> "none"]
      /\ UNCHANGED <<documents, manifest, torn, user, data, order, trained>>
  BY DEF Data!Pack, Data!NoFile
<1>2. documents \in Seq(DataLengths)
  BY DEF DataInv, FilesMatch
<1>3. IsStream(t, T)
  BY <1>1, <1>2, FlatIsStream
<1> HIDE DEF T
<1>4. IsStream(t, SubSeq(T, 1, n))
  BY <1>3, SavedIsStream
<1> HIDE DEF n
<1>5. FilesMatch'
  <2> DEFINE s == SubSeq(T, 1, n)
  <2>1. IsStream(t, s) /\ saving' = [tokens |-> s, tokenizer |-> t, block |-> block]
    BY <1>1, <1>4
  <2> HIDE DEF s
  <2>2. /\ saving'.tokenizer = t /\ saving'.tokens = s /\ saving'.block \in DataBlocks
        /\ ~file'.whole
    BY <1>1, <2>1
  <2>3. IsStream(saving'.tokenizer, saving'.tokens)
    BY <2>1, <2>2
  <2> QED
    BY <1>1, <2>2, <2>3 DEF DataInv, FilesMatch
<1>6. EpochsHold'
  BY <1>1 DEF DataInv, EpochsHold
<1> QED
  BY <1>5, <1>6 DEF DataInv

LEMMA SaveTokensStep ==
    ASSUME DataInv, Data!SaveTokens PROVE DataInv'
<1>1. /\ dataPc = "tokens" /\ dataPc' = "manifest"
      /\ file' = [whole |-> TRUE, tokens |-> saving.tokens, tokenizer |-> saving.tokenizer]
      /\ UNCHANGED <<documents, saving, manifest, packs, torn, user, data, order, trained>>
  BY DEF Data!SaveTokens
<1>2. IsStream(saving.tokenizer, saving.tokens) /\ saving.block \in DataBlocks
  BY <1>1 DEF DataInv, FilesMatch
<1>3. file'.whole /\ file'.tokens = saving.tokens /\ file'.tokenizer = saving.tokenizer
  BY <1>1
<1>4. FilesMatch'
  BY <1>1, <1>2, <1>3 DEF DataInv, FilesMatch
<1>5. EpochsHold'
  BY <1>1 DEF DataInv, EpochsHold
<1> QED
  BY <1>4, <1>5 DEF DataInv

LEMMA SaveManifestStep ==
    ASSUME DataInv, Data!SaveManifest PROVE DataInv'
<1>1. /\ dataPc = "manifest" /\ dataPc' = "idle" /\ torn' = FALSE
      /\ manifest' = [tokenizer |-> saving.tokenizer, block |-> saving.block]
      /\ UNCHANGED <<documents, saving, file, packs, user, data, order, trained>>
  BY DEF Data!SaveManifest
<1>2. /\ saving.block \in DataBlocks /\ file.tokenizer = saving.tokenizer
      /\ manifest'.tokenizer = saving.tokenizer /\ manifest'.block = saving.block
  BY <1>1 DEF DataInv, FilesMatch
<1>3. FilesMatch'
  BY <1>1, <1>2 DEF DataInv, FilesMatch
<1>4. EpochsHold'
  BY <1>1 DEF DataInv, EpochsHold
<1> QED
  BY <1>3, <1>4 DEF DataInv

\* A save that dies leaves torn, whichever of its files it had written.
LEMMA DataCrashStep ==
    ASSUME DataInv, Data!Crash PROVE DataInv'
<1>1. /\ dataPc # "idle" /\ dataPc' = "idle"
      /\ torn' = (torn \/ dataPc \in {"tokens", "manifest"})
      /\ trained' = <<>> /\ user' = "none"
      /\ UNCHANGED <<documents, saving, file, manifest, packs>>
  BY DEF Data!Crash
<1>2. ~torn' => dataPc = "epoch" /\ ~torn
  BY <1>1 DEF DataInv, FilesMatch
<1>3. torn' \in BOOLEAN
  BY <1>1 DEF DataInv, FilesMatch
<1>4. FilesMatch'
  BY <1>1, <1>2, <1>3 DEF DataInv, FilesMatch
<1>5. EpochsHold'
  BY <1>1 DEF EpochsHold
<1> QED
  BY <1>4, <1>5 DEF DataInv

----------------------------------------------------------------------------
(* The steps of an epoch.  They leave the files as they are. *)

LEMMA FilesStay ==
    ASSUME FilesMatch, dataPc \in {"idle", "epoch"}, dataPc' \in {"idle", "epoch"},
           UNCHANGED <<documents, saving, file, manifest, packs, torn>>
    PROVE  FilesMatch'
BY DEF FilesMatch

LEMMA NothingTrained ==
    ASSUME NEW T, NEW B, NEW U
    PROVE  TrainedOn(<<>>, T, B, U, {})
<1>1. <<>> \in Seq(PairsOf(T, B, 1 .. U)) /\ Len(<<>>) = 0
  OBVIOUS
<1>2. PairsOf(T, B, {}) = {}
  BY DEF PairsOf
<1> QED
  BY <1>1, <1>2 DEF TrainedOn

LEMMA LoadFileStep ==
    ASSUME Data!DataAssumption, DataInv, NEW t \in DataTokenizers, Data!Load(t)
    PROVE  DataInv'
<1> DEFINE T == file.tokens
           B == manifest.block
           U == Data!Usable(T, B)
           rows == Data!BlocksOf(T, B)
<1>1. /\ dataPc = "idle" /\ dataPc' = "epoch" /\ manifest.tokenizer = t /\ file.whole
      /\ user' = t /\ data' = rows /\ trained' = <<>>
      /\ order' \in [DOMAIN rows -> DOMAIN rows] /\ Data!IsInjective(order')
      /\ UNCHANGED <<documents, saving, file, manifest, packs, torn>>
  BY DEF Data!Load, Data!Accepts, Data!BeginEpoch
<1>2. IsStream(file.tokenizer, T) /\ B \in DataBlocks
  BY <1>1 DEF DataInv, FilesMatch
<1> HIDE DEF T, B
<1>3. HasRows(file.tokenizer, T, B, U) /\ U \in Nat /\ B > 0
  BY <1>2, UsableRows
<1>4. DOMAIN rows = 1 .. U
  BY DEF Data!BlocksOf
<1>5. U = Data!Usable(T, B)
  OBVIOUS
<1> HIDE DEF U, rows
<1>6. order' \in Seq(1 .. U) /\ Distinct(order') /\ Elements(order') = 1 .. U
  BY <1>1, <1>3, <1>4, OrderHasAll
<1>7. TrainedOn(trained', T, B, U, (1 .. U) \ Elements(order'))
  <2>1. (1 .. U) \ Elements(order') = {}
    BY <1>6
  <2> QED
    BY <1>1, <2>1, NothingTrained
<1>8. PackedEpoch'
  <2>1. EpochOver(file.tokenizer, T, B, U, data', order', trained')
    BY <1>1, <1>3, <1>6, <1>7 DEF EpochOver, rows
  <2>2. /\ file' = file /\ manifest' = manifest
        /\ user' = manifest.tokenizer /\ user' \in DataTokenizers
    BY <1>1
  <2> QED
    BY <1>1, <2>1, <2>2 DEF PackedEpoch, T, B, U
<1>9. t # "none"
  BY DEF Data!DataAssumption
<1>10. FilesMatch'
  BY <1>1, FilesStay DEF DataInv
<1>11. EpochsHold'
  BY <1>1, <1>8, <1>9 DEF EpochsHold
<1> QED
  BY <1>10, <1>11 DEF DataInv

LEMMA LoadChatStep ==
    ASSUME Data!DataAssumption, DataInv, Data!LoadChat PROVE DataInv'
<1>0. PICK n \in 1 .. MaxRows :
        \E messages \in [1 .. n -> Data!Messages], block \in DataBlocks :
          Data!BeginEpoch(<<Data!SftRow(Data!Chat(messages), block)>>)
  BY DEF Data!LoadChat
<1>1. PICK messages \in [1 .. n -> Data!Messages], block \in DataBlocks :
        Data!BeginEpoch(<<Data!SftRow(Data!Chat(messages), block)>>)
  BY <1>0
<1> DEFINE row == Data!SftRow(Data!Chat(messages), block)
           rows == <<row>>
<1>2. ChatExact(PairsOfRow(row))
  <2>1. n \in Nat
    BY DEF Data!DataAssumption
  <2> QED
    BY <2>1, ChatRowExact DEF PairsOfRow
<1>3. Data!BeginEpoch(rows)
  BY <1>1
<1> HIDE DEF row
<1>4. Len(rows) = 1 /\ DOMAIN rows = 1 .. 1 /\ rows[1] = row
  OBVIOUS
<1> HIDE DEF rows
<1>5. /\ dataPc = "idle" /\ dataPc' = "epoch" /\ data' = rows /\ trained' = <<>>
      /\ order' \in [DOMAIN rows -> DOMAIN rows]
      /\ UNCHANGED <<documents, saving, file, manifest, packs, torn, user>>
  BY <1>3 DEF Data!LoadChat, Data!BeginEpoch
<1>6. order' = <<1>>
  <2>1. order' \in [1 .. 1 -> 1 .. 1]
    BY <1>4, <1>5
  <2>2. order' = [i \in 1 .. 1 |-> 1]
    BY <2>1
  <2> QED
    BY <2>2
<1>7. ChatEpoch'
  BY <1>2, <1>4, <1>5, <1>6 DEF ChatEpoch
<1>8. FilesMatch'
  BY <1>5, FilesStay DEF DataInv
<1>9. user' = "none"
  BY <1>5 DEF DataInv, EpochsHold
<1>10. EpochsHold'
  BY <1>5, <1>7, <1>9 DEF EpochsHold
<1> QED
  BY <1>8, <1>10 DEF DataInv

LEMMA EndEpochStep ==
    ASSUME DataInv, Data!EndEpoch PROVE DataInv'
<1>1. /\ dataPc = "epoch" /\ dataPc' = "idle" /\ user' = "none" /\ trained' = <<>>
      /\ UNCHANGED <<documents, saving, file, manifest, packs, torn>>
  BY DEF Data!EndEpoch
<1>2. FilesMatch'
  BY <1>1, FilesStay DEF DataInv
<1>3. EpochsHold'
  BY <1>1 DEF EpochsHold
<1> QED
  BY <1>2, <1>3 DEF DataInv

\* What a batch does, whatever the data.
LEMMA BatchIs ==
    ASSUME Data!Batch
    PROVE  LET n  == IF Len(order) < DataBatch THEN Len(order) ELSE DataBatch
               rs == [i \in 1 .. n |-> PairsOfRow(data[order[i]])]
           IN  /\ dataPc = "epoch" /\ dataPc' = "epoch" /\ order # <<>>
               /\ trained' = trained \o Data!FlattenSeq(rs)
               /\ order' = SubSeq(order, n + 1, Len(order))
               /\ UNCHANGED <<documents, saving, file, manifest, packs, torn, user, data>>
BY DEF Data!Batch, PairsOfRow

LEMMA PackedBatch ==
    ASSUME Data!DataAssumption, PackedEpoch, Data!Batch PROVE PackedEpoch'
<1> DEFINE T == file.tokens
           B == manifest.block
           U == Data!Usable(T, B)
           t == file.tokenizer
           n == IF Len(order) < DataBatch THEN Len(order) ELSE DataBatch
           rs == [i \in 1 .. n |-> PairsOfRow(data[order[i]])]
           left == SubSeq(order, n + 1, Len(order))
<1>1. /\ trained' = trained \o Data!FlattenSeq(rs) /\ order' = left
      /\ UNCHANGED <<file, manifest, user, data>>
  BY BatchIs
<1>2. /\ HasRows(t, T, B, U) /\ B > 0 /\ data = Data!BlocksOf(T, B)
      /\ order \in Seq(1 .. U) /\ Distinct(order)
      /\ TrainedOn(trained, T, B, U, (1 .. U) \ Elements(order))
  BY DEF PackedEpoch, EpochOver
<1>3. U \in Nat /\ B \in Nat
  BY <1>2 DEF HasRows
<1>4. data = [i \in 1 .. U |-> Data!Row(T, (i - 1) * B, B)]
  BY <1>2 DEF Data!BlocksOf
<1>5. U = Data!Usable(file.tokens, manifest.block)
  OBVIOUS
<1> HIDE DEF T, B, U, t
<1>6. n \in 0 .. Len(order)
  <2>1. DataBatch \in Nat /\ Len(order) \in Nat
    BY <1>2 DEF Data!DataAssumption
  <2> QED
    BY <2>1
<1> HIDE DEF n
<1>7. rs = [i \in 1 .. n |-> RowOf(T, B, order[i])]
  <2>1. ASSUME NEW i \in 1 .. n PROVE PairsOfRow(data[order[i]]) = RowOf(T, B, order[i])
    <3> DEFINE r == order[i]
    <3>1. r \in 1 .. U
      <4> DEFINE R == 1 .. U
      <4>0. order \in Seq(R)
        BY <1>2
      <4> HIDE DEF R, r, rs, left
      <4>1. \A j \in 1 .. Len(order) : order[j] \in R
        BY <4>0
      <4>2. i \in 1 .. Len(order)
        <5>1. Len(order) \in Nat
          BY <1>2
        <5> QED
          BY <1>6, <5>1
      <4> QED
        BY <4>1, <4>2 DEF R, r
    <3> HIDE DEF r
    <3>2. data[r] = Data!Row(T, (r - 1) * B, B)
      BY <1>4, <3>1
    <3>3. PairsOfRow(Data!Row(T, (r - 1) * B, B)) = RowOf(T, B, r)
      BY <1>2, <1>3, <3>1, RowPairs DEF IsRow
    <3> QED
      BY <3>2, <3>3 DEF r
  <2> QED
    BY <2>1
<1> HIDE DEF rs
<1> DEFINE q == trained \o Data!FlattenSeq(rs)
<1>8. left \in Seq(1 .. U) /\ Distinct(left) /\ TrainedOn(q, T, B, U, (1 .. U) \ Elements(left))
  <2> HIDE DEF q, left
  <2>1. /\ left = SubSeq(order, n + 1, Len(order)) /\ q = trained \o Data!FlattenSeq(rs)
    BY DEF left, q
  <2> QED
    BY <1>2, <1>3, <1>6, <1>7, <2>1, BatchTrains
<1>9. EpochOver(t, T, B, U, data, left, q)
  BY <1>2, <1>8 DEF EpochOver
<1> HIDE DEF q, left
<1>10. trained' = q /\ order' = left
  BY <1>1 DEF q, left
<1>11. EpochOver(t, T, B, U, data', order', trained') /\ file' = file /\ manifest' = manifest
       /\ user' = user
  BY <1>1, <1>9, <1>10
<1> QED
  BY <1>5, <1>11 DEF PackedEpoch, t, T, B, U

LEMMA ChatBatch ==
    ASSUME Data!DataAssumption, ChatEpoch, Data!Batch PROVE ChatEpoch'
<1> DEFINE n == IF Len(order) < DataBatch THEN Len(order) ELSE DataBatch
           rs == [i \in 1 .. n |-> PairsOfRow(data[order[i]])]
           p == PairsOfRow(data[1])
<1>1. /\ trained' = trained \o Data!FlattenSeq(rs) /\ order # <<>>
      /\ order' = SubSeq(order, n + 1, Len(order)) /\ data' = data
  BY BatchIs
<1>2. order = <<1>> /\ trained = <<>>
  BY <1>1 DEF ChatEpoch
<1>3. n = 1
  <2>1. DataBatch \in Nat \ {0} /\ Len(order) = 1
    BY <1>2 DEF Data!DataAssumption
  <2> QED
    BY <2>1
<1>4. Len(order) = 1 /\ order[1] = 1
  BY <1>2
<1> HIDE DEF n
<1>5. order' = <<>>
  BY <1>1, <1>2, <1>3
<1>6. rs = <<p>>
  <2>1. rs = [i \in 1 .. 1 |-> PairsOfRow(data[order[i]])]
    BY <1>3
  <2>2. \A i \in 1 .. 1 : data[order[i]] = data[1]
    BY <1>4
  <2> QED
    BY <2>1, <2>2
<1> HIDE DEF rs
<1>7. ChatExact(p)
  BY DEF ChatEpoch
<1> DEFINE S == {p[i] : i \in 1 .. Len(p)}
<1>8. p \in Seq(S)
  <2> HIDE DEF p
  <2>1. Len(p) \in Nat /\ DOMAIN p = 1 .. Len(p)
    BY <1>7 DEF ChatExact
  <2>2. p = [i \in 1 .. Len(p) |-> p[i]]
    BY <2>1 DEF p, PairsOfRow
  <2>3. \A i \in 1 .. Len(p) : p[i] \in S
    OBVIOUS
  <2> HIDE DEF S
  <2> QED
    BY <2>1, <2>2, <2>3
<1> HIDE DEF p, S
<1>9. trained' = p
  <2>1. rs \in Seq(Seq(S)) /\ Len(rs) = 1 /\ rs[1] = p
    BY <1>6, <1>8
  <2>2. PICK F \in [0 .. Len(rs) -> Seq(S)] :
          /\ F[0] = <<>> /\ \A k \in 1 .. Len(rs) : F[k] = F[k - 1] \o rs[k]
          /\ Data!FlattenSeq(rs) = F[Len(rs)]
    BY <2>1, FlattenIs
  <2>3. F[1] = F[1 - 1] \o rs[1] /\ 1 - 1 = 0 /\ Data!FlattenSeq(rs) = F[1]
    BY <2>1, <2>2
  <2>4. F[1] = p
    BY <1>8, <2>1, <2>2, <2>3
  <2> QED
    BY <1>1, <1>2, <1>8, <2>3, <2>4
<1> QED
  BY <1>1, <1>5, <1>9 DEF ChatEpoch, p

LEMMA BatchStep ==
    ASSUME Data!DataAssumption, DataInv, Data!Batch PROVE DataInv'
<1>1. /\ dataPc = "epoch" /\ dataPc' = "epoch"
      /\ UNCHANGED <<documents, saving, file, manifest, packs, torn, user, data>>
  BY BatchIs
<1>2. FilesMatch'
  BY <1>1, FilesStay DEF DataInv
<1>3. user # "none" => PackedEpoch'
  BY <1>1, PackedBatch DEF DataInv, EpochsHold
<1>4. user = "none" => ChatEpoch'
  BY <1>1, ChatBatch DEF DataInv, EpochsHold
<1>5. EpochsHold'
  BY <1>1, <1>3, <1>4 DEF EpochsHold
<1> QED
  BY <1>2, <1>5 DEF DataInv

LEMMA DataStep ==
    ASSUME Data!DataAssumption, DataInv, [Data!Next]_(Data!vars) PROVE DataInv'
<1>1. CASE Data!Materialize
  BY <1>1, MaterializeStep
<1>2. ASSUME NEW t \in DataTokenizers, NEW block \in DataBlocks, Data!Pack(t, block)
      PROVE  DataInv'
  BY <1>2, PackStep
<1>3. CASE Data!SaveTokens
  BY <1>3, SaveTokensStep
<1>4. CASE Data!SaveManifest
  BY <1>4, SaveManifestStep
<1>5. CASE Data!Crash
  BY <1>5, DataCrashStep
<1>6. ASSUME NEW t \in DataTokenizers, Data!Load(t) PROVE DataInv'
  BY <1>6, LoadFileStep
<1>7. CASE Data!LoadChat
  BY <1>7, LoadChatStep
<1>8. CASE Data!Batch
  BY <1>8, BatchStep
<1>9. CASE Data!EndEpoch
  BY <1>9, EndEpochStep
<1>10. CASE UNCHANGED Data!vars
  <2>1. UNCHANGED <<dataPc, documents, saving, file, manifest, packs, torn, user, data, order,
                    trained>>
    BY <1>10 DEF Data!vars
  <2>2. FilesMatch'
    BY <2>1 DEF DataInv, FilesMatch
  <2>3. PackedEpoch' = PackedEpoch /\ ChatEpoch' = ChatEpoch
    BY <2>1 DEF PackedEpoch, ChatEpoch
  <2>4. EpochsHold'
    BY <2>1, <2>3 DEF DataInv, EpochsHold
  <2> QED
    BY <2>2, <2>4 DEF DataInv
<1> QED
  BY <1>1, <1>2, <1>3, <1>4, <1>5, <1>6, <1>7, <1>8, <1>9, <1>10 DEF Data!Next

----------------------------------------------------------------------------
(* The properties, of a packed epoch and of a chat. *)

\* What TrainedOn says of a pair, in the words of EpochExact.
LEMMA TrainedPairs ==
    ASSUME Data!DataAssumption, NEW t, NEW T, NEW B \in Nat, NEW U \in Nat,
           HasRows(t, T, B, U), NEW done \in SUBSET (1 .. U), NEW q, TrainedOn(q, T, B, U, done)
    PROVE  /\ DOMAIN q = 1 .. Len(q)
           /\ \A i \in 1 .. Len(q) : /\ Follows(q[i][1], q[i][2]) /\ q[i][2] # Data!Masked
                                     /\ q[i][2][1] \notin {"user", "pad", "assistant"}
           /\ \A i, j \in 1 .. Len(q) : q[i] = q[j] => i = j
<1>1. /\ q \in Seq(PairsOf(T, B, 1 .. U)) /\ \A i, j \in 1 .. Len(q) : q[i] = q[j] => i = j
  BY DEF TrainedOn
<1>2. DOMAIN q = 1 .. Len(q) /\ \A i \in 1 .. Len(q) : q[i] \in PairsOf(T, B, 1 .. U)
  BY <1>1
<1>3. ASSUME NEW r \in 1 .. U, NEW k \in 1 .. B
      PROVE  LET p == PairOf(T, B, r, k)
             IN  Follows(p[1], p[2]) /\ p[2] # Data!Masked
                 /\ p[2][1] \notin {"user", "pad", "assistant"}
  <2> DEFINE i == (r - 1) * B + k
             u == U * B
  <2>1. i \in 1 .. u /\ u \in Nat /\ u < Len(T) /\ IsStream(t, T)
    BY PlaceInRows, Products DEF HasRows
  <2>2. PairOf(T, B, r, k) = <<T[i], T[i + 1]>>
    BY DEF PairOf
  <2> HIDE DEF i, u
  <2>3. i \in 1 .. Len(T) - 1 /\ i + 1 \in 1 .. Len(T)
    <3>1. Len(T) \in Nat
      BY <2>1, StreamFacts
    <3> QED
      BY <2>1, <3>1
  <2>4. Follows(T[i], T[i + 1])
    BY <2>1, <2>3 DEF IsStream, Consecutive
  <2>5. T[i + 1][1] \in DataTokenizers
    BY <2>1, <2>3, StreamFacts
  <2>6. T[i + 1][1] \notin {"none", "user", "pad", "assistant"}
    BY <2>5 DEF Data!DataAssumption
  <2>7. T[i + 1] # Data!Masked
    BY <2>6 DEF Data!Masked
  <2> QED
    BY <2>2, <2>4, <2>6, <2>7
<1>4. ASSUME NEW i \in 1 .. Len(q)
      PROVE  /\ Follows(q[i][1], q[i][2]) /\ q[i][2] # Data!Masked
             /\ q[i][2][1] \notin {"user", "pad", "assistant"}
  <2>1. PICK r \in 1 .. U, k \in 1 .. B : q[i] = PairOf(T, B, r, k)
    BY <1>2 DEF PairsOf
  <2> QED
    BY <1>3, <2>1
<1> QED
  BY <1>1, <1>2, <1>4

\* All targets of all rows are the tokens behind the first one.
LEMMA AllTargets ==
    ASSUME NEW t, NEW T, NEW B \in Nat, B > 0, NEW U \in Nat, HasRows(t, T, B, U), NEW q,
           TrainedOn(q, T, B, U, 1 .. U)
    PROVE  {q[i][2] : i \in 1 .. Len(q)} = Data!Range(Tail(SubSeq(T, 1, U * B + 1)))
<1> DEFINE u == U * B
           s == SubSeq(T, 1, u + 1)
           S == {t} \X Nat \X Nat
<1>1. u \in Nat /\ u < Len(T) /\ T \in Seq(S) /\ Len(T) \in Nat
  BY Products, StreamFacts DEF HasRows, IsStream
<1>2. Data!Range(Tail(s)) = {T[i + 1] : i \in 1 .. u}
  <2> HIDE DEF u, S
  <2>1. u + 1 \in 1 .. Len(T)
    BY <1>1
  <2>2. s \in Seq(S) /\ Len(s) = u + 1 /\ \A i \in 1 .. u + 1 : s[i] = T[i]
    BY <1>1, <2>1
  <2> HIDE DEF s
  <2>3. s # <<>>
    BY <1>1, <2>2
  <2>4. Tail(s) \in Seq(S) /\ Len(Tail(s)) = u /\ \A i \in 1 .. u : Tail(s)[i] = s[i + 1]
    BY <1>1, <2>2, <2>3
  <2>5. DOMAIN Tail(s) = 1 .. u /\ \A i \in 1 .. u : i + 1 \in 1 .. u + 1
    BY <1>1, <2>4
  <2>6. \A i \in 1 .. u : Tail(s)[i] = T[i + 1]
    BY <2>2, <2>4, <2>5
  <2> QED
    BY <2>5, <2>6 DEF Data!Range
<1>3. ASSUME NEW i \in 1 .. Len(q) PROVE \E j \in 1 .. u : q[i][2] = T[j + 1]
  <2>1. q[i] \in PairsOf(T, B, 1 .. U)
    BY DEF TrainedOn
  <2>2. PICK r \in 1 .. U, k \in 1 .. B : q[i] = PairOf(T, B, r, k)
    BY <2>1 DEF PairsOf
  <2>3. (r - 1) * B + k \in 1 .. u
    BY PlaceInRows
  <2>4. q[i][2] = T[((r - 1) * B + k) + 1]
    BY <2>2 DEF PairOf
  <2> QED
    BY <2>3, <2>4
<1>4. ASSUME NEW j \in 1 .. u PROVE \E i \in 1 .. Len(q) : q[i][2] = T[j + 1]
  <2>1. PICK r \in 1 .. U, k \in 1 .. B : j = (r - 1) * B + k
    BY RowOfPlace
  <2>2. PairOf(T, B, r, k) \in PairsOf(T, B, 1 .. U)
    BY DEF PairsOf
  <2>3. PICK i \in 1 .. Len(q) : q[i] = PairOf(T, B, r, k)
    BY <2>2 DEF TrainedOn
  <2>4. q[i][2] = T[((r - 1) * B + k) + 1]
    BY <2>3 DEF PairOf
  <2> QED
    BY <2>1, <2>4
<1> HIDE DEF u, s
<1>5. {q[i][2] : i \in 1 .. Len(q)} = {T[i + 1] : i \in 1 .. u}
  <2>1. \A x \in {q[i][2] : i \in 1 .. Len(q)} : x \in {T[i + 1] : i \in 1 .. u}
    BY <1>3
  <2>2. \A x \in {T[i + 1] : i \in 1 .. u} : x \in {q[i][2] : i \in 1 .. Len(q)}
    BY <1>4
  <2> QED
    BY <2>1, <2>2
<1> QED
  BY <1>2, <1>5 DEF s, u

LEMMA TokensMatch ==
    ASSUME DataInv PROVE Data!TokensOfTokenizer
<1> SUFFICES ASSUME dataPc = "epoch", user # "none", ~torn,
                    NEW row \in Data!Range(data), NEW token \in Data!Range(row.x)
             PROVE  token[1] = user
  BY DEF Data!TokensOfTokenizer
<1> DEFINE T == file.tokens
           B == manifest.block
           U == Data!Usable(T, B)
<1>1. file.whole /\ user = manifest.tokenizer /\ manifest.tokenizer = file.tokenizer
  BY DEF DataInv, EpochsHold, FilesMatch, PackedEpoch
<1>2. HasRows(file.tokenizer, T, B, U) /\ data = Data!BlocksOf(T, B)
  BY DEF DataInv, EpochsHold, PackedEpoch, EpochOver
<1>3. U \in Nat /\ B \in Nat
  BY <1>2 DEF HasRows
<1>4. data = [i \in 1 .. U |-> Data!Row(T, (i - 1) * B, B)]
  BY <1>2 DEF Data!BlocksOf
<1> HIDE DEF T, B, U
<1>5. PICK r \in 1 .. U : row = Data!Row(T, (r - 1) * B, B)
  <2>1. DOMAIN data = 1 .. U /\ \A i \in 1 .. U : data[i] = Data!Row(T, (i - 1) * B, B)
    BY <1>4
  <2>2. PICK i \in DOMAIN data : row = data[i]
    BY DEF Data!Range
  <2> QED
    BY <2>1, <2>2
<1>6. token[1] = file.tokenizer
  <2>1. IsRow(row, file.tokenizer, T, B, r)
    BY <1>2, <1>3, <1>5, RowPairs
  <2> QED
    BY <2>1 DEF IsRow
<1> QED
  BY <1>1, <1>6

LEMMA NothingLearnt == ChatExact(<<>>)
<1>1. Len(<<>>) = 0 /\ DOMAIN <<>> = 1 .. 0
  OBVIOUS
<1> QED
  BY <1>1 DEF ChatExact

LEMMA ChatIsExact ==
    ASSUME ChatExact(trained), user = "none" PROVE Data!EpochExact
<1> DEFINE learnt == {i \in DOMAIN trained : trained[i][2] # Data!Masked}
<1>1. DOMAIN trained = 1 .. Len(trained) /\ Len(trained) \in Nat
  BY DEF ChatExact
<1>2. \A i, j \in learnt : trained[i] = trained[j] => i = j
  BY <1>1 DEF ChatExact
<1>3. \A i \in learnt : trained[i][2] = Data!Successor(trained[i][1])
  BY <1>1 DEF ChatExact
<1>4. ASSUME NEW i \in DOMAIN trained
      PROVE  /\ trained[i][2][1] = "assistant" => trained[i][2][3] > 0
             /\ trained[i][2][1] \notin {"user", "pad"}
  <2>1. CASE trained[i][2] = Data!Masked
    BY <2>1 DEF Data!Masked
  <2>2. CASE trained[i][2] # Data!Masked
    <3>1. trained[i][2][1] = "assistant" /\ trained[i][2][3] > 0
      BY <1>1, <2>2 DEF ChatExact
    <3> QED
      BY <3>1
  <2> QED
    BY <2>1, <2>2
<1>5. ASSUME NEW i \in DOMAIN trained, i + 1 \in DOMAIN trained,
             trained[i + 1][1][1] = "assistant", trained[i + 1][1][3] > 0
      PROVE  trained[i][2] = trained[i + 1][1]
  <2>1. i \in 1 .. Len(trained) - 1
    BY <1>1, <1>5
  <2> QED
    BY <1>5, <2>1 DEF ChatExact
<1>6. Data!LearnsAnswers
  BY <1>4, <1>5 DEF Data!LearnsAnswers
<1> QED
  BY <1>2, <1>3, <1>6 DEF Data!EpochExact

LEMMA PackedIsExact ==
    ASSUME Data!DataAssumption, PackedEpoch, user # "none" PROVE Data!EpochExact
<1> DEFINE T == file.tokens
           B == manifest.block
           U == Data!Usable(T, B)
           learnt == {i \in DOMAIN trained : trained[i][2] # Data!Masked}
           targets == Data!Range(Tail(SubSeq(T, 1, U * B + 1)))
<1>1. /\ HasRows(file.tokenizer, T, B, U) /\ B > 0
      /\ TrainedOn(trained, T, B, U, (1 .. U) \ Elements(order))
  BY DEF PackedEpoch, EpochOver
<1>2. U \in Nat /\ B \in Nat
  BY <1>1 DEF HasRows
<1> HIDE DEF T, B, U
<1>3. /\ DOMAIN trained = 1 .. Len(trained)
      /\ \A i \in 1 .. Len(trained) :
           /\ Follows(trained[i][1], trained[i][2]) /\ trained[i][2] # Data!Masked
           /\ trained[i][2][1] \notin {"user", "pad", "assistant"}
      /\ \A i, j \in 1 .. Len(trained) : trained[i] = trained[j] => i = j
  <2> DEFINE done == (1 .. U) \ Elements(order)
  <2>1. done \in SUBSET (1 .. U)
    OBVIOUS
  <2> HIDE DEF done
  <2>2. TrainedOn(trained, T, B, U, done)
    BY <1>1 DEF done
  <2> QED
    BY <1>1, <1>2, <2>1, <2>2, TrainedPairs
<1>4. learnt = 1 .. Len(trained)
  BY <1>3
<1>5. Data!LearnsAnswers
  BY <1>3 DEF Data!LearnsAnswers
<1>6. order = <<>> => {trained[i][2] : i \in learnt} = targets
  <2> HAVE order = <<>>
  <2>1. Elements(order) = {}
    BY DEF Elements
  <2>2. TrainedOn(trained, T, B, U, 1 .. U)
    BY <1>1, <2>1
  <2>3. {trained[i][2] : i \in 1 .. Len(trained)} = targets
    BY <1>1, <1>2, <2>2, AllTargets
  <2> QED
    BY <1>4, <2>3
<1>7. targets = Data!Range(Tail(SubSeq(file.tokens, 1,
                   Data!Usable(file.tokens, manifest.block) * manifest.block + 1)))
  BY DEF T, B, U
<1>8. \A i, j \in learnt : trained[i] = trained[j] => i = j
  BY <1>3, <1>4
<1>9. \A i \in learnt : Follows(trained[i][1], trained[i][2])
  BY <1>3, <1>4
<1> HIDE DEF targets
<1> QED
  BY <1>5, <1>6, <1>7, <1>8, <1>9 DEF Data!EpochExact, Follows

\* For any tokenizers, lengths of documents, block and batch sizes, and any number of packs: a
\* run that loads a packed file trains on tokens of its own tokenizer unless a save died
\* between the token file and its manifest, and every epoch, over a packed file or a chat, is
\* exact: no pair twice, every target the token behind its input, whatever boundary of blocks,
\* documents or batches lies between, nothing of the whole blocks left out, and in a chat the
\* words of the assistant learnt and nothing else (packing.py, save_packed_token_file and
\* load_packed_token_file; dataset.py, __getitem__ and iter_batches; chat.py, SFTDataset).
THEOREM DataIsExact == Data!Spec => []DataExact
<1>1. Data!Init => DataInv
  BY DataParameters, DataStart
<1>2. DataInv /\ [Data!Next]_(Data!vars) => DataInv'
  BY DataParameters, DataStep
<1>3. DataInv => DataExact
  <2> SUFFICES ASSUME DataInv PROVE DataExact
    OBVIOUS
  <2>1. Data!TokensOfTokenizer
    BY TokensMatch
  <2>2. CASE dataPc = "epoch" /\ user # "none"
    <3>1. Data!EpochExact
      BY <2>2, DataParameters, PackedIsExact DEF DataInv, EpochsHold
    <3> QED
      BY <2>1, <3>1 DEF DataExact, Data!DataExact
  <2>3. CASE dataPc = "epoch" /\ user = "none"
    <3>1. trained = <<>> \/ ChatExact(trained)
      BY <2>3 DEF DataInv, EpochsHold, ChatEpoch
    <3>2. ChatExact(trained)
      BY <3>1, NothingLearnt
    <3> QED
      BY <2>1, <2>3, <3>2, ChatIsExact DEF DataExact, Data!DataExact
  <2>4. CASE dataPc # "epoch"
    <3>1. ChatExact(trained) /\ user = "none"
      BY <2>4, NothingLearnt DEF DataInv, EpochsHold
    <3> QED
      BY <2>1, <3>1, ChatIsExact DEF DataExact, Data!DataExact
  <2> QED
    BY <2>2, <2>3, <2>4
<1> QED
  BY <1>1, <1>2, <1>3, PTL DEF Data!Spec

----------------------------------------------------------------------------
(* _merge_tokens. *)

\* The pair begins at i.
Joins(s, pair, i) == i \in 1 .. Len(s) - 1 /\ <<s[i], s[i + 1]>> = pair

\* from[i] is what the tokens from i on come to.
Scans(from, s, pair, token) ==
    /\ from \in [1 .. Len(s) + 1 -> Seq(Nat)] /\ from[Len(s) + 1] = <<>>
    /\ \A i \in 1 .. Len(s) :
         from[i] = IF Joins(s, pair, i) THEN <<token>> \o from[i + 2]
                   ELSE <<s[i]>> \o from[i + 1]

\* MergeTokens by its equations.
LEMMA MergeIs ==
    ASSUME NEW s \in Seq(Nat), NEW pair, NEW token \in Nat
    PROVE  \E from : /\ Scans(from, s, pair, token)
                     /\ Tokenizer!MergeTokens(s, pair, token) = from[1]
<1> DEFINE N == Len(s)
           D == Seq(Nat) \X Seq(Nat)
           base == <<<<>>, <<>>>>
           next == [kp \in (1 .. N) \X D |->
                      <<IF Joins(s, pair, N + 1 - kp[1]) THEN <<token>> \o kp[2][2]
                        ELSE <<s[N + 1 - kp[1]]>> \o kp[2][1], kp[2][1]>>]
<1>1. N \in Nat /\ \A i \in 1 .. N : s[i] \in Nat
  OBVIOUS
<1>2. ASSUME NEW k \in 1 .. N, NEW p \in D
      PROVE  /\ next[<<k, p>>][1] = IF Joins(s, pair, N + 1 - k) THEN <<token>> \o p[2]
                                    ELSE <<s[N + 1 - k]>> \o p[1]
             /\ next[<<k, p>>][2] = p[1] /\ next[<<k, p>>] \in D
  <2>1. N + 1 - k \in 1 .. N /\ p[1] \in Seq(Nat) /\ p[2] \in Seq(Nat)
    BY <1>1
  <2>2. s[N + 1 - k] \in Nat
    BY <1>1, <2>1
  <2> DEFINE e == s[N + 1 - k]
             x == IF Joins(s, pair, N + 1 - k) THEN <<token>> \o p[2] ELSE <<e>> \o p[1]
  <2>3. x \in Seq(Nat)
    <3> HIDE DEF e
    <3> QED
      BY <2>1, <2>2 DEF e
  <2>4. next[<<k, p>>] = <<x, p[1]>>
    OBVIOUS
  <2> HIDE DEF x, next
  <2>5. next[<<k, p>>][1] = x /\ next[<<k, p>>][2] = p[1] /\ next[<<k, p>>] \in D
    BY <2>1, <2>3, <2>4
  <2> QED
    BY <2>5 DEF x
<1>3. base \in D
  <2>1. <<>> \in Seq(Nat)
    OBVIOUS
  <2> QED
    BY Zenon, <2>1
<1>4. next \in [(1 .. N) \X D -> D]
  <2>1. \A x \in (1 .. N) \X D : next[x] \in D
    <3> SUFFICES ASSUME NEW x \in (1 .. N) \X D PROVE next[x] \in D
      OBVIOUS
    <3>1. PICK k \in 1 .. N, p \in D : x = <<k, p>>
      OBVIOUS
    <3> HIDE DEF next
    <3> QED
      BY <1>2, <3>1
  <2>2. next = [x \in (1 .. N) \X D |-> next[x]]
    OBVIOUS
  <2> HIDE DEF next, D, N
  <2> QED
    BY <2>1, <2>2
<1> HIDE DEF next
<1>5. PICK G : Recurs(G, N, D, base, next)
  <2> HIDE DEF D, base, N
  <2> QED
    BY <1>1, <1>3, <1>4, Recursion
<1>6. /\ \A k \in 0 .. N : G[k] \in D
      /\ G[0] = <<<<>>, <<>>>> /\ \A k \in 1 .. N : G[k] = next[<<k, G[k - 1]>>]
  BY <1>5 DEF Recurs
<1> DEFINE from == [i \in 1 .. N + 1 |-> G[N + 1 - i][1]]
<1>7. ASSUME NEW i \in 1 .. N + 1
      PROVE  from[i] = G[N + 1 - i][1] /\ from[i] \in Seq(Nat)
  <2>1. N + 1 - i \in 0 .. N
    BY <1>1
  <2> QED
    BY <1>6, <2>1
<1>8. from \in [1 .. N + 1 -> Seq(Nat)]
  <2>1. from = [i \in 1 .. N + 1 |-> from[i]]
    OBVIOUS
  <2> HIDE DEF from
  <2> QED
    BY <1>7, <2>1
<1> HIDE DEF from
<1>9. from[N + 1] = <<>>
  <2>1. N + 1 \in 1 .. N + 1 /\ N + 1 - (N + 1) = 0
    BY <1>1
  <2> QED
    BY <1>6, <1>7, <2>1
<1>10. ASSUME NEW i \in 1 .. N
       PROVE  from[i] = IF Joins(s, pair, i) THEN <<token>> \o from[i + 2]
                        ELSE <<s[i]>> \o from[i + 1]
  <2> DEFINE k == N + 1 - i
  <2>1. k \in 1 .. N /\ k - 1 \in 0 .. N /\ N + 1 - k = i /\ k - 1 = N + 1 - (i + 1)
        /\ i \in 1 .. N + 1 /\ i + 1 \in 1 .. N + 1
    BY <1>1
  <2>2. G[k] = next[<<k, G[k - 1]>>] /\ G[k - 1] \in D
    BY <1>6, <2>1
  <2>3. from[i] = G[k][1] /\ from[i + 1] = G[k - 1][1]
    BY <1>7, <2>1
  <2> HIDE DEF k, N, D
  <2>e. next[<<k, G[k - 1]>>][1] = IF Joins(s, pair, N + 1 - k) THEN <<token>> \o G[k - 1][2]
                                   ELSE <<s[N + 1 - k]>> \o G[k - 1][1]
    BY <1>2, <2>1, <2>2
  <2>4. G[k][1] = IF Joins(s, pair, i) THEN <<token>> \o G[k - 1][2]
                  ELSE <<s[i]>> \o G[k - 1][1]
    BY <2>1, <2>2, <2>e
  <2>5. ASSUME Joins(s, pair, i) PROVE G[k - 1][2] = from[i + 2]
    <3>1. i <= N - 1
      BY <2>5 DEF Joins, N
    <3>2. k - 1 \in 1 .. N /\ i + 2 \in 1 .. N + 1 /\ (k - 1) - 1 = N + 1 - (i + 2)
          /\ (k - 1) - 1 \in 0 .. N
      BY <1>1, <3>1 DEF k
    <3>3. G[k - 1] = next[<<k - 1, G[(k - 1) - 1]>>] /\ G[(k - 1) - 1] \in D
      BY <1>6, <3>2
    <3>4. G[k - 1][2] = G[(k - 1) - 1][1]
      BY ZenonT(40), <1>2, <3>2, <3>3
    <3> QED
      BY <1>7, <3>2, <3>4
  <2> QED
    BY <2>3, <2>4, <2>5
<1>11. Scans(from, s, pair, token)
  BY <1>8, <1>9, <1>10 DEF Scans
<1> DEFINE Solves(f) ==
             f = [i \in 1 .. Len(s) + 1 |->
                    IF i > Len(s) THEN <<>>
                    ELSE IF i < Len(s) /\ <<s[i], s[i + 1]>> = pair
                         THEN <<token>> \o f[i + 2] ELSE <<s[i]>> \o f[i + 1]]
           chosen == CHOOSE f : Solves(f)
<1>12. Tokenizer!MergeTokens(s, pair, token) = chosen[1]
  BY DEF Tokenizer!MergeTokens
<1>13. \A i \in 1 .. N : Joins(s, pair, i) <=> i < N /\ <<s[i], s[i + 1]>> = pair
  BY <1>1 DEF Joins
<1>14. Solves(from)
  <2>1. ASSUME NEW i \in 1 .. N + 1
        PROVE  from[i] = IF i > N THEN <<>>
                         ELSE IF i < N /\ <<s[i], s[i + 1]>> = pair
                              THEN <<token>> \o from[i + 2] ELSE <<s[i]>> \o from[i + 1]
    <3>1. CASE i = N + 1
      BY <1>1, <1>9, <3>1
    <3>2. CASE i # N + 1
      <4>1. i \in 1 .. N /\ ~(i > N)
        BY <1>1, <3>2
      <4> QED
        BY <1>10, <1>13, <4>1
    <3> QED
      BY <3>1, <3>2
  <2> QED
    BY <1>8, <2>1
<1>15. Solves(chosen)
  <2> HIDE DEF Solves
  <2> QED
    BY <1>14
<1> HIDE DEF chosen
<1>16. ASSUME NEW i \in 1 .. N + 1
       PROVE  chosen[i] = IF i > N THEN <<>>
                          ELSE IF i < N /\ <<s[i], s[i + 1]>> = pair
                               THEN <<token>> \o chosen[i + 2] ELSE <<s[i]>> \o chosen[i + 1]
  BY <1>15
<1> HIDE DEF Solves
<1> DEFINE Same(i) == chosen[i] = from[i]
           T == {d \in 0 .. N : Same(N + 1 - d) /\ (d > 0 => Same(N + 2 - d))}
<1>17. 0 \in T
  <2>1. N + 1 - 0 = N + 1 /\ N + 1 \in 1 .. N + 1 /\ N + 1 > N /\ 0 \in 0 .. N
    BY <1>1
  <2>2. Same(N + 1)
    BY <1>9, <1>16, <2>1
  <2> HIDE DEF Same
  <2> QED
    BY <2>1, <2>2
<1>18. ASSUME NEW d \in 0 .. N - 1, d \in T PROVE d + 1 \in T
  <2> DEFINE i == N - d
  <2>1. /\ i \in 1 .. N /\ N + 1 - (d + 1) = i /\ N + 2 - (d + 1) = i + 1 /\ N + 1 - d = i + 1
        /\ N + 2 - d = i + 2 /\ d + 1 \in 0 .. N /\ i \in 1 .. N + 1 /\ ~(i > N)
    BY <1>1
  <2>2. Same(i + 1)
    BY <1>18, <2>1
  <2>3. Joins(s, pair, i) => Same(i + 2)
    <3> HAVE Joins(s, pair, i)
    <3>1. d > 0
      BY <1>1, <1>13, <2>1
    <3> QED
      BY <1>18, <2>1, <3>1
  <2> HIDE DEF i, T
  <2>4. chosen[i] = from[i]
    BY <1>10, <1>13, <1>16, <2>1, <2>2, <2>3
  <2>5. Same(N + 1 - (d + 1)) /\ Same(N + 2 - (d + 1))
    BY <2>1, <2>2, <2>4
  <2> HIDE DEF Same
  <2> QED
    BY <2>1, <2>5 DEF T
<1>19. N \in T
  <2>1. \A d \in 0 .. N : d \in T
    <3> HIDE DEF T, N
    <3> QED
      BY <1>1, <1>17, <1>18, UpTo
  <2>2. N \in 0 .. N
    BY <1>1
  <2> HIDE DEF T
  <2> QED
    BY <2>1, <2>2
<1>20. chosen[1] = from[1]
  <2>1. N + 1 - N = 1
    BY <1>1
  <2> QED
    BY <1>19, <2>1
<1> QED
  BY <1>11, <1>12, <1>20

\* What follows the first a tokens of s follows the first b of t.
SameRest(s, a, t, b, m) ==
    /\ a \in Nat /\ b \in Nat /\ m \in Nat /\ Len(s) = a + m /\ Len(t) = b + m
    /\ \A i \in 1 .. m : s[a + i] = t[b + i]

\* It decides what the rest comes to.
LEMMA ScansRest ==
    ASSUME NEW s \in Seq(Nat), NEW t \in Seq(Nat), NEW pair, NEW token \in Nat, NEW f, NEW g,
           Scans(f, s, pair, token), Scans(g, t, pair, token),
           NEW a, NEW b, NEW m, SameRest(s, a, t, b, m)
    PROVE  f[a + 1] = g[b + 1]
<1>0. /\ a \in Nat /\ b \in Nat /\ m \in Nat /\ Len(s) = a + m /\ Len(t) = b + m
      /\ \A i \in 1 .. m : s[a + i] = t[b + i]
  BY DEF SameRest
<1> DEFINE Same(i) == f[a + i] = g[b + i]
           T == {d \in 0 .. m : Same(m + 1 - d) /\ (d > 0 => Same(m + 2 - d))}
<1>1. /\ f[a + m + 1] = <<>> /\ g[b + m + 1] = <<>>
      /\ \A i \in 1 .. a + m : f[i] = IF Joins(s, pair, i) THEN <<token>> \o f[i + 2]
                                      ELSE <<s[i]>> \o f[i + 1]
      /\ \A i \in 1 .. b + m : g[i] = IF Joins(t, pair, i) THEN <<token>> \o g[i + 2]
                                      ELSE <<t[i]>> \o g[i + 1]
  BY <1>0 DEF Scans
<1>2. 0 \in T
  <2>1. m + 1 - 0 = m + 1 /\ a + (m + 1) = a + m + 1 /\ b + (m + 1) = b + m + 1
    BY <1>0
  <2>2. Same(m + 1)
    BY <1>1, <2>1
  <2>3. 0 \in 0 .. m
    BY <1>0
  <2> HIDE DEF Same
  <2> QED
    BY <2>1, <2>2, <2>3
<1>3. ASSUME NEW i \in 1 .. m PROVE Joins(s, pair, a + i) <=> i < m /\ <<s[a + i], s[a + i + 1]>> = pair
  BY <1>0 DEF Joins
<1>4. ASSUME NEW i \in 1 .. m PROVE Joins(t, pair, b + i) <=> i < m /\ <<t[b + i], t[b + i + 1]>> = pair
  BY <1>0 DEF Joins
<1>5. ASSUME NEW i \in 1 .. m PROVE Joins(s, pair, a + i) <=> Joins(t, pair, b + i)
  <2>1. i < m => s[a + i + 1] = t[b + i + 1]
    <3> HAVE i < m
    <3>1. i + 1 \in 1 .. m /\ a + (i + 1) = a + i + 1 /\ b + (i + 1) = b + i + 1
      BY <1>0
    <3>2. s[a + (i + 1)] = t[b + (i + 1)]
      BY <1>0, <3>1
    <3> QED
      BY <3>1, <3>2
  <2>2. s[a + i] = t[b + i]
    BY <1>0
  <2> QED
    BY <1>3, <1>4, <2>1, <2>2
<1>6. ASSUME NEW d \in 0 .. m - 1, d \in T PROVE d + 1 \in T
  <2> DEFINE i == m - d
  <2>1. /\ i \in 1 .. m /\ m + 1 - (d + 1) = i /\ m + 2 - (d + 1) = i + 1 /\ m + 1 - d = i + 1
        /\ m + 2 - d = i + 2 /\ d + 1 \in 0 .. m /\ (i < m => d > 0)
    BY <1>0
  <2> HIDE DEF i
  <2>2. Same(i + 1)
    BY <1>6, <2>1
  <2>3. Joins(s, pair, a + i) => Same(i + 2)
    <3> HAVE Joins(s, pair, a + i)
    <3>1. d > 0
      BY <1>3, <2>1
    <3> QED
      BY <1>6, <2>1, <3>1
  <2> HIDE DEF T
  <2>4. /\ a + i \in 1 .. a + m /\ a + (i + 1) = (a + i) + 1 /\ a + (i + 2) = (a + i) + 2
        /\ b + i \in 1 .. b + m /\ b + (i + 1) = (b + i) + 1 /\ b + (i + 2) = (b + i) + 2
    BY <1>0, <2>1
  <2>5. s[a + i] = t[b + i]
    BY <1>0, <2>1
  <2>6. f[(a + i) + 1] = g[(b + i) + 1] /\ (Joins(s, pair, a + i) => f[(a + i) + 2] = g[(b + i) + 2])
    BY <2>2, <2>3, <2>4
  <2>f. f[a + i] = IF Joins(s, pair, a + i) THEN <<token>> \o f[(a + i) + 2]
                   ELSE <<s[a + i]>> \o f[(a + i) + 1]
    BY <1>1, <2>4
  <2>g. g[b + i] = IF Joins(t, pair, b + i) THEN <<token>> \o g[(b + i) + 2]
                   ELSE <<t[b + i]>> \o g[(b + i) + 1]
    BY <1>1, <2>4
  <2>j. Joins(s, pair, a + i) <=> Joins(t, pair, b + i)
    BY <1>5, <2>1
  <2>7. f[a + i] = g[b + i]
    BY <2>5, <2>6, <2>f, <2>g, <2>j
  <2>8. Same(m + 1 - (d + 1)) /\ Same(m + 2 - (d + 1))
    BY <2>1, <2>2, <2>7
  <2> HIDE DEF Same
  <2> QED
    BY <2>1, <2>8 DEF T
<1>7. m \in T
  <2>1. \A d \in 0 .. m : d \in T
    <3> HIDE DEF T
    <3> QED
      BY <1>0, <1>2, <1>6, UpTo
  <2> HIDE DEF T
  <2> QED
    BY <1>0, <2>1
<1> QED
  <2>1. m + 1 - m = 1
    BY <1>0
  <2> QED
    BY <1>7, <2>1

\* Induction downwards.
LEMMA DownFrom ==
    ASSUME NEW N \in Nat, NEW T, N + 1 \in T,
           \A k \in 1 .. N : (\A l \in k + 1 .. N + 1 : l \in T) => k \in T
    PROVE  \A k \in 1 .. N + 1 : k \in T
<1> SUFFICES ASSUME NEW n \in 1 .. N + 1, n \notin T PROVE FALSE
  OBVIOUS
<1> DEFINE S == (1 .. N + 1) \ T
<1>1. S \in SUBSET (1 .. N + 1) /\ S # {} /\ N + 1 \in Nat
  OBVIOUS
<1>2. PICK k \in S : \A j \in S : j <= k
  <2> HIDE DEF S
  <2> QED
    BY <1>1, Greatest
<1>3. k \in 1 .. N /\ k \notin T
  OBVIOUS
<1>4. \A l \in k + 1 .. N + 1 : l \in T
  BY <1>2, <1>3
<1> QED
  BY <1>3, <1>4

\* t is s with its p-th pair merged into token.
Merged(s, p, token, t) ==
    /\ Len(t) + 1 = Len(s) /\ p \in 1 .. Len(t)
    /\ \A k \in 1 .. Len(t) : t[k] = IF k < p THEN s[k] ELSE IF k = p THEN token ELSE s[k + 1]

\* The leftmost pair may be merged first.
LEMMA ScansMerged ==
    ASSUME NEW s \in Seq(Nat), NEW t \in Seq(Nat), NEW pair, NEW token \in Nat, NEW f, NEW g,
           Scans(f, s, pair, token), Scans(g, t, pair, token),
           NEW p \in Nat, Merged(s, p, token, t), Joins(s, pair, p),
           \A k \in 1 .. p - 1 : ~Joins(s, pair, k),
           pair[1] # token, pair[2] # token
    PROVE  f[1] = g[1]
<1> DEFINE T == {k \in 1 .. p : f[k] = g[k]}
           n == Len(t)
<1>0. n \in Nat /\ Len(s) = n + 1 /\ p \in 1 .. n /\ p \in 1 .. n + 1
  BY DEF Merged
<1>1. /\ n \in Nat /\ Len(s) = n + 1 /\ p \in 1 .. n /\ p \in 1 .. n + 1
      /\ \A i \in 1 .. n + 1 : f[i] = IF Joins(s, pair, i) THEN <<token>> \o f[i + 2]
                                      ELSE <<s[i]>> \o f[i + 1]
      /\ \A i \in 1 .. n : g[i] = IF Joins(t, pair, i) THEN <<token>> \o g[i + 2]
                                  ELSE <<t[i]>> \o g[i + 1]
      /\ \A k \in 1 .. n : t[k] = IF k < p THEN s[k] ELSE IF k = p THEN token ELSE s[k + 1]
  BY <1>0 DEF Scans, Merged
<1>2. \A i \in 1 .. n : Joins(t, pair, i) =>
        i < n /\ t[i] = pair[1] /\ t[i + 1] = pair[2]
  <2> SUFFICES ASSUME NEW i \in 1 .. n, Joins(t, pair, i)
               PROVE  i < n /\ t[i] = pair[1] /\ t[i + 1] = pair[2]
    BY Zenon
  <2>1. i \in 1 .. n - 1 /\ <<t[i], t[i + 1]>> = pair
    BY DEF Joins
  <2>2. pair[1] = t[i] /\ pair[2] = t[i + 1]
    BY Zenon, <2>1
  <2> QED
    BY <1>0, <2>1, <2>2
<1> HIDE DEF n
<1>3. ~Joins(t, pair, p)
  <2>1. t[p] = token
    BY <1>1
  <2> QED
    BY <1>1, <1>2, <2>1
<1>4. f[p + 2] = g[p + 1]
  <2>1. /\ p + 1 \in Nat /\ n - p \in Nat /\ Len(s) = (p + 1) + (n - p) /\ Len(t) = p + (n - p)
        /\ (p + 1) + 1 = p + 2
    BY <1>1 DEF n
  <2>2. \A i \in 1 .. n - p : s[(p + 1) + i] = t[p + i]
    <3> SUFFICES ASSUME NEW i \in 1 .. n - p PROVE s[(p + 1) + i] = t[p + i]
      OBVIOUS
    <3>1. p + i \in 1 .. n /\ ~(p + i < p) /\ p + i # p /\ (p + i) + 1 = (p + 1) + i
      BY <1>1
    <3> QED
      BY <1>1, <3>1
  <2>3. f[(p + 1) + 1] = g[p + 1]
    <3>1. SameRest(s, p + 1, t, p, n - p)
      BY <2>1, <2>2 DEF SameRest
    <3> QED
      BY <3>1, ScansRest
  <2> QED
    BY <2>1, <2>3
<1>5. p \in T
  <2>1. f[p] = <<token>> \o f[p + 2]
    BY <1>1
  <2>4. t[p] = token
    BY <1>1
  <2>2. g[p] = <<token>> \o g[p + 1]
    BY <1>1, <1>3, <2>4
  <2>3. p \in 1 .. p
    BY <1>1
  <2> QED
    BY <1>4, <2>1, <2>2, <2>3
<1>6. ASSUME NEW k \in 1 .. p - 1, k + 1 \in T PROVE k \in T
  <2>1. k \in 1 .. n /\ k \in 1 .. n + 1 /\ k \in 1 .. p /\ k < p /\ k + 1 \in 1 .. n
    BY <1>1
  <2>2. f[k] = <<s[k]>> \o f[k + 1]
    BY <1>1, <2>1
  <2>3. ~Joins(t, pair, k)
    <3>1. CASE k + 1 = p
      <4>1. t[k + 1] = token
        BY <1>1, <2>1, <3>1
      <4> QED
        BY <1>2, <2>1, <4>1
    <3>2. CASE k + 1 # p
      <4>1. k + 1 < p /\ t[k] = s[k] /\ t[k + 1] = s[k + 1] /\ k \in 1 .. (n + 1) - 1
        BY <1>1, <2>1, <3>2
      <4>2. ~(<<s[k], s[k + 1]>> = pair)
        BY <1>1, <4>1 DEF Joins
      <4> QED
        BY <4>1, <4>2 DEF Joins
    <3> QED
      BY <3>1, <3>2
  <2>4. g[k] = <<s[k]>> \o g[k + 1]
    BY <1>1, <2>1, <2>3
  <2> QED
    BY <1>6, <2>1, <2>2, <2>4
<1>7. 1 \in T
  <2> HIDE DEF T
  <2>1. p - 1 \in Nat /\ (p - 1) + 1 = p /\ 1 \in 1 .. (p - 1) + 1
    BY <1>1
  <2>2. ASSUME NEW k \in 1 .. p - 1, \A l \in k + 1 .. (p - 1) + 1 : l \in T PROVE k \in T
    <3>1. k + 1 \in k + 1 .. (p - 1) + 1
      BY <2>1
    <3> QED
      BY <1>6, <2>2, <3>1
  <2> QED
    BY <1>5, <2>1, <2>2, DownFrom
<1> QED
  BY <1>7

\* What merging returns are tokens.
LEMMA MergeTyped ==
    ASSUME NEW s \in Seq(Nat), NEW pair, NEW token \in Nat
    PROVE  Tokenizer!MergeTokens(s, pair, token) \in Seq(Nat)
<1>1. PICK f : /\ Scans(f, s, pair, token)
               /\ Tokenizer!MergeTokens(s, pair, token) = f[1]
  BY MergeIs
<1>2. 1 \in 1 .. Len(s) + 1
  OBVIOUS
<1> QED
  BY <1>1, <1>2 DEF Scans

\* Without the pair there is nothing to merge.
LEMMA MergeNothing ==
    ASSUME NEW s \in Seq(Nat), NEW pair, NEW token \in Nat, pair \notin Tokenizer!Pairs(s)
    PROVE  Tokenizer!MergeTokens(s, pair, token) = s
<1>1. PICK f : /\ Scans(f, s, pair, token)
               /\ Tokenizer!MergeTokens(s, pair, token) = f[1]
  BY MergeIs
<1> DEFINE N == Len(s)
           Rest(k) == [i \in 1 .. (N + 1) - k |-> s[(k + i) - 1]]
           T == {k \in 1 .. N + 1 : f[k] = Rest(k)}
<1>2. N \in Nat /\ (\A i \in 1 .. N : s[i] \in Nat) /\ s = [i \in 1 .. N |-> s[i]]
  OBVIOUS
<1>3. \A i \in 1 .. N : ~Joins(s, pair, i)
  BY DEF Joins, Tokenizer!Pairs
<1>4. f[N + 1] = <<>> /\ \A i \in 1 .. N : f[i] = <<s[i]>> \o f[i + 1]
  BY <1>1, <1>3 DEF Scans
<1> HIDE DEF N
<1>5. N + 1 \in T
  <2>1. 1 .. (N + 1) - (N + 1) = {} /\ N + 1 \in 1 .. N + 1
    BY <1>2
  <2>2. Rest(N + 1) = <<>>
    BY <2>1
  <2> QED
    BY <1>4, <2>1, <2>2
<1>6. ASSUME NEW k \in 1 .. N, k + 1 \in T PROVE k \in T
  <2>a. f[k + 1] = Rest(k + 1)
    BY <1>6
  <2>1. f[k] = <<s[k]>> \o Rest(k + 1) /\ s[k] \in Nat /\ k \in 1 .. N + 1
    <3> HIDE DEF Rest, T
    <3>1. f[k] = <<s[k]>> \o f[k + 1]
      BY <1>4
    <3>2. s[k] \in Nat /\ k \in 1 .. N + 1
      BY <1>2
    <3> QED
      BY <2>a, <3>1, <3>2
  <2> DEFINE r == Rest(k + 1)
             m == (N + 1) - (k + 1)
  <2>2. m \in Nat /\ (N + 1) - k = m + 1
    BY <1>2
  <2>3. r \in Seq(Nat) /\ Len(r) = m /\ \A i \in 1 .. m : r[i] = s[k + i]
    <3>1. \A i \in 1 .. m : ((k + 1) + i) - 1 = k + i /\ k + i \in 1 .. N
      BY <1>2
    <3>2. r = [i \in 1 .. m |-> s[k + i]]
      BY <3>1
    <3>3. \A i \in 1 .. m : s[k + i] \in Nat
      BY <1>2, <3>1
    <3> HIDE DEF r, m
    <3> QED
      BY <2>2, <3>2, <3>3
  <2> HIDE DEF m, r
  <2> DEFINE c == <<s[k]>> \o r
  <2>4. Len(c) = m + 1 /\ c[1] = s[k] /\ c \in Seq(Nat)
        /\ \A i \in 2 .. m + 1 : c[i] = r[i - 1]
    <3> DEFINE x == s[k]
    <3> HIDE DEF x
    <3>1. x \in Nat
      BY <2>1 DEF x
    <3> QED
      BY <2>2, <2>3, <3>1 DEF x
  <2>5. c = [i \in 1 .. m + 1 |-> c[i]]
    BY <2>2, <2>4
  <2>6. \A i \in 1 .. m + 1 : c[i] = s[(k + i) - 1]
    <3> SUFFICES ASSUME NEW i \in 1 .. m + 1 PROVE c[i] = s[(k + i) - 1]
      OBVIOUS
    <3>1. CASE i = 1
      <4>1. (k + i) - 1 = k
        BY <3>1
      <4> QED
        BY <2>4, <3>1, <4>1
    <3>2. CASE i # 1
      <4>1. i \in 2 .. m + 1 /\ i - 1 \in 1 .. m /\ k + (i - 1) = (k + i) - 1
        BY <2>2, <3>2
      <4> HIDE DEF c
      <4> QED
        BY <2>3, <2>4, <4>1
    <3> QED
      BY <3>1, <3>2
  <2>7. f[k] = c
    BY <2>1 DEF r
  <2> HIDE DEF c
  <2>8. c = Rest(k)
    BY <2>2, <2>5, <2>6
  <2> QED
    BY <2>1, <2>7, <2>8
<1>7. 1 \in T
  <2> HIDE DEF T
  <2>1. ASSUME NEW k \in 1 .. N, \A l \in k + 1 .. N + 1 : l \in T PROVE k \in T
    <3>1. k + 1 \in k + 1 .. N + 1
      BY <1>2
    <3> QED
      BY <1>6, <2>1, <3>1
  <2>2. 1 \in 1 .. N + 1
    BY <1>2
  <2> QED
    BY <1>2, <1>5, <2>1, <2>2, DownFrom
<1>8. Rest(1) = s
  <2>1. (N + 1) - 1 = N /\ \A i \in 1 .. N : (1 + i) - 1 = i
    BY <1>2
  <2> QED
    BY <1>2, <2>1
<1> QED
  BY <1>1, <1>7, <1>8

\* The pairs a merge may leave, and what a scan may return.
Leaves(s, pair, token) ==
    {q \in Nat \X Nat : q[1] = token \/ q[2] = token \/ (q \in Tokenizer!Pairs(s) /\ q # pair)}

\* What a merge may leave: no pair that is neither an old one nor of the new token.
Left(u, s, pair, token) ==
    /\ u \in Seq(Nat) /\ Linked(u, Leaves(s, pair, token))
    /\ \A i \in 1 .. Len(u) : u[i] = token \/ \E j \in 1 .. Len(s) : u[i] = s[j]

\* x may come before u.
MayPrecede(x, u, s, pair, token) ==
    /\ x \in Nat /\ (x = token \/ \E j \in 1 .. Len(s) : x = s[j])
    /\ Len(u) > 0 => <<x, u[1]>> \in Leaves(s, pair, token)

\* The first of c is x.
StartsWith(c, x) == Len(c) > 0 /\ c[1] = x

\* One token more.
LEMMA LeftOneMore ==
    ASSUME NEW s, NEW pair, NEW token, NEW u, Left(u, s, pair, token),
           NEW x, MayPrecede(x, u, s, pair, token), NEW c, c = <<x>> \o u
    PROVE  Left(c, s, pair, token) /\ StartsWith(c, x)
<1> DEFINE R == Leaves(s, pair, token)
<1>0. /\ x \in Nat /\ (x = token \/ \E j \in 1 .. Len(s) : x = s[j])
      /\ Len(u) > 0 => <<x, u[1]>> \in R
  BY DEF MayPrecede
<1>1. u \in Seq(Nat) /\ Linked(u, R)
      /\ \A i \in 1 .. Len(u) : u[i] = token \/ \E j \in 1 .. Len(s) : u[i] = s[j]
  BY DEF Left
<1>2. c \in Seq(Nat) /\ Len(c) = Len(u) + 1 /\ c[1] = x /\ Len(u) \in Nat
      /\ \A i \in 1 .. Len(u) : c[i + 1] = u[i]
  BY <1>0, <1>1
<1> HIDE DEF R
<1>3. Linked(c, R)
  <2> SUFFICES ASSUME NEW i \in 1 .. Len(c) - 1 PROVE <<c[i], c[i + 1]>> \in R
    BY DEF Linked
  <2>1. i \in 1 .. Len(u) /\ c[i + 1] = u[i]
    BY <1>2
  <2>2. CASE i = 1
    <3>1. c[i] = x /\ c[i + 1] = u[1] /\ Len(u) > 0
      BY <1>2, <2>1, <2>2
    <3>2. <<x, u[1]>> \in R
      BY <1>0, <3>1
    <3> QED
      BY <3>1, <3>2
  <2>3. CASE i # 1
    <3>1. i - 1 \in 1 .. Len(u) - 1 /\ i - 1 \in 1 .. Len(u) /\ (i - 1) + 1 = i
      BY <1>2, <2>1, <2>3
    <3>2. c[i] = u[i - 1] /\ <<u[i - 1], u[(i - 1) + 1]>> \in R
      BY <1>1, <1>2, <3>1 DEF Linked
    <3> QED
      BY <2>1, <3>1, <3>2
  <2> QED
    BY <2>2, <2>3
<1>4. \A i \in 1 .. Len(c) : c[i] = token \/ \E j \in 1 .. Len(s) : c[i] = s[j]
  <2> SUFFICES ASSUME NEW i \in 1 .. Len(c)
               PROVE  c[i] = token \/ \E j \in 1 .. Len(s) : c[i] = s[j]
    OBVIOUS
  <2>1. CASE i = 1
    BY <1>0, <1>2, <2>1
  <2>2. CASE i # 1
    <3>1. i - 1 \in 1 .. Len(u) /\ (i - 1) + 1 = i
      BY <1>2, <2>2
    <3>2. c[i] = u[i - 1]
      BY <1>2, <3>1
    <3> QED
      BY <1>1, <3>1, <3>2
  <2> QED
    BY <2>1, <2>2
<1>5. Len(c) > 0
  BY <1>2
<1> QED
  BY <1>2, <1>3, <1>4, <1>5 DEF Left, StartsWith, R

\* A merge leaves old tokens and the new one; a pair of old ones was a pair before, and is
\* not the one that was merged.
LEMMA MergeLeaves ==
    ASSUME NEW s \in Seq(Nat), NEW pair, NEW token \in Nat
    PROVE  Left(Tokenizer!MergeTokens(s, pair, token), s, pair, token)
<1>1. PICK f : /\ Scans(f, s, pair, token)
               /\ Tokenizer!MergeTokens(s, pair, token) = f[1]
  BY MergeIs
<1> DEFINE N == Len(s)
           Begins(k) == Len(f[k]) > 0 => k \in 1 .. N /\ (f[k][1] = token \/ f[k][1] = s[k])
           T == {k \in 1 .. N + 1 : Left(f[k], s, pair, token) /\ Begins(k)}
<1>2. /\ N \in Nat /\ f[N + 1] = <<>>
      /\ \A i \in 1 .. N : f[i] = IF Joins(s, pair, i) THEN <<token>> \o f[i + 2]
                                  ELSE <<s[i]>> \o f[i + 1]
      /\ \A i \in 1 .. N : s[i] \in Nat
  BY SMTT(30), <1>1 DEF Scans
<1>3. \A i \in 1 .. N : Joins(s, pair, i) <=> i + 1 \in 1 .. N /\ <<s[i], s[i + 1]>> = pair
  BY <1>2 DEF Joins
<1>4. \A i \in 1 .. N : i + 1 \in 1 .. N => <<s[i], s[i + 1]>> \in Tokenizer!Pairs(s)
  BY <1>2 DEF Tokenizer!Pairs
<1> HIDE DEF N
<1>5. N + 1 \in T
  <2>1. Left(<<>>, s, pair, token) /\ Len(<<>>) = 0
    BY DEF Left, Linked
  <2>2. N + 1 \in 1 .. N + 1
    BY <1>2
  <2> QED
    BY <1>2, <2>1, <2>2
<1>6. ASSUME NEW k \in 1 .. N, \A l \in k + 1 .. N + 1 : l \in T PROVE k \in T
  <2>0. s[k] \in Nat /\ k \in 1 .. N + 1 /\ k \in 1 .. Len(s)
    BY <1>2 DEF N
  <2>1. CASE Joins(s, pair, k)
    <3>1. f[k] = <<token>> \o f[k + 2]
      BY <1>2, <2>1
    <3>2. k + 2 \in k + 1 .. N + 1
      BY <1>2, <1>3, <2>1
    <3>3. Left(f[k + 2], s, pair, token)
      BY <1>6, <3>2
    <3>4. Len(f[k + 2]) > 0 => <<token, f[k + 2][1]>> \in Leaves(s, pair, token)
      <4> HAVE Len(f[k + 2]) > 0
      <4>1. f[k + 2][1] \in Nat
        BY <3>3 DEF Left
      <4> QED
        BY <4>1 DEF Leaves
    <3> DEFINE u == f[k + 2]
    <3>a. Left(u, s, pair, token) /\ f[k] = <<token>> \o u
          /\ (Len(u) > 0 => <<token, u[1]>> \in Leaves(s, pair, token))
      BY <3>1, <3>3, <3>4
    <3> HIDE DEF u
    <3>b. MayPrecede(token, u, s, pair, token)
      BY <3>a DEF MayPrecede
    <3>c. Left(u, s, pair, token)
      BY <3>a
    <3>d. f[k] = <<token>> \o u
      BY <3>a
    <3>5. Left(f[k], s, pair, token) /\ StartsWith(f[k], token)
      BY Zenon, <3>b, <3>c, <3>d, LeftOneMore
    <3> QED
      BY <2>0, <3>5 DEF StartsWith
  <2>2. CASE ~Joins(s, pair, k)
    <3>1. f[k] = <<s[k]>> \o f[k + 1]
      BY <1>2, <2>2
    <3>2. k + 1 \in k + 1 .. N + 1
      BY <1>2
    <3>3. Left(f[k + 1], s, pair, token) /\ Begins(k + 1)
      BY <1>6, <3>2
    <3>4. Len(f[k + 1]) > 0 => <<s[k], f[k + 1][1]>> \in Leaves(s, pair, token)
      <4> HAVE Len(f[k + 1]) > 0
      <4>1. f[k + 1][1] \in Nat
        BY <3>3 DEF Left
      <4>2. CASE f[k + 1][1] = token
        BY <2>0, <4>1, <4>2 DEF Leaves
      <4>3. CASE f[k + 1][1] = s[k + 1] /\ k + 1 \in 1 .. N
        BY <1>3, <1>4, <2>0, <2>2, <4>1, <4>3 DEF Leaves
      <4> QED
        BY <3>3, <4>2, <4>3
    <3> DEFINE x == s[k]
               u == f[k + 1]
    <3>6. x \in Nat /\ \E j \in 1 .. Len(s) : x = s[j]
      BY <2>0
    <3>7. Left(u, s, pair, token) /\ f[k] = <<x>> \o u
          /\ (Len(u) > 0 => <<x, u[1]>> \in Leaves(s, pair, token))
      BY <3>1, <3>3, <3>4
    <3> HIDE DEF x, u
    <3>8. MayPrecede(x, u, s, pair, token)
      BY <3>6, <3>7 DEF MayPrecede
    <3>5. Left(f[k], s, pair, token) /\ StartsWith(f[k], x)
      BY Zenon, <3>7, <3>8, LeftOneMore
    <3> QED
      BY <2>0, <3>5 DEF StartsWith, x
  <2> QED
    BY <2>1, <2>2
<1>7. 1 \in T
  <2> HIDE DEF T
  <2>1. 1 \in 1 .. N + 1
    BY <1>2
  <2> QED
    BY <1>2, <1>5, <1>6, <2>1, DownFrom
<1> QED
  BY <1>1, <1>7

----------------------------------------------------------------------------
(* The merges, one after the other. *)

\* Applied, of any merges.
AppliedBy(M, seq) ==
    LET after[n \in 0 .. Len(M)] ==
          IF n = 0 THEN seq ELSE Tokenizer!MergeTokens(after[n - 1], M[n], Base + n - 1)
    IN  after[Len(M)]

\* A[n] is what the first n merges make of s.
Applies(A, M, s) ==
    /\ A \in [0 .. Len(M) -> Seq(Nat)] /\ A[0] = s
    /\ \A n \in 1 .. Len(M) : A[n] = Tokenizer!MergeTokens(A[n - 1], M[n], Base + n - 1)

\* AppliedBy by its equations.
LEMMA AppliedIs ==
    ASSUME Base \in Nat, NEW M, Len(M) \in Nat, NEW s \in Seq(Nat)
    PROVE  \E A : Applies(A, M, s) /\ AppliedBy(M, s) = A[Len(M)]
<1> DEFINE N == Len(M)
           D == Seq(Nat)
           next == [nx \in (1 .. N) \X D |-> Tokenizer!MergeTokens(nx[2], M[nx[1]], Base + nx[1] - 1)]
           Solves(f) == f = [n \in 0 .. N |->
                               IF n = 0 THEN s
                               ELSE Tokenizer!MergeTokens(f[n - 1], M[n], Base + n - 1)]
           A == CHOOSE f : Solves(f)
<1>1. \A x \in D, n \in 1 .. N : Tokenizer!MergeTokens(x, M[n], Base + n - 1) \in D
  <2> SUFFICES ASSUME NEW x \in D, NEW n \in 1 .. N
               PROVE  Tokenizer!MergeTokens(x, M[n], Base + n - 1) \in D
    OBVIOUS
  <2>1. Base + n - 1 \in Nat
    OBVIOUS
  <2> QED
    BY <2>1, MergeTyped
<1>2. AppliedBy(M, s) = A[N]
  BY DEF AppliedBy
<1> HIDE DEF D, N
<1>0. N \in Nat /\ s \in D
  BY DEF N, D
<1>3. next \in [(1 .. N) \X D -> D]
      /\ \A n \in 1 .. N, x \in D : next[<<n, x>>] = Tokenizer!MergeTokens(x, M[n], Base + n - 1)
  BY <1>1
<1> HIDE DEF next
<1>4. PICK F : Recurs(F, N, D, s, next)
  BY <1>0, <1>3, Recursion
<1>5. Solves(F)
  <2>1. ASSUME NEW n \in 0 .. N
        PROVE  F[n] = IF n = 0 THEN s
                      ELSE Tokenizer!MergeTokens(F[n - 1], M[n], Base + n - 1)
    <3>1. CASE n = 0
      BY <1>4, <3>1 DEF Recurs
    <3>2. CASE n # 0
      <4>1. n \in 1 .. N /\ n - 1 \in 0 .. N
        BY <1>0, <3>2
      <4>2. F[n] = next[<<n, F[n - 1]>>] /\ F[n - 1] \in D
        BY <1>4, <4>1 DEF Recurs
      <4> QED
        BY <1>3, <3>2, <4>1, <4>2
    <3> QED
      BY <3>1, <3>2
  <2>2. F = [n \in 0 .. N |-> F[n]]
    BY <1>4 DEF Recurs
  <2> QED
    BY <2>1, <2>2
<1>6. Solves(A)
  <2> HIDE DEF Solves
  <2> QED
    BY <1>5
<1> HIDE DEF A
<1>7. A = [n \in 0 .. N |-> A[n]] /\ A[0] = s
      /\ \A n \in 1 .. N : A[n] = Tokenizer!MergeTokens(A[n - 1], M[n], Base + n - 1)
  <2>1. \A n \in 0 .. N : A[n] = IF n = 0 THEN s
                                 ELSE Tokenizer!MergeTokens(A[n - 1], M[n], Base + n - 1)
    BY <1>6
  <2>2. 0 \in 0 .. N /\ \A n \in 1 .. N : n \in 0 .. N /\ n # 0
    BY <1>0
  <2>3. A = [n \in 0 .. N |-> A[n]]
    BY <1>6
  <2> HIDE DEF Solves
  <2> QED
    BY <2>1, <2>2, <2>3
<1> HIDE DEF Solves
<1> DEFINE T == {n \in 0 .. N : A[n] \in D}
<1>8. 0 \in T
  BY <1>0, <1>7
<1>9. ASSUME NEW n \in 0 .. N - 1, n \in T PROVE n + 1 \in T
  <2>1. n + 1 \in 1 .. N /\ n + 1 \in 0 .. N /\ (n + 1) - 1 = n
    BY <1>0
  <2>2. A[n + 1] = Tokenizer!MergeTokens(A[n], M[n + 1], Base + (n + 1) - 1)
    BY <1>7, <2>1
  <2> QED
    BY <1>1, <1>9, <2>1, <2>2
<1>10. \A n \in 0 .. N : A[n] \in D
  <2>1. \A n \in 0 .. N : n \in T
    <3> HIDE DEF T
    <3> QED
      BY <1>0, <1>8, <1>9, UpTo
  <2> QED
    BY <2>1
<1>11. A \in [0 .. N -> D]
  BY <1>7, <1>10
<1>12. Applies(A, M, s)
  BY <1>7, <1>11 DEF Applies, N, D
<1> QED
  BY <1>2, <1>12 DEF N

\* Merges learned one after the other: of tokens there were, and none twice.
MergesLearned(M) ==
    /\ M \in Seq(Nat \X Nat)
    /\ \A n \in 1 .. Len(M) :
         /\ M[n][1] < Base + n - 1 /\ M[n][2] < Base + n - 1
         /\ \A k \in 1 .. n - 1 : M[k] # M[n]

\* The first n merges do nothing where none of their pairs is.
LEMMA AppliesNothing ==
    ASSUME Base \in Nat, NEW M, MergesLearned(M), NEW s \in Seq(Nat), NEW A, Applies(A, M, s),
           NEW n \in 0 .. Len(M), \A k \in 1 .. n : M[k] \notin Tokenizer!Pairs(s)
    PROVE  A[n] = s
<1> DEFINE T == {k \in 0 .. n : A[k] = s}
<1>1. Len(M) \in Nat /\ n \in Nat
  BY DEF MergesLearned
<1>2. 0 \in T
  BY <1>1 DEF Applies
<1>3. ASSUME NEW k \in 0 .. n - 1, k \in T PROVE k + 1 \in T
  <2>1. k + 1 \in 1 .. n /\ k + 1 \in 1 .. Len(M) /\ k + 1 \in 0 .. n /\ (k + 1) - 1 = k
        /\ Base + (k + 1) - 1 \in Nat
    BY <1>1
  <2>2. A[k + 1] = Tokenizer!MergeTokens(s, M[k + 1], Base + (k + 1) - 1)
    BY <1>3, <2>1 DEF Applies
  <2>3. M[k + 1] \notin Tokenizer!Pairs(s)
    BY <2>1
  <2>4. A[k + 1] = s
    BY <2>1, <2>2, <2>3, MergeNothing
  <2> QED
    BY <2>1, <2>4
<1>4. \A k \in 0 .. n : k \in T
  <2> HIDE DEF T
  <2> QED
    BY <1>1, <1>2, <1>3, UpTo
<1> QED
  BY <1>1, <1>4

\* The merges leave alone a sequence that none of their pairs is in.
LEMMA AppliedNone ==
    ASSUME Base \in Nat, NEW M, MergesLearned(M), NEW s \in Seq(Nat),
           \A k \in 1 .. Len(M) : M[k] \notin Tokenizer!Pairs(s)
    PROVE  AppliedBy(M, s) = s
<1>1. Len(M) \in Nat
  BY DEF MergesLearned
<1>2. PICK A : Applies(A, M, s) /\ AppliedBy(M, s) = A[Len(M)]
  BY <1>1, AppliedIs
<1>3. Len(M) \in 0 .. Len(M)
  BY <1>1
<1> QED
  BY <1>2, <1>3, AppliesNothing

\* The leftmost pair of the lowest rank there is, Base + n - 1 its token: it may be merged
\* before the merges begin.
LEMMA MergedPairs ==
    ASSUME NEW s \in Seq(Nat), NEW t \in Seq(Nat), NEW p, NEW token \in Nat, Merged(s, p, token, t),
           NEW q \in Tokenizer!Pairs(t), q[1] # token, q[2] # token
    PROVE  q \in Tokenizer!Pairs(s)
<1> DEFINE n == Len(t)
<1>1. /\ n \in Nat /\ Len(s) = n + 1 /\ p \in 1 .. n
      /\ \A k \in 1 .. n : t[k] = IF k < p THEN s[k] ELSE IF k = p THEN token ELSE s[k + 1]
  BY DEF Merged
<1>2. PICK i \in 1 .. n - 1 : q = <<t[i], t[i + 1]>>
  BY DEF Tokenizer!Pairs
<1> HIDE DEF n
<1>3. q[1] = t[i] /\ q[2] = t[i + 1] /\ i \in 1 .. n /\ i + 1 \in 1 .. n
  BY <1>1, <1>2
<1>4. i # p /\ i + 1 # p
  <2>1. t[p] = token
    BY <1>1
  <2> QED
    BY <1>3, <2>1
<1>5. CASE i < p
  <2>1. t[i] = s[i] /\ t[i + 1] = s[i + 1] /\ i \in 1 .. Len(s) - 1
    BY <1>1, <1>3, <1>4, <1>5
  <2> QED
    BY <1>2, <2>1 DEF Tokenizer!Pairs
<1>6. CASE ~(i < p)
  <2>1. t[i] = s[i + 1] /\ t[i + 1] = s[(i + 1) + 1] /\ i + 1 \in 1 .. Len(s) - 1
    BY <1>1, <1>3, <1>4, <1>6
  <2> QED
    BY <1>2, <2>1 DEF Tokenizer!Pairs
<1> QED
  BY <1>5, <1>6

\* n is the first merge whose pair is in s, and p its leftmost place.
FirstPair(s, M, n, p) ==
    /\ n \in 1 .. Len(M) /\ Joins(s, M[n], p) /\ \A k \in 1 .. p - 1 : ~Joins(s, M[n], k)
    /\ \A k \in 1 .. n - 1 : M[k] \notin Tokenizer!Pairs(s)

\* That one may be merged before the others: the merges then come to the same.
LEMMA AppliedMerged ==
    ASSUME Base \in Nat, NEW M, MergesLearned(M), NEW s \in Seq(Nat), NEW t \in Seq(Nat),
           NEW n, NEW p, FirstPair(s, M, n, p), Merged(s, p, Base + n - 1, t)
    PROVE  AppliedBy(M, s) = AppliedBy(M, t)
<1> DEFINE N == Len(M)
           token == Base + n - 1
<1>1. N \in Nat /\ n \in 1 .. N /\ token \in Nat /\ p \in Nat
      /\ \A k \in 1 .. n : M[k][1] < token /\ M[k][2] < token /\ M[k][1] \in Nat /\ M[k][2] \in Nat
  <2>1. N \in Nat /\ n \in 1 .. N /\ token \in Nat /\ p \in Nat
    BY DEF MergesLearned, FirstPair, Joins
  <2>2. ASSUME NEW k \in 1 .. n
        PROVE  M[k][1] < token /\ M[k][2] < token /\ M[k][1] \in Nat /\ M[k][2] \in Nat
    <3>1. k \in 1 .. N
      BY <2>1
    <3>2. M[k] \in Nat \X Nat /\ M[k][1] < Base + k - 1 /\ M[k][2] < Base + k - 1
      BY <3>1 DEF MergesLearned
    <3>3. M[k][1] \in Nat /\ M[k][2] \in Nat
      BY <3>2
    <3> QED
      BY SMTT(30), <2>1, <3>2, <3>3
  <2> QED
    BY <2>1, <2>2
<1>2. PICK A : Applies(A, M, s) /\ AppliedBy(M, s) = A[N]
  BY <1>1, AppliedIs
<1>3. PICK C : Applies(C, M, t) /\ AppliedBy(M, t) = C[N]
  BY <1>1, AppliedIs
<1>4. \A k \in 1 .. n - 1 : M[k] \notin Tokenizer!Pairs(t)
  <2> SUFFICES ASSUME NEW k \in 1 .. n - 1, M[k] \in Tokenizer!Pairs(t) PROVE FALSE
    OBVIOUS
  <2>1. k \in 1 .. n
    BY <1>1
  <2>2. M[k][1] # token /\ M[k][2] # token
    BY <1>1, <2>1
  <2>3. M[k] \in Tokenizer!Pairs(s)
    <3> HIDE DEF token
    <3>1. Merged(s, p, token, t)
      BY DEF token
    <3> QED
      BY <1>1, <2>2, <3>1, MergedPairs
  <2> QED
    BY <2>3 DEF FirstPair
<1>5. n - 1 \in 0 .. N
  BY <1>1
<1>6. A[n - 1] = s
  BY <1>2, <1>5, AppliesNothing DEF FirstPair
<1>7. C[n - 1] = t
  BY <1>3, <1>4, <1>5, AppliesNothing
<1>8. A[n] = Tokenizer!MergeTokens(s, M[n], token) /\ C[n] = Tokenizer!MergeTokens(t, M[n], token)
  BY <1>1, <1>2, <1>3, <1>6, <1>7 DEF Applies
<1>9. Tokenizer!MergeTokens(s, M[n], token) = Tokenizer!MergeTokens(t, M[n], token)
  <2> HIDE DEF token
  <2>1. PICK f : Scans(f, s, M[n], token) /\ Tokenizer!MergeTokens(s, M[n], token) = f[1]
    BY Zenon, <1>1, MergeIs
  <2>2. PICK g : Scans(g, t, M[n], token) /\ Tokenizer!MergeTokens(t, M[n], token) = g[1]
    BY Zenon, <1>1, MergeIs
  <2>a. n \in 1 .. n
    BY <1>1
  <2>b. M[n][1] < token /\ M[n][2] < token /\ M[n][1] \in Nat /\ M[n][2] \in Nat
    BY Zenon, <1>1, <2>a
  <2>3. M[n][1] # token /\ M[n][2] # token
    BY <1>1, <2>b
  <2>4. Joins(s, M[n], p) /\ \A k \in 1 .. p - 1 : ~Joins(s, M[n], k)
    BY DEF FirstPair
  <2>5. Merged(s, p, token, t)
    BY DEF token
  <2>6. f[1] = g[1]
    BY SMTT(30), <1>1, <2>1, <2>2, <2>3, <2>4, <2>5, ScansMerged
  <2> QED
    BY <2>1, <2>2, <2>6
<1> DEFINE T == {d \in 0 .. N - n : A[n + d] = C[n + d]}
<1>10. 0 \in T
  BY <1>1, <1>8, <1>9
<1>11. ASSUME NEW d \in 0 .. (N - n) - 1, d \in T PROVE d + 1 \in T
  <2>1. /\ n + (d + 1) \in 1 .. N /\ (n + (d + 1)) - 1 = n + d /\ d + 1 \in 0 .. N - n
    BY <1>1
  <2> DEFINE l == n + (d + 1)
  <2> HIDE DEF l
  <2>2. A[l] = Tokenizer!MergeTokens(A[l - 1], M[l], Base + l - 1)
        /\ C[l] = Tokenizer!MergeTokens(C[l - 1], M[l], Base + l - 1)
    BY <1>2, <1>3, <2>1 DEF Applies, l
  <2>3. A[l - 1] = C[l - 1]
    BY <1>11, <2>1 DEF l
  <2>4. A[n + (d + 1)] = C[n + (d + 1)]
    BY <2>2, <2>3 DEF l
  <2> QED
    BY <2>1, <2>4
<1>12. N - n \in T
  <2>1. \A d \in 0 .. N - n : d \in T
    <3> HIDE DEF T
    <3>1. N - n \in Nat
      BY <1>1
    <3> QED
      BY <1>10, <1>11, <3>1, UpTo
  <2>2. N - n \in 0 .. N - n
    BY <1>1
  <2> HIDE DEF T
  <2> QED
    BY <2>1, <2>2
<1>13. n + (N - n) = N
  BY <1>1
<1> QED
  BY <1>2, <1>3, <1>12, <1>13

----------------------------------------------------------------------------
(* The bytes of a token. *)

\* TokenBytes, of any merges.
BytesBy(M) ==
    LET bytes[t \in 0 .. Base + Len(M) - 1] ==
          IF t < Base THEN <<t>>
          ELSE bytes[M[t - Base + 1][1]] \o bytes[M[t - Base + 1][2]]
    IN  bytes

\* The bytes of a token, by their equations.
LEMMA BytesAre ==
    ASSUME Base \in Nat, NEW M, MergesLearned(M)
    PROVE  /\ \A t \in 0 .. Base + Len(M) - 1 : BytesBy(M)[t] \in Seq(Nat)
           /\ \A t \in 0 .. Base - 1 : BytesBy(M)[t] = <<t>>
           /\ \A n \in 1 .. Len(M) :
                BytesBy(M)[Base + n - 1] = BytesBy(M)[M[n][1]] \o BytesBy(M)[M[n][2]]
<1> DEFINE N == Len(M)
           I == 0 .. Base + N - 1
           D == [I -> Seq(Nat)]
           base == [t \in I |-> IF t < Base THEN <<t>> ELSE <<>>]
           next == [nf \in (1 .. N) \X D |->
                      [t \in I |-> IF t = Base + nf[1] - 1
                                   THEN nf[2][M[nf[1]][1]] \o nf[2][M[nf[1]][2]] ELSE nf[2][t]]]
           Solves(f) == f = [t \in I |-> IF t < Base THEN <<t>>
                                         ELSE f[M[t - Base + 1][1]] \o f[M[t - Base + 1][2]]]
           bytes == CHOOSE f : Solves(f)
<1>1. BytesBy(M) = bytes
  BY DEF BytesBy
<1>2. N \in Nat /\ \A n \in 1 .. N : /\ M[n][1] \in 0 .. Base + n - 2
                                     /\ M[n][2] \in 0 .. Base + n - 2
  <2>1. N \in Nat
    BY DEF MergesLearned
  <2>2. ASSUME NEW n \in 1 .. N
        PROVE  M[n][1] \in 0 .. Base + n - 2 /\ M[n][2] \in 0 .. Base + n - 2
    <3>1. M[n][1] < Base + n - 1 /\ M[n][2] < Base + n - 1
      BY DEF MergesLearned
    <3>3. M[n] \in Nat \X Nat
      BY DEF MergesLearned
    <3>2. M[n][1] \in Nat /\ M[n][2] \in Nat
      BY <3>3
    <3> QED
      BY <3>1, <3>2
  <2> QED
    BY <2>1, <2>2
<1> HIDE DEF N
<1>3. \A n \in 1 .. N : M[n][1] \in I /\ M[n][2] \in I
  <2> SUFFICES ASSUME NEW n \in 1 .. N PROVE M[n][1] \in I /\ M[n][2] \in I
    OBVIOUS
  <2>1. \A x \in 0 .. Base + n - 2 : x \in I
    BY <1>2
  <2> QED
    BY <1>2, <2>1
<1>c. \A x, y \in Seq(Nat) : x \o y \in Seq(Nat)
  OBVIOUS
<1>4. base \in D
  <2>1. \A t \in I : base[t] \in Seq(Nat)
    BY <1>2
  <2>2. base = [t \in I |-> base[t]]
    OBVIOUS
  <2> HIDE DEF base, I
  <2> QED
    BY <2>1, <2>2
<1>5. ASSUME NEW n \in 1 .. N, NEW f \in D
      PROVE  /\ next[<<n, f>>] \in D
             /\ \A t \in I : next[<<n, f>>][t] = IF t = Base + n - 1
                                                 THEN f[M[n][1]] \o f[M[n][2]] ELSE f[t]
  <2> DEFINE h == [t \in I |-> IF t = Base + n - 1 THEN f[M[n][1]] \o f[M[n][2]] ELSE f[t]]
  <2>1. next[<<n, f>>] = h
    BY Zenon
  <2>2. f[M[n][1]] \o f[M[n][2]] \in Seq(Nat) /\ \A t \in I : f[t] \in Seq(Nat)
    <3>1. f[M[n][1]] \in Seq(Nat) /\ f[M[n][2]] \in Seq(Nat) /\ \A t \in I : f[t] \in Seq(Nat)
      <4> HIDE DEF I
      <4> QED
        BY <1>3
    <3> QED
      BY <1>c, <3>1
  <2>3. h \in D
    <3> HIDE DEF I
    <3> QED
      BY <2>2
  <2> QED
    BY <2>1, <2>3
<1> HIDE DEF base
<1>6. next \in [(1 .. N) \X D -> D]
  <2>1. \A x \in (1 .. N) \X D : next[x] \in D
    <3> SUFFICES ASSUME NEW x \in (1 .. N) \X D PROVE next[x] \in D
      OBVIOUS
    <3>1. PICK n \in 1 .. N, f \in D : x = <<n, f>>
      <4> HIDE DEF D
      <4> QED
        OBVIOUS
    <3> HIDE DEF next, D
    <3> QED
      BY <1>5, <3>1
  <2>2. next = [x \in (1 .. N) \X D |-> next[x]]
    BY Zenon
  <2> HIDE DEF next, D
  <2> QED
    BY <2>1, <2>2
<1> HIDE DEF next
<1>7. PICK G : Recurs(G, N, D, base, next)
  <2> HIDE DEF D
  <2> QED
    BY <1>2, <1>4, <1>6, Recursion
<1>8. /\ \A n \in 0 .. N : G[n] \in D
      /\ G[0] = base /\ \A n \in 1 .. N : G[n] = next[<<n, G[n - 1]>>]
  <2> HIDE DEF D
  <2> QED
    BY <1>7 DEF Recurs
<1>9. ASSUME NEW n \in 1 .. N
      PROVE  \A t \in I : G[n][t] = IF t = Base + n - 1
                                    THEN G[n - 1][M[n][1]] \o G[n - 1][M[n][2]] ELSE G[n - 1][t]
  <2>1. n - 1 \in 0 .. N
    BY <1>2
  <2>2. G[n] = next[<<n, G[n - 1]>>] /\ G[n - 1] \in D
    BY <1>8, <2>1
  <2> HIDE DEF D, I
  <2> QED
    BY <1>5, <2>2
<1> HIDE DEF D
<1>10. ASSUME NEW n \in 0 .. N, NEW t \in 0 .. Base + n - 1 PROVE G[N][t] = G[n][t] /\ t \in I
  <2>0. t \in I
    BY <1>2
  <2> DEFINE T == {d \in 0 .. N - n : G[n + d][t] = G[n][t]}
  <2>1. 0 \in T
    BY <1>2
  <2>2. ASSUME NEW d \in 0 .. (N - n) - 1, d \in T PROVE d + 1 \in T
    <3> DEFINE l == n + (d + 1)
    <3>1. l \in 1 .. N /\ l - 1 = n + d /\ d + 1 \in 0 .. N - n /\ t # Base + l - 1
      BY <1>2
    <3> HIDE DEF l
    <3>2. G[l][t] = G[l - 1][t]
      BY <1>9, <2>0, <3>1
    <3>3. G[l - 1][t] = G[n][t]
      BY <2>2, <3>1
    <3>4. G[n + (d + 1)][t] = G[n][t]
      BY <3>2, <3>3 DEF l
    <3> QED
      BY <3>1, <3>4
  <2>3. \A d \in 0 .. N - n : d \in T
    <3>1. N - n \in Nat
      BY <1>2
    <3> HIDE DEF T
    <3> QED
      BY <2>1, <2>2, <3>1, UpTo
  <2>4. N - n \in 0 .. N - n /\ n + (N - n) = N
    BY <1>2
  <2> QED
    BY <2>0, <2>3, <2>4
<1> DEFINE f == G[N]
<1>11. f \in D
  BY <1>2, <1>8
<1>12. ASSUME NEW t \in I
       PROVE  f[t] = IF t < Base THEN <<t>>
                     ELSE f[M[t - Base + 1][1]] \o f[M[t - Base + 1][2]]
  <2>1. CASE t < Base
    <3>1. 0 \in 0 .. N /\ t \in 0 .. Base + 0 - 1
      BY <1>2, <2>1
    <3>2. f[t] = G[0][t]
      BY <1>10, <3>1
    <3>3. base[t] = <<t>>
      BY <2>1 DEF base
    <3> QED
      BY <1>8, <2>1, <3>2, <3>3
  <2>2. CASE ~(t < Base)
    <3> DEFINE n == t - Base + 1
    <3>1. n \in 1 .. N /\ t = Base + n - 1 /\ n \in 0 .. N /\ n - 1 \in 0 .. N
          /\ t \in 0 .. Base + n - 1 /\ Base + (n - 1) - 1 = Base + n - 2
      BY <1>2, <2>2
    <3> HIDE DEF n
    <3>2. f[t] = G[n][t]
      BY <1>10, <3>1
    <3>3. G[n][t] = G[n - 1][M[n][1]] \o G[n - 1][M[n][2]]
      BY <1>9, <3>1
    <3>4. M[n][1] \in 0 .. Base + (n - 1) - 1 /\ M[n][2] \in 0 .. Base + (n - 1) - 1
      BY <1>2, <3>1
    <3>5. f[M[n][1]] = G[n - 1][M[n][1]] /\ f[M[n][2]] = G[n - 1][M[n][2]]
      BY <1>10, <3>1, <3>4
    <3>6. f[t] = f[M[n][1]] \o f[M[n][2]]
      BY <3>2, <3>3, <3>5
    <3> HIDE DEF f
    <3> QED
      BY <2>2, <3>6 DEF n
  <2> QED
    BY <2>1, <2>2
<1> HIDE DEF f
<1>13. Solves(f)
  <2>1. f = [t \in I |-> f[t]]
    BY <1>11 DEF D
  <2> HIDE DEF I
  <2> QED
    BY <1>12, <2>1
<1>14. Solves(bytes)
  <2> HIDE DEF Solves
  <2> QED
    BY <1>13
<1> HIDE DEF bytes
<1>15. \A t \in I : bytes[t] = IF t < Base THEN <<t>>
                               ELSE bytes[M[t - Base + 1][1]] \o bytes[M[t - Base + 1][2]]
  <2> HIDE DEF I
  <2> QED
    BY <1>14
<1> HIDE DEF Solves
<1>16. ASSUME NEW t \in 0 .. Base - 1 PROVE bytes[t] = <<t>>
  <2>1. t \in I /\ t < Base
    BY <1>2
  <2> QED
    BY <1>15, <2>1
<1>17. ASSUME NEW n \in 1 .. N PROVE bytes[Base + n - 1] = bytes[M[n][1]] \o bytes[M[n][2]]
  <2> DEFINE t == Base + n - 1
  <2>1. t \in I /\ ~(t < Base) /\ t - Base + 1 = n
    BY <1>2
  <2> HIDE DEF t
  <2>2. bytes[t] = bytes[M[n][1]] \o bytes[M[n][2]]
    BY <1>15, <2>1
  <2> QED
    BY <2>2 DEF t
<1> DEFINE T == {n \in 0 .. N : \A t \in 0 .. Base + n - 1 : bytes[t] \in Seq(Nat)}
<1>18. 0 \in T
  <2>1. ASSUME NEW t \in 0 .. Base - 1 PROVE bytes[t] \in Seq(Nat)
    <3>1. bytes[t] = <<t>>
      BY <1>16
    <3>2. t \in Nat
      OBVIOUS
    <3>3. <<t>> \in Seq(Nat)
      BY <3>2
    <3> QED
      BY <3>1, <3>3
  <2>2. Base + 0 - 1 = Base - 1 /\ 0 \in 0 .. N
    BY <1>2
  <2> QED
    BY <2>1, <2>2
<1>19. ASSUME NEW n \in 0 .. N - 1, n \in T PROVE n + 1 \in T
  <2>1. n + 1 \in 1 .. N /\ n + 1 \in 0 .. N /\ Base + (n + 1) - 2 = Base + n - 1
    BY <1>2
  <2>2. ASSUME NEW t \in 0 .. Base + (n + 1) - 1 PROVE bytes[t] \in Seq(Nat)
    <3>1. CASE t = Base + (n + 1) - 1
      <4>1. M[n + 1][1] \in 0 .. Base + n - 1 /\ M[n + 1][2] \in 0 .. Base + n - 1
        BY <1>2, <2>1
      <4>2. bytes[M[n + 1][1]] \in Seq(Nat) /\ bytes[M[n + 1][2]] \in Seq(Nat)
        BY <1>19, <4>1
      <4>3. bytes[t] = bytes[M[n + 1][1]] \o bytes[M[n + 1][2]]
        BY <1>17, <2>1, <3>1
      <4> QED
        BY <1>c, <4>2, <4>3
    <3>2. CASE t # Base + (n + 1) - 1
      <4>1. t \in 0 .. Base + n - 1
        BY <2>1, <3>2
      <4> QED
        BY <1>19, <4>1
    <3> QED
      BY <3>1, <3>2
  <2> QED
    BY <2>1, <2>2
<1>20. \A t \in I : bytes[t] \in Seq(Nat)
  <2>1. \A n \in 0 .. N : n \in T
    <3> HIDE DEF T
    <3> QED
      BY <1>2, <1>18, <1>19, UpTo
  <2>2. N \in 0 .. N
    BY <1>2
  <2> QED
    BY <2>1, <2>2
<1> QED
  BY <1>1, <1>16, <1>17, <1>20 DEF N

\* Flattening does not see where one of the sequences is cut in two.
LEMMA FlattenMerged ==
    ASSUME NEW S, NEW a \in Seq(Seq(S)), NEW b \in Seq(Seq(S)), NEW p,
           Merged(a, p, a[p] \o a[p + 1], b)
    PROVE  Data!FlattenSeq(a) = Data!FlattenSeq(b)
<1> DEFINE D == Seq(S)
           n == Len(b)
<1>0. n \in Nat /\ Len(a) = n + 1 /\ p \in 1 .. n
  BY DEF Merged
<1>1. \A k \in 1 .. n :
        b[k] = IF k < p THEN a[k] ELSE IF k = p THEN a[p] \o a[p + 1] ELSE a[k + 1]
  BY DEF Merged
<1>2. \A i \in 1 .. n + 1 : a[i] \in D
  BY <1>0
<1>f. PICK F \in [0 .. Len(a) -> D] :
        /\ F[0] = <<>> /\ \A i \in 1 .. Len(a) : F[i] = F[i - 1] \o a[i]
        /\ Data!FlattenSeq(a) = F[Len(a)]
  BY FlattenIs
<1>3. /\ F \in [0 .. n + 1 -> D]
      /\ F[0] = <<>> /\ \A i \in 1 .. n + 1 : F[i] = F[i - 1] \o a[i]
      /\ Data!FlattenSeq(a) = F[n + 1]
  <2> HIDE DEF n, D
  <2> QED
    BY <1>0, <1>f
<1>4. PICK G \in [0 .. n -> D] :
        /\ G[0] = <<>> /\ \A i \in 1 .. n : G[i] = G[i - 1] \o b[i]
        /\ Data!FlattenSeq(b) = G[n]
  BY FlattenIs
<1>a. \A x, y, z \in D : (x \o y) \o z = x \o (y \o z)
  <2> HIDE DEF D
  <2>1. \A A : \A x, y, z \in Seq(A) : (x \o y) \o z = x \o (y \o z)
    BY ConcatAssociative
  <2> SUFFICES ASSUME NEW x \in D, NEW y \in D, NEW z \in D
               PROVE  (x \o y) \o z = x \o (y \o z)
    BY Zenon
  <2>2. x \in Seq(S) /\ y \in Seq(S) /\ z \in Seq(S)
    BY DEF D
  <2> QED
    BY SMTT(60), <2>1, <2>2
<1> HIDE DEF D, n
<1> DEFINE T == {k \in 0 .. p - 1 : F[k] = G[k]}
<1>5. 0 \in T
  BY <1>0, <1>3, <1>4
<1>6. ASSUME NEW k \in 0 .. (p - 1) - 1, k \in T PROVE k + 1 \in T
  <2>1. k + 1 \in 1 .. n /\ k + 1 \in 1 .. n + 1 /\ (k + 1) - 1 = k /\ k + 1 < p
        /\ k + 1 \in 0 .. p - 1
    BY <1>0
  <2>2. b[k + 1] = a[k + 1]
    BY <1>1, <2>1
  <2>3. F[k + 1] = F[k] \o a[k + 1] /\ G[k + 1] = G[k] \o b[k + 1]
    BY <1>3, <1>4, <2>1
  <2> QED
    BY <1>6, <2>1, <2>2, <2>3
<1>7. F[p - 1] = G[p - 1]
  <2>1. p - 1 \in Nat /\ p - 1 \in 0 .. p - 1
    BY <1>0
  <2>2. \A k \in 0 .. p - 1 : k \in T
    <3> HIDE DEF T
    <3> QED
      BY <1>5, <1>6, <2>1, UpTo
  <2> QED
    BY <2>1, <2>2
<1>8. G[p] = F[p + 1]
  <2>1. p \in 1 .. n + 1 /\ p + 1 \in 1 .. n + 1 /\ (p + 1) - 1 = p /\ p - 1 \in 0 .. n + 1
    BY <1>0
  <2>2. b[p] = a[p] \o a[p + 1]
    <3>1. ~(p < p)
      BY <1>0
    <3> QED
      BY <1>0, <1>1, <3>1
  <2>3. G[p] = G[p - 1] \o b[p]
    BY <1>0, <1>4
  <2>4. F[p] = F[p - 1] \o a[p] /\ F[p + 1] = F[p] \o a[p + 1]
    BY <1>3, <2>1
  <2>5. F[p - 1] \in D /\ a[p] \in D /\ a[p + 1] \in D
    BY <1>2, <1>3, <2>1
  <2>6. (F[p - 1] \o a[p]) \o a[p + 1] = F[p - 1] \o (a[p] \o a[p + 1])
    BY <1>a, <2>5
  <2> QED
    BY <1>7, <2>2, <2>3, <2>4, <2>6
<1> DEFINE U == {d \in 0 .. n - p : G[p + d] = F[(p + d) + 1]}
<1>9. 0 \in U
  BY <1>0, <1>8
<1>10. ASSUME NEW d \in 0 .. (n - p) - 1, d \in U PROVE d + 1 \in U
  <2> DEFINE l == p + (d + 1)
  <2>1. /\ l \in 1 .. n /\ l + 1 \in 1 .. n + 1 /\ l - 1 = p + d /\ (l + 1) - 1 = l
        /\ (p + d) + 1 = l /\ ~(l < p) /\ l # p /\ d + 1 \in 0 .. n - p
    BY <1>0
  <2>2. G[p + d] = F[(p + d) + 1]
    BY <1>10
  <2> HIDE DEF l
  <2>3. b[l] = a[l + 1]
    BY <1>1, <2>1
  <2>4. G[l] = G[l - 1] \o b[l] /\ F[l + 1] = F[(l + 1) - 1] \o a[l + 1]
    BY <1>3, <1>4, <2>1
  <2>5. G[l - 1] = F[l]
    BY <2>1, <2>2
  <2>6. G[l] = F[l + 1]
    BY <2>1, <2>3, <2>4, <2>5
  <2> QED
    BY <2>1, <2>6 DEF l
<1>11. G[n] = F[n + 1]
  <2>1. n - p \in Nat /\ n - p \in 0 .. n - p /\ p + (n - p) = n
    BY <1>0
  <2>2. \A d \in 0 .. n - p : d \in U
    <3> HIDE DEF U
    <3> QED
      BY <1>9, <1>10, <2>1, UpTo
  <2>3. G[p + (n - p)] = F[(p + (n - p)) + 1]
    BY <2>1, <2>2
  <2> QED
    BY <2>1, <2>3
<1> QED
  BY <1>3, <1>4, <1>11

\* Decoded, of any merges.
DecodedBy(M, ids) == Data!FlattenSeq([i \in DOMAIN ids |-> BytesBy(M)[ids[i]]])

\* The tokens there are.
Ids(M) == 0 .. Base + Len(M) - 1

\* The bytes of a sequence of tokens.
LEMMA SpelledTyped ==
    ASSUME Base \in Nat, NEW M, MergesLearned(M), NEW s \in Seq(Ids(M))
    PROVE  LET a == [i \in DOMAIN s |-> BytesBy(M)[s[i]]]
           IN  /\ a \in Seq(Seq(Nat)) /\ Len(a) = Len(s)
               /\ \A i \in 1 .. Len(s) : a[i] = BytesBy(M)[s[i]]
<1> DEFINE a == [i \in 1 .. Len(s) |-> BytesBy(M)[s[i]]]
<1>1. \A i \in 1 .. Len(s) : BytesBy(M)[s[i]] \in Seq(Nat)
  <2>1. \A i \in 1 .. Len(s) : s[i] \in Ids(M)
    OBVIOUS
  <2> QED
    BY <2>1, BytesAre DEF Ids
<1>2. Len(s) \in Nat /\ DOMAIN s = 1 .. Len(s)
  OBVIOUS
<1>3. a \in Seq(Seq(Nat)) /\ Len(a) = Len(s)
  BY <1>1, <1>2
<1> QED
  BY <1>2, <1>3

\* A text spells itself.
LEMMA DecodedText ==
    ASSUME Base \in Nat, NEW M, MergesLearned(M), NEW s \in Seq(0 .. Base - 1)
    PROVE  DecodedBy(M, s) = s
<1> DEFINE a == [i \in DOMAIN s |-> BytesBy(M)[s[i]]]
           N == Len(s)
<1>0. Len(M) \in Nat /\ N \in Nat /\ (\A i \in 1 .. N : s[i] \in 0 .. Base - 1)
      /\ s = [i \in 1 .. N |-> s[i]]
  BY DEF MergesLearned
<1>1. s \in Seq(Ids(M))
  <2>1. \A x \in 0 .. Base - 1 : x \in Ids(M)
    BY <1>0 DEF Ids
  <2>2. \A i \in 1 .. N : s[i] \in Ids(M)
    BY <1>0, <2>1
  <2> HIDE DEF N
  <2> QED
    BY <1>0, <2>2
<1>2. a \in Seq(Seq(Nat)) /\ Len(a) = N /\ \A i \in 1 .. N : a[i] = BytesBy(M)[s[i]]
  BY <1>1, SpelledTyped
<1>3. \A i \in 1 .. N : a[i] = <<s[i]>> /\ s[i] \in Nat
  <2> SUFFICES ASSUME NEW i \in 1 .. N PROVE a[i] = <<s[i]>> /\ s[i] \in Nat
    OBVIOUS
  <2>1. s[i] \in 0 .. Base - 1 /\ a[i] = BytesBy(M)[s[i]]
    BY <1>0, <1>2
  <2>2. BytesBy(M)[s[i]] = <<s[i]>>
    BY <2>1, BytesAre
  <2>3. s[i] \in Nat
    BY <2>1
  <2> QED
    BY Zenon, <2>1, <2>2, <2>3
<1>4. DecodedBy(M, s) = Data!FlattenSeq(a)
  BY DEF DecodedBy
<1> HIDE DEF a, N
<1>5. PICK F \in [0 .. N -> Seq(Nat)] :
        /\ F[0] = <<>> /\ \A i \in 1 .. N : F[i] = F[i - 1] \o a[i]
        /\ Data!FlattenSeq(a) = F[N]
  BY <1>2, FlattenIs
<1>n. N \in Nat
  BY <1>0
<1> DEFINE Start(k) == [i \in 1 .. k |-> s[i]]
           T == {k \in 0 .. N : F[k] = Start(k)}
<1>6. 0 \in T
  <2>1. Start(0) = <<>>
    OBVIOUS
  <2> QED
    BY <1>0, <1>5, <2>1
<1>7. ASSUME NEW k \in 0 .. N - 1, k \in T PROVE k + 1 \in T
  <2>1. k + 1 \in 1 .. N /\ (k + 1) - 1 = k /\ k + 1 \in 0 .. N /\ k \in Nat
        /\ \A i \in 1 .. k : i \in 1 .. N
    BY <1>n
  <2> DEFINE x == s[k + 1]
             u == Start(k)
             c == u \o <<x>>
  <2>2. x \in Nat /\ \A i \in 1 .. k : s[i] \in Nat
    BY <1>3, <2>1
  <2>3. u \in Seq(Nat) /\ Len(u) = k /\ \A i \in 1 .. k : u[i] = s[i]
    BY <2>1, <2>2
  <2>4. F[k + 1] = c
    BY <1>3, <1>5, <1>7, <2>1
  <2> HIDE DEF x, u
  <2>5. c \in Seq(Nat) /\ Len(c) = k + 1 /\ c[k + 1] = x /\ \A i \in 1 .. k : c[i] = u[i]
    BY <2>1, <2>2, <2>3
  <2>6. c = [i \in 1 .. k + 1 |-> c[i]]
    <3> HIDE DEF c
    <3> QED
      BY <2>1, <2>5
  <2> HIDE DEF c
  <2>7. \A i \in 1 .. k + 1 : c[i] = s[i]
    BY <2>1, <2>3, <2>5 DEF x
  <2>8. c = Start(k + 1)
    BY <2>6, <2>7
  <2> QED
    BY <2>1, <2>4, <2>8
<1>8. F[N] = Start(N)
  <2>1. \A k \in 0 .. N : k \in T
    <3> HIDE DEF T
    <3> QED
      BY <1>0, <1>6, <1>7, UpTo
  <2>2. N \in 0 .. N
    BY <1>0
  <2> QED
    BY <2>1, <2>2
<1> QED
  BY <1>0, <1>4, <1>5, <1>8

\* A merge does not change what the tokens spell.
LEMMA DecodedMerged ==
    ASSUME Base \in Nat, NEW M, MergesLearned(M), NEW s \in Seq(Ids(M)), NEW t \in Seq(Ids(M)),
           NEW n \in 1 .. Len(M), NEW p, Joins(s, M[n], p), Merged(s, p, Base + n - 1, t)
    PROVE  DecodedBy(M, s) = DecodedBy(M, t)
<1> DEFINE a == [i \in DOMAIN s |-> BytesBy(M)[s[i]]]
           b == [i \in DOMAIN t |-> BytesBy(M)[t[i]]]
           N == Len(t)
<1>1. a \in Seq(Seq(Nat)) /\ Len(a) = Len(s) /\ \A i \in 1 .. Len(s) : a[i] = BytesBy(M)[s[i]]
  BY SpelledTyped
<1>2. b \in Seq(Seq(Nat)) /\ Len(b) = N /\ \A i \in 1 .. N : b[i] = BytesBy(M)[t[i]]
  BY SpelledTyped
<1>3. /\ N \in Nat /\ Len(s) = N + 1 /\ p \in 1 .. N
      /\ \A k \in 1 .. N : t[k] = IF k < p THEN s[k] ELSE IF k = p THEN Base + n - 1 ELSE s[k + 1]
  BY DEF Merged
<1>4. M[n][1] = s[p] /\ M[n][2] = s[p + 1]
  <2>1. <<s[p], s[p + 1]>> = M[n]
    BY DEF Joins
  <2>2. <<s[p], s[p + 1]>>[1] = s[p] /\ <<s[p], s[p + 1]>>[2] = s[p + 1]
    OBVIOUS
  <2> QED
    BY Zenon, <2>1, <2>2
<1>5. BytesBy(M)[Base + n - 1] = BytesBy(M)[M[n][1]] \o BytesBy(M)[M[n][2]]
  BY BytesAre
<1>6. DecodedBy(M, s) = Data!FlattenSeq(a) /\ DecodedBy(M, t) = Data!FlattenSeq(b)
  BY DEF DecodedBy
<1> HIDE DEF a, b, N
<1>7. a[p] \o a[p + 1] = BytesBy(M)[Base + n - 1]
  <2>1. p \in 1 .. Len(s) /\ p + 1 \in 1 .. Len(s)
    BY <1>3
  <2>2. a[p] = BytesBy(M)[s[p]] /\ a[p + 1] = BytesBy(M)[s[p + 1]]
    BY <1>1, <2>1
  <2> QED
    BY <1>4, <1>5, <2>2
<1>8. ASSUME NEW k \in 1 .. N
      PROVE  b[k] = IF k < p THEN a[k] ELSE IF k = p THEN a[p] \o a[p + 1] ELSE a[k + 1]
  <2>1. k \in 1 .. Len(s) /\ k + 1 \in 1 .. Len(s) /\ b[k] = BytesBy(M)[t[k]]
        /\ a[k] = BytesBy(M)[s[k]] /\ a[k + 1] = BytesBy(M)[s[k + 1]]
    <3>1. k \in 1 .. Len(s) /\ k + 1 \in 1 .. Len(s)
      BY <1>3
    <3> QED
      BY <1>1, <1>2, <3>1
  <2>2. t[k] = IF k < p THEN s[k] ELSE IF k = p THEN Base + n - 1 ELSE s[k + 1]
    BY <1>3
  <2> QED
    BY <1>7, <2>1, <2>2
<1>9. Merged(a, p, a[p] \o a[p + 1], b)
  BY <1>1, <1>2, <1>3, <1>8 DEF Merged
<1> QED
  BY <1>1, <1>2, <1>6, <1>9, FlattenMerged

----------------------------------------------------------------------------
(* Least elements. *)

\* A set of numbers has a least one.
LEMMA LeastNumber ==
    ASSUME NEW S \in SUBSET Nat, S # {}
    PROVE  \E x \in S : \A y \in S : x <= y
<1>1. PICK x \in S : \A y \in S : ~(<<y, x>> \in OpToRel(<, Nat))
  BY NatLessThanWellFounded, WFMin
<1>2. \A y \in S : ~(y < x)
  BY <1>1 DEF OpToRel
<1> QED
  BY <1>2

\* A set of pairs of numbers has a least one.
LEMMA LeastPair ==
    ASSUME NEW S \in SUBSET (Nat \X Nat), S # {}
    PROVE  \E p \in S : \A q \in S : p = q \/ Tokenizer!Before(p, q)
<1> DEFINE A == {p[1] : p \in S}
<1>0. \A p \in S : p[1] \in Nat /\ p[2] \in Nat /\ p = <<p[1], p[2]>>
  OBVIOUS
<1>1. A \in SUBSET Nat /\ A # {}
  BY <1>0
<1>2. PICK x \in A : \A y \in A : x <= y
  <2> HIDE DEF A
  <2> QED
    BY <1>1, LeastNumber
<1> DEFINE R == {p \in S : p[1] = x}
           B == {p[2] : p \in R}
<1>3. B \in SUBSET Nat /\ B # {}
  BY <1>0
<1>4. PICK y \in B : \A z \in B : y <= z
  <2> HIDE DEF B
  <2> QED
    BY <1>3, LeastNumber
<1>5. PICK p \in S : p[1] = x /\ p[2] = y
  OBVIOUS
<1>6. ASSUME NEW q \in S, q # p PROVE Tokenizer!Before(p, q)
  <2>1. q[1] \in A /\ x <= q[1]
    BY <1>2
  <2>2. CASE q[1] = x
    <3>1. y <= q[2]
      BY <1>4, <2>2
    <3>2. q[2] # y
      <4> SUFFICES ASSUME q[2] = y PROVE FALSE
        OBVIOUS
      <4>1. q = <<q[1], q[2]>> /\ p = <<p[1], p[2]>>
        BY <1>0
      <4> QED
        BY <1>5, <1>6, <2>2, <4>1
    <3>3. p[2] < q[2] /\ p[1] = q[1]
      BY <1>0, <1>5, <2>2, <3>1, <3>2
    <3> QED
      BY <3>3 DEF Tokenizer!Before
  <2>3. CASE q[1] # x
    <3>1. p[1] < q[1]
      BY <1>0, <1>5, <2>1, <2>3
    <3> QED
      BY <3>1 DEF Tokenizer!Before
  <2> QED
    BY <2>2, <2>3
<1> QED
  BY <1>6

\* The entry that the heap gives.
LEMMA LeastOfHeap ==
    ASSUME heap \in SUBSET (Nat \X Nat), heap # {}
    PROVE  /\ Tokenizer!Least \in heap
           /\ \A e \in heap : Tokenizer!Least = e \/ Tokenizer!Before(Tokenizer!Least, e)
<1>1. \E e \in heap : \A f \in heap : e = f \/ Tokenizer!Before(e, f)
  BY LeastPair
<1> QED
  BY Zenon, <1>1 DEF Tokenizer!Least

\* While there is a pair, the training finds one.
LEMMA BestPairThere ==
    ASSUME document \in Seq(Nat), Tokenizer!Pairs(document) # {}
    PROVE  Tokenizer!BestPair \in Tokenizer!Pairs(document)
<1> DEFINE P == Tokenizer!Pairs(document)
           C(p) == Tokenizer!Count(document, p)
           n == Len(document)
           best == {p \in P : \A q \in P : C(q) <= C(p)}
<1>1. n \in Nat /\ P \in SUBSET (Nat \X Nat)
  BY SMTT(30) DEF Tokenizer!Pairs
<1>2. ASSUME NEW p \in P PROVE C(p) \in 0 .. n
  <2> DEFINE I == {i \in 1 .. n - 1 : <<document[i], document[i + 1]>> = p}
  <2>1. IsFiniteSet(1 .. n - 1) /\ Cardinality(1 .. n - 1) <= n
    <3>1. n - 1 \in Int /\ 1 \in Int
      BY <1>1
    <3>2. IsFiniteSet(1 .. n - 1)
          /\ Cardinality(1 .. n - 1) = IF 1 > n - 1 THEN 0 ELSE (n - 1) - 1 + 1
      BY <3>1, FS_Interval
    <3> QED
      BY <1>1, <3>2
  <2>2. I \in SUBSET (1 .. n - 1)
    OBVIOUS
  <2>3. IsFiniteSet(I) /\ Cardinality(I) <= Cardinality(1 .. n - 1)
    <3> HIDE DEF I
    <3> QED
      BY <2>1, <2>2, FS_Subset
  <2>4. Cardinality(I) \in Nat /\ Cardinality(1 .. n - 1) \in Nat
    BY <2>1, <2>3, FS_CardinalityType
  <2>5. C(p) = Cardinality(I)
    BY Zenon DEF Tokenizer!Count, Tokenizer!Cardinality, Cardinality
  <2> HIDE DEF I
  <2> QED
    BY <1>1, <2>1, <2>3, <2>4, <2>5
<1> DEFINE D == {n - C(p) : p \in P}
<1> HIDE DEF P, C, n
<1>3. D \in SUBSET Nat /\ D # {}
  <2>1. \A p \in P : n - C(p) \in Nat
    BY <1>1, <1>2
  <2>2. P # {}
    BY DEF P
  <2> QED
    BY <2>1, <2>2
<1>4. PICK x \in D : \A y \in D : x <= y
  <2> HIDE DEF D
  <2> QED
    BY <1>3, LeastNumber
<1>5. PICK p \in P : x = n - C(p)
  OBVIOUS
<1>6. ASSUME NEW q \in P PROVE C(q) <= C(p)
  <2>1. n - C(p) <= n - C(q)
    BY <1>4, <1>5
  <2> QED
    BY <1>1, <1>2, <2>1
<1>7. best # {} /\ best \in SUBSET (Nat \X Nat)
  BY <1>1, <1>6
<1> HIDE DEF D, best
<1>8. \E b \in best : \A q \in best : b = q \/ Tokenizer!Before(b, q)
  BY <1>7, LeastPair
<1>9. Tokenizer!BestPair = CHOOSE b \in best : \A q \in best : b = q \/ Tokenizer!Before(b, q)
  BY DEF Tokenizer!BestPair, best, P, C
<1>10. Tokenizer!BestPair \in best
  BY Zenon, <1>8, <1>9
<1> QED
  BY <1>10 DEF best, P

----------------------------------------------------------------------------
(* The list of the living. *)

\* The positions that live.
Living(al, n) == {i \in 1 .. n : al[i]}

\* pos are the positions that live, in their order.
Ordered(pos, n) ==
    /\ pos \in Seq(1 .. n)
    /\ \A j, k \in 1 .. Len(pos) : j < k => pos[j] < pos[k]

\* The first k of them are k.
LEMMA OrderedCount ==
    ASSUME NEW n \in Nat, NEW pos, Ordered(pos, n), NEW k \in 0 .. Len(pos)
    PROVE  Cardinality({pos[m] : m \in 1 .. k}) = k
<1> DEFINE S == {pos[m] : m \in 1 .. k}
           f == [m \in 1 .. k |-> pos[m]]
<1>1. k \in Nat /\ \A m \in 1 .. k : m \in 1 .. Len(pos) /\ pos[m] \in 1 .. n
  BY DEF Ordered
<1>2. \A a, b \in 1 .. k : pos[a] = pos[b] => a = b
  <2> SUFFICES ASSUME NEW a \in 1 .. k, NEW b \in 1 .. k, pos[a] = pos[b], a < b PROVE FALSE
    BY <1>1
  <2>1. pos[a] < pos[b]
    BY <1>1 DEF Ordered
  <2> QED
    BY <1>1, <2>1
<1>3. f \in [1 .. k -> S]
  OBVIOUS
<1>4. \A a, b \in 1 .. k : f[a] = f[b] => a = b
  BY <1>2
<1>5. \A y \in S : \E a \in 1 .. k : f[a] = y
  OBVIOUS
<1> HIDE DEF f, S
<1>6. f \in Bijection(1 .. k, S)
  BY <1>3, <1>4, <1>5 DEF Bijection, Injection, Surjection, IsInjective
<1>7. ExistsBijection(1 .. k, S)
  BY <1>6 DEF ExistsBijection
<1>8. Cardinality(S) = k
  BY <1>1, <1>7, FS_CountingElements
<1> QED
  BY <1>8 DEF S

\* The tokens at these positions.
SpelledAt(tok, pos) == [k \in 1 .. Len(pos) |-> tok[pos[k]]]

\* What _bpe_encode returns are the tokens at these positions.
LEMMA EncodedIs ==
    ASSUME NEW n \in Nat, DOMAIN textTokens = 1 .. n, NEW pos, Ordered(pos, n),
           Living(alive, n) = {pos[k] : k \in 1 .. Len(pos)}
    PROVE  Tokenizer!Encoded = SpelledAt(textTokens, pos)
<1> DEFINE L == Living(alive, n)
           N == Len(pos)
           upto(i) == {j \in L : j <= i}
           all == {i \in DOMAIN textTokens : alive[i]}
           of(l) == [k \in 1 .. Cardinality(l) |->
                       textTokens[CHOOSE i \in l : Cardinality({j \in l : j <= i}) = k]]
           e == of(L)
<1>1. Tokenizer!Encoded = e
  <2>1. Tokenizer!Encoded = of(all)
    BY Zenon DEF Tokenizer!Encoded, Tokenizer!Cardinality, Cardinality
  <2>2. all = L
    BY DEF Living
  <2> HIDE DEF of
  <2> QED
    BY <2>1, <2>2
<1>2. N \in Nat /\ \A k \in 1 .. N : pos[k] \in 1 .. n
  BY DEF Ordered
<1>3. L = {pos[k] : k \in 1 .. N}
  OBVIOUS
<1> HIDE DEF L
<1>4. Cardinality(L) = N
  <2>1. N \in 0 .. N
    BY <1>2
  <2> QED
    BY <1>3, <2>1, OrderedCount
<1>5. ASSUME NEW k \in 1 .. N PROVE Cardinality(upto(pos[k])) = k
  <2>1. upto(pos[k]) = {pos[m] : m \in 1 .. k}
    <3>1. ASSUME NEW m \in 1 .. N PROVE pos[m] <= pos[k] <=> m \in 1 .. k
      <4>1. CASE m < k
        <5>1. pos[m] < pos[k]
          BY <4>1 DEF Ordered
        <5> QED
          BY <1>2, <4>1, <5>1
      <4>2. CASE m = k
        BY <1>2, <4>2
      <4>3. CASE k < m
        <5>1. pos[k] < pos[m]
          BY <4>3 DEF Ordered
        <5> QED
          BY <1>2, <4>3, <5>1
      <4> QED
        BY <1>2, <4>1, <4>2, <4>3
    <3>2. \A m \in 1 .. k : m \in 1 .. N
      BY <1>2
    <3> QED
      BY <1>3, <3>1, <3>2
  <2>2. k \in 0 .. N
    BY <1>2
  <2> QED
    BY <2>1, <2>2, OrderedCount
<1>6. ASSUME NEW k \in 1 .. N
      PROVE  (CHOOSE i \in L : Cardinality(upto(i)) = k) = pos[k]
  <2> DEFINE c == CHOOSE i \in L : Cardinality(upto(i)) = k
  <2>1. pos[k] \in L /\ Cardinality(upto(pos[k])) = k
    BY <1>3, <1>5
  <2>2. c \in L /\ Cardinality(upto(c)) = k
    BY Zenon, <2>1
  <2> HIDE DEF c, upto
  <2>3. PICK m \in 1 .. N : c = pos[m]
    BY <1>3, <2>2
  <2>4. m = k
    BY <1>5, <2>2, <2>3
  <2>5. c = pos[k]
    BY <2>3, <2>4
  <2> QED
    BY <2>5 DEF c
<1>7. e = [k \in 1 .. N |-> textTokens[pos[k]]]
  <2> DEFINE at(k) == CHOOSE i \in L : Cardinality(upto(i)) = k
  <2>1. \A k \in 1 .. N : at(k) = pos[k]
    BY <1>6
  <2>2. e = [k \in 1 .. N |-> textTokens[at(k)]]
    BY <1>4
  <2> HIDE DEF at, e
  <2> QED
    BY <2>1, <2>2
<1> QED
  BY <1>1, <1>7 DEF SpelledAt

\* The list of the neighbours is that of these positions.
Links(pos, n, al, nx, pv) ==
    /\ Ordered(pos, n) /\ Living(al, n) = {pos[k] : k \in 1 .. Len(pos)}
    /\ \A k \in 1 .. Len(pos) : /\ nx[pos[k]] = IF k < Len(pos) THEN pos[k + 1] ELSE n + 1
                                /\ pv[pos[k]] = IF k > 1 THEN pos[k - 1] ELSE 0

\* The positions without the (p + 1)-st.
Without(pos, p, less) ==
    /\ Len(less) + 1 = Len(pos) /\ p \in 1 .. Len(less)
    /\ \A k \in 1 .. Len(less) : less[k] = IF k <= p THEN pos[k] ELSE pos[k + 1]

\* Ordered positions are positions, each once.
LEMMA OrderedInto ==
    ASSUME NEW n \in Nat, NEW pos, Ordered(pos, n)
    PROVE  /\ Len(pos) \in Nat /\ \A k \in 1 .. Len(pos) : pos[k] \in 1 .. n
           /\ \A j, k \in 1 .. Len(pos) : pos[j] = pos[k] => j = k
<1>1. Len(pos) \in Nat /\ \A k \in 1 .. Len(pos) : pos[k] \in 1 .. n
  BY DEF Ordered
<1>2. ASSUME NEW j \in 1 .. Len(pos), NEW k \in 1 .. Len(pos), pos[j] = pos[k], j # k PROVE FALSE
  <2>1. j < k => pos[j] < pos[k]
    BY DEF Ordered
  <2>2. k < j => pos[k] < pos[j]
    BY DEF Ordered
  <2> QED
    BY <1>1, <1>2, <2>1, <2>2
<1> QED
  BY <1>1, <1>2

\* They stay ordered without one.
LEMMA WithoutOrdered ==
    ASSUME NEW n \in Nat, NEW pos, Ordered(pos, n), NEW p \in 1 .. Len(pos) - 1
    PROVE  \E less : Without(pos, p, less) /\ Ordered(less, n)
<1> DEFINE N == Len(pos)
           less == [k \in 1 .. N - 1 |-> IF k <= p THEN pos[k] ELSE pos[k + 1]]
<1>1. N \in Nat /\ (\A k \in 1 .. N : pos[k] \in 1 .. n)
      /\ \A j, k \in 1 .. N : j < k => pos[j] < pos[k]
  BY DEF Ordered
<1>2. \A k \in 1 .. N - 1 : k \in 1 .. N /\ k + 1 \in 1 .. N
  BY <1>1
<1>3. \A k \in 1 .. N - 1 : less[k] \in 1 .. n
  BY <1>1, <1>2
<1>n. N - 1 \in Nat /\ p \in 1 .. N - 1
  BY <1>1
<1>4. less \in Seq(1 .. n) /\ Len(less) = N - 1
  <2>1. less \in [1 .. N - 1 -> 1 .. n]
    <3>1. less = [k \in 1 .. N - 1 |-> less[k]]
      OBVIOUS
    <3> HIDE DEF less
    <3> QED
      BY <1>3, <3>1
  <2> HIDE DEF less, N
  <2> QED
    BY <1>n, <2>1
<1>5. ASSUME NEW j \in 1 .. N - 1, NEW k \in 1 .. N - 1, j < k PROVE less[j] < less[k]
  <2> DEFINE jj == IF j <= p THEN j ELSE j + 1
             kk == IF k <= p THEN k ELSE k + 1
  <2>1. jj \in 1 .. N /\ kk \in 1 .. N /\ jj < kk
    BY <1>n, <1>2, <1>5
  <2>2. less[j] = pos[jj] /\ less[k] = pos[kk]
    OBVIOUS
  <2> HIDE DEF jj, kk, less
  <2> QED
    BY <1>1, <2>1, <2>2
<1>6. Without(pos, p, less)
  <2>1. (N - 1) + 1 = N
    BY <1>1
  <2>2. \A k \in 1 .. N - 1 : less[k] = IF k <= p THEN pos[k] ELSE pos[k + 1]
    OBVIOUS
  <2> HIDE DEF less
  <2> QED
    BY <1>n, <1>4, <2>1, <2>2 DEF Without
<1>7. Ordered(less, n)
  <2> HIDE DEF less
  <2> QED
    BY <1>4, <1>5 DEF Ordered
<1> QED
  BY <1>6, <1>7

\* Removing the position after pos[p] from the list, as MergePair does.
LEMMA LinksWithout ==
    ASSUME NEW n \in Nat, NEW pos, NEW al, NEW nx, NEW pv, Links(pos, n, al, nx, pv),
           NEW p, NEW less, Without(pos, p, less), Ordered(less, n),
           NEW bl, NEW ny, NEW pw, NEW j, NEW i, NEW k, i = pos[p], j = nx[i], k = nx[j],
           al \in [1 .. n -> BOOLEAN], nx \in [1 .. n -> Nat], pv \in [1 .. n -> Nat],
           bl = [al EXCEPT ![j] = FALSE], ny = [nx EXCEPT ![i] = k],
           pw = IF k <= n THEN [pv EXCEPT ![k] = i] ELSE pv
    PROVE  Links(less, n, bl, ny, pw)
<1> DEFINE N == Len(pos)
           L == Len(less)
<1>1. /\ N \in Nat /\ (\A m \in 1 .. N : pos[m] \in 1 .. n) /\ L \in Nat /\ L + 1 = N /\ p \in 1 .. L
      /\ \A a, b \in 1 .. N : pos[a] = pos[b] => a = b
  BY OrderedInto DEF Links, Without
<1>2. \A m \in 1 .. L : less[m] = IF m <= p THEN pos[m] ELSE pos[m + 1]
  BY DEF Without
<1>3. \A m \in 1 .. N : /\ nx[pos[m]] = IF m < N THEN pos[m + 1] ELSE n + 1
                        /\ pv[pos[m]] = IF m > 1 THEN pos[m - 1] ELSE 0
  BY DEF Links
<1>4. Living(al, n) = {pos[m] : m \in 1 .. N}
  BY DEF Links
<1> HIDE DEF N, L
<1>5. p \in 1 .. N /\ p + 1 \in 1 .. N /\ p < N
  BY <1>1
<1>6. j = pos[p + 1] /\ i \in 1 .. n /\ j \in 1 .. n
  BY <1>1, <1>3, <1>5
<1>7. k = IF p + 1 < N THEN pos[(p + 1) + 1] ELSE n + 1
  BY <1>3, <1>5, <1>6
<1>8. Living(bl, n) = {less[m] : m \in 1 .. L}
  <2>1. Living(bl, n) = Living(al, n) \ {j}
    BY <1>6 DEF Living
  <2>2. ASSUME NEW x \in Living(bl, n) PROVE \E m \in 1 .. L : x = less[m]
    <3>1. PICK m \in 1 .. N : x = pos[m] /\ m # p + 1
      BY <1>4, <1>6, <2>1
    <3>2. CASE m <= p
      <4>2. m \in 1 .. L
        BY <1>1, <3>2
      <4>1. m \in 1 .. L /\ less[m] = x
        BY <1>2, <3>1, <3>2, <4>2
      <4> QED
        BY <4>1
    <3>3. CASE ~(m <= p)
      <4>1. m - 1 \in 1 .. L /\ (m - 1) + 1 = m /\ ~(m - 1 <= p)
        BY <1>1, <3>1, <3>3
      <4>2. less[m - 1] = x
        BY <1>2, <3>1, <4>1
      <4> QED
        BY <4>1, <4>2
    <3> QED
      BY <3>2, <3>3
  <2>3. ASSUME NEW m \in 1 .. L PROVE less[m] \in Living(bl, n)
    <3>1. PICK l \in 1 .. N : less[m] = pos[l] /\ l # p + 1
      <4>1. m \in 1 .. N /\ m + 1 \in 1 .. N
        BY <1>1
      <4>2. CASE m <= p
        <5>1. less[m] = pos[m] /\ m # p + 1
          BY <1>1, <1>2, <4>2
        <5> QED
          BY <4>1, <5>1
      <4>3. CASE ~(m <= p)
        <5>1. less[m] = pos[m + 1] /\ m + 1 # p + 1
          BY <1>1, <1>2, <4>3
        <5> QED
          BY <4>1, <5>1
      <4> QED
        BY <4>2, <4>3
    <3>2. pos[l] # j
      BY <1>1, <1>5, <1>6, <3>1
    <3> QED
      BY <1>4, <2>1, <3>1, <3>2
  <2> QED
    BY <2>2, <2>3
<1>9. ASSUME NEW m \in 1 .. L
      PROVE  /\ ny[less[m]] = IF m < L THEN less[m + 1] ELSE n + 1
             /\ pw[less[m]] = IF m > 1 THEN less[m - 1] ELSE 0
  <2>0. m \in 1 .. N /\ m + 1 \in 1 .. N
    BY <1>1
  <2>y. \A x \in 1 .. n : ny[x] = IF x = i THEN k ELSE nx[x]
    OBVIOUS
  <2>w. \A x \in 1 .. n : pw[x] = IF x = k THEN i ELSE pv[x]
    <3>1. k \in Nat
      <4>1. p + 1 < N => (p + 1) + 1 \in 1 .. N
        BY <1>1, <1>5
      <4> QED
        BY <1>1, <1>7, <4>1
    <3>2. CASE k <= n
      <4>1. pw = [pv EXCEPT ![k] = i]
        BY <3>2
      <4> QED
        BY <4>1
    <3>3. CASE ~(k <= n)
      <4>1. pw = pv
        BY <3>3
      <4>2. \A x \in 1 .. n : x # k
        BY <3>1, <3>3
      <4> QED
        BY <4>1, <4>2
    <3> QED
      BY <3>2, <3>3
  <2>1. CASE m < p
    <3>1. less[m] = pos[m] /\ less[m + 1] = pos[m + 1] /\ m < L /\ m < N /\ (m > 1 => less[m - 1] = pos[m - 1])
      BY SMTT(30), <1>1, <1>2, <2>1
    <3>2. pos[m] # i /\ pos[m] \in 1 .. n
      BY SMTT(30), <1>1, <1>5, <2>0, <2>1
    <3>3. pos[m] # k
      <4>1. CASE p + 1 < N
        <5>1. (p + 1) + 1 \in 1 .. N /\ m # (p + 1) + 1
          BY <1>1, <2>1, <4>1
        <5> QED
          BY <1>1, <1>7, <2>0, <4>1, <5>1
      <4>2. CASE ~(p + 1 < N)
        BY <1>7, <3>2, <4>2
      <4> QED
        BY <4>1, <4>2
    <3> QED
      BY <1>3, <2>0, <2>w, <2>y, <3>1, <3>2, <3>3
  <2>2. CASE m = p
    <3>1. less[m] = i /\ i \in 1 .. n /\ (m > 1 => less[m - 1] = pos[m - 1])
      BY <1>1, <1>2, <1>6, <2>2
    <3>2. ny[i] = k
      BY <2>y, <3>1
    <3>3. k = IF m < L THEN less[m + 1] ELSE n + 1
      <4>1. CASE m < L
        <5>1. m + 1 \in 1 .. L /\ ~(m + 1 <= p) /\ p + 1 < N
          BY <1>1, <2>2, <4>1
        <5>2. less[m + 1] = pos[(m + 1) + 1]
          BY <1>2, <5>1
        <5> QED
          BY <1>7, <2>2, <4>1, <5>1, <5>2
      <4>2. CASE ~(m < L)
        <5>1. ~(p + 1 < N)
          BY <1>1, <2>2, <4>2
        <5> QED
          BY <1>7, <4>2, <5>1
      <4> QED
        BY <4>1, <4>2
    <3>4. i # k
      <4>1. CASE p + 1 < N
        <5>1. (p + 1) + 1 \in 1 .. N /\ p # (p + 1) + 1
          BY <1>1, <4>1
        <5> QED
          BY <1>1, <1>5, <1>7, <4>1, <5>1
      <4>2. CASE ~(p + 1 < N)
        BY <1>7, <3>1, <4>2
      <4> QED
        BY <4>1, <4>2
    <3>5. pw[i] = pv[pos[m]]
      BY <2>2, <2>w, <3>1, <3>4
    <3>6. pv[pos[m]] = IF m > 1 THEN pos[m - 1] ELSE 0
      BY <1>3, <2>0
    <3> QED
      BY <3>1, <3>2, <3>3, <3>5, <3>6
  <2>3. CASE m > p
    <3>1. less[m] = pos[m + 1] /\ ~(m <= p)
      BY <1>1, <1>2, <2>3
    <3>2. pos[m + 1] # i /\ pos[m + 1] \in 1 .. n
      BY SMTT(30), <1>1, <1>5, <2>0, <2>3
    <3>3. ny[less[m]] = nx[pos[m + 1]]
      BY <2>y, <3>1, <3>2
    <3>4. nx[pos[m + 1]] = IF m + 1 < N THEN pos[(m + 1) + 1] ELSE n + 1
      BY <1>3, <2>0
    <3>5. m < L => less[m + 1] = pos[(m + 1) + 1]
      <4> HAVE m < L
      <4>1. m + 1 \in 1 .. L /\ ~(m + 1 <= p)
        BY <1>1, <2>3
      <4> QED
        BY <1>2, <4>1
    <3>6. m < L <=> m + 1 < N
      BY SMTT(30), <1>1
    <3>7. pw[less[m]] = IF m > 1 THEN less[m - 1] ELSE 0
      <4>0. m > 1 /\ m - 1 \in 1 .. L /\ (m - 1) + 1 = m
        BY <1>1, <2>3
      <4>1. CASE m = p + 1
        <5>1. p + 1 < N /\ pos[m + 1] = k
          BY <1>1, <1>7, <4>1
        <5>3. m - 1 = p /\ p <= p
          BY <1>1, <4>1
        <5>2. less[m - 1] = i
          BY <1>2, <4>0, <5>3
        <5> QED
          BY <2>w, <3>1, <3>2, <4>0, <5>1, <5>2
      <4>2. CASE m # p + 1
        <5>1. ~(m - 1 <= p) /\ m + 1 > 1 /\ (m + 1) - 1 = m
          BY <1>1, <2>3, <4>2
        <5>2. less[m - 1] = pos[m]
          BY <1>2, <4>0, <5>1
        <5>3. pos[m + 1] # k
          <6>1. CASE p + 1 < N
            <7>1. (p + 1) + 1 \in 1 .. N /\ m + 1 # (p + 1) + 1
              BY <1>1, <4>2, <6>1
            <7> QED
              BY <1>1, <1>7, <2>0, <6>1, <7>1
          <6>2. CASE ~(p + 1 < N)
            BY <1>7, <3>2, <6>2
          <6> QED
            BY <6>1, <6>2
        <5>4. pv[pos[m + 1]] = pos[m]
          BY <1>3, <2>0, <5>1
        <5> QED
          BY <2>w, <3>1, <3>2, <4>0, <5>2, <5>3, <5>4
      <4> QED
        BY <4>1, <4>2
    <3> QED
      BY <3>3, <3>4, <3>5, <3>6, <3>7
  <2> QED
    BY <1>1, <2>1, <2>2, <2>3
<1> QED
  BY <1>8, <1>9 DEF Links, L

\* s are the tokens at pos.
Spelled(s, tok, pos, S) ==
    s \in Seq(S) /\ Len(s) = Len(pos) /\ \A k \in 1 .. Len(pos) : s[k] = tok[pos[k]]

\* SpelledAt gives them.
LEMMA SpelledSeq ==
    ASSUME NEW n \in Nat, NEW S, NEW tok \in [1 .. n -> S], NEW pos, Ordered(pos, n)
    PROVE  Spelled(SpelledAt(tok, pos), tok, pos, S)
<1> DEFINE N == Len(pos)
           s == [k \in 1 .. N |-> tok[pos[k]]]
<1>1. N \in Nat /\ \A k \in 1 .. N : pos[k] \in 1 .. n
  BY OrderedInto
<1> HIDE DEF N
<1>2. \A k \in 1 .. N : tok[pos[k]] \in S
  BY <1>1
<1>3. s \in Seq(S) /\ Len(s) = N /\ \A k \in 1 .. N : s[k] = tok[pos[k]]
  BY <1>1, <1>2
<1> QED
  BY <1>3 DEF Spelled, SpelledAt, N

\* The position of pos[p] gets the token: the pair at p is merged.
LEMMA SpelledMerges ==
    ASSUME NEW n \in Nat, NEW S, NEW tok \in [1 .. n -> S], NEW token \in S,
           NEW pos, Ordered(pos, n), NEW p, NEW less, Without(pos, p, less), Ordered(less, n),
           NEW new, new = [tok EXCEPT ![pos[p]] = token]
    PROVE  Merged(SpelledAt(tok, pos), p, token, SpelledAt(new, less))
<1> DEFINE N == Len(pos)
           L == Len(less)
           s == SpelledAt(tok, pos)
           t == SpelledAt(new, less)
<1>1. /\ N \in Nat /\ (\A m \in 1 .. N : pos[m] \in 1 .. n) /\ L \in Nat /\ L + 1 = N /\ p \in 1 .. L
      /\ \A a, b \in 1 .. N : pos[a] = pos[b] => a = b
  BY OrderedInto DEF Without
<1>2. \A m \in 1 .. L : less[m] = IF m <= p THEN pos[m] ELSE pos[m + 1]
  BY DEF Without
<1>3. new \in [1 .. n -> S] /\ \A x \in 1 .. n : new[x] = IF x = pos[p] THEN token ELSE tok[x]
  OBVIOUS
<1>o. Ordered(pos, n) /\ Ordered(less, n) /\ tok \in [1 .. n -> S] /\ n \in Nat
  OBVIOUS
<1>l. N = Len(pos) /\ L = Len(less)
  OBVIOUS
<1> HIDE DEF N, L, s, t
<1>4. Len(s) = N /\ \A m \in 1 .. N : s[m] = tok[pos[m]]
  <2>1. Spelled(SpelledAt(tok, pos), tok, pos, S)
    BY Zenon, <1>o, SpelledSeq
  <2> QED
    BY <1>l, <2>1 DEF s, Spelled
<1>5. Len(t) = L /\ \A m \in 1 .. L : t[m] = new[less[m]]
  <2>1. Spelled(SpelledAt(new, less), new, less, S)
    BY Zenon, <1>o, <1>3, SpelledSeq
  <2> QED
    BY <1>l, <2>1 DEF t, Spelled
<1>6. ASSUME NEW m \in 1 .. L
      PROVE  t[m] = IF m < p THEN s[m] ELSE IF m = p THEN token ELSE s[m + 1]
  <2>0. m \in 1 .. N /\ m + 1 \in 1 .. N /\ p \in 1 .. N
    BY <1>1
  <2>1. CASE m < p
    <3>1. less[m] = pos[m]
      BY <1>1, <1>2, <2>1
    <3>2. pos[m] # pos[p] /\ pos[m] \in 1 .. n
      BY <1>1, <2>0, <2>1
    <3> QED
      BY <1>3, <1>4, <1>5, <2>0, <2>1, <3>1, <3>2
  <2>2. CASE m = p
    <3>1. less[m] = pos[p] /\ pos[p] \in 1 .. n
      BY <1>1, <1>2, <2>0, <2>2
    <3> QED
      BY <1>1, <1>3, <1>5, <2>2, <3>1
  <2>3. CASE m > p
    <3>1. less[m] = pos[m + 1]
      BY <1>1, <1>2, <2>3
    <3>2. pos[m + 1] # pos[p] /\ pos[m + 1] \in 1 .. n
      BY <1>1, <2>0, <2>3
    <3> QED
      BY <1>1, <1>3, <1>4, <1>5, <2>0, <2>3, <3>1, <3>2
  <2> QED
    BY <1>1, <2>1, <2>2, <2>3
<1>7. Merged(s, p, token, t)
  BY <1>1, <1>4, <1>5, <1>6 DEF Merged
<1> QED
  BY <1>7 DEF s, t

----------------------------------------------------------------------------
(* The heap. *)

\* Of every pair that has a rank the heap has the entry.
Complete(pos, tok, M, h) ==
    \A k \in 1 .. Len(pos) - 1 : \A m \in 1 .. Len(M) :
       M[m] = <<tok[pos[k]], tok[pos[k + 1]]>> => <<m - 1, pos[k]>> \in h

\* The entries a merge has to add.
Adds(pos, tok, M, p, token, h) ==
    \A m \in 1 .. Len(M) :
       /\ p > 1 /\ M[m] = <<tok[pos[p - 1]], token>> => <<m - 1, pos[p - 1]>> \in h
       /\ p + 1 < Len(pos) /\ M[m] = <<token, tok[pos[p + 2]]>> => <<m - 1, pos[p]>> \in h

\* Of h, only the entry of rank r at i may be missing in g.
Keeps(h, r, i, g) == h \ {<<r, i>>} \subseteq g

\* tok with the token at i.
SetTo(tok, i, token, new) == new = [tok EXCEPT ![i] = token]

\* With the entries that a merge exposes the heap is complete again.
LEMMA CompleteMerge ==
    ASSUME NEW n \in Nat, NEW S, NEW tok \in [1 .. n -> S], NEW token,
           NEW pos, Ordered(pos, n), NEW p, NEW less, Without(pos, p, less),
           NEW new, SetTo(tok, pos[p], token, new),
           NEW M, NEW h, NEW g, NEW r, Complete(pos, tok, M, h), Keeps(h, r, pos[p], g),
           Adds(pos, tok, M, p, token, g)
    PROVE  Complete(less, new, M, g)
<1> DEFINE N == Len(pos)
           L == Len(less)
<1>1. /\ N \in Nat /\ (\A m \in 1 .. N : pos[m] \in 1 .. n) /\ L \in Nat /\ L + 1 = N /\ p \in 1 .. L
      /\ \A a, b \in 1 .. N : pos[a] = pos[b] => a = b
  BY OrderedInto DEF Without
<1>2. \A m \in 1 .. L : less[m] = IF m <= p THEN pos[m] ELSE pos[m + 1]
  BY DEF Without
<1>3. \A x \in 1 .. n : new[x] = IF x = pos[p] THEN token ELSE tok[x]
  BY DEF SetTo
<1>a. N = Len(pos)
  OBVIOUS
<1> HIDE DEF N, L
<1>4. \A m \in 1 .. N : m # p => pos[m] # pos[p] /\ new[pos[m]] = tok[pos[m]]
  <2>1. p \in 1 .. N
    BY <1>1
  <2> QED
    BY <1>1, <1>3, <2>1
<1>5. new[pos[p]] = token
  <2>1. p \in 1 .. N
    BY <1>1
  <2> QED
    BY <1>1, <1>3, <2>1
<1>6. ASSUME NEW q \in 1 .. N - 1, NEW m \in 1 .. Len(M),
             q # p, M[m] = <<tok[pos[q]], tok[pos[q + 1]]>>
      PROVE  <<m - 1, pos[q]>> \in g
  <2>1. <<m - 1, pos[q]>> \in h
    BY <1>6, <1>a DEF Complete
  <2>2. pos[q] # pos[p]
    BY <1>1, <1>4, <1>6
  <2>3. <<m - 1, pos[q]>> # <<r, pos[p]>>
    BY <2>2
  <2> QED
    BY <2>1, <2>3 DEF Keeps
<1>7. ASSUME NEW k \in 1 .. L - 1, NEW m \in 1 .. Len(M),
             M[m] = <<new[less[k]], new[less[k + 1]]>>
      PROVE  <<m - 1, less[k]>> \in g
  <2>0. k \in 1 .. L /\ k + 1 \in 1 .. L /\ k \in 1 .. N /\ k + 1 \in 1 .. N /\ k \in 1 .. N - 1
    BY <1>1
  <2>1. CASE k + 1 < p
    <3>1. less[k] = pos[k] /\ less[k + 1] = pos[k + 1] /\ k # p /\ k + 1 # p
      BY <1>1, <1>2, <2>0, <2>1
    <3>2. M[m] = <<tok[pos[k]], tok[pos[k + 1]]>>
      BY <1>4, <1>7, <2>0, <3>1
    <3> QED
      BY <1>6, <2>0, <3>1, <3>2
  <2>2. CASE k + 1 = p
    <3>1. less[k] = pos[k] /\ less[k + 1] = pos[p] /\ k # p /\ p > 1 /\ p - 1 = k
      BY <1>1, <1>2, <2>0, <2>2
    <3>2. M[m] = <<tok[pos[p - 1]], token>>
      BY <1>4, <1>5, <1>7, <2>0, <3>1
    <3>3. <<m - 1, pos[p - 1]>> \in g
      BY <3>1, <3>2 DEF Adds
    <3> QED
      BY <3>1, <3>3
  <2>3. CASE k = p
    <3>1. less[k] = pos[p] /\ less[k + 1] = pos[p + 2] /\ p + 2 \in 1 .. N /\ p + 2 # p /\ p + 1 < N
      <4>1. k <= p /\ ~(k + 1 <= p) /\ (k + 1) + 1 = p + 2
        BY <1>1, <2>3
      <4>2. less[k] = pos[k] /\ less[k + 1] = pos[(k + 1) + 1]
        BY <1>2, <2>0, <4>1
      <4> QED
        BY <1>1, <2>0, <2>3, <4>1, <4>2
    <3>2. M[m] = <<token, tok[pos[p + 2]]>>
      BY <1>4, <1>5, <1>7, <3>1
    <3> QED
      BY <1>a, <3>1, <3>2 DEF Adds
  <2>4. CASE k > p
    <3>0. ~(k <= p) /\ ~(k + 1 <= p) /\ k + 1 # p /\ (k + 1) + 1 # p /\ (k + 1) + 1 \in 1 .. N
          /\ k + 1 \in 1 .. N - 1
      BY <1>1, <2>4
    <3>1. less[k] = pos[k + 1] /\ less[k + 1] = pos[(k + 1) + 1]
      BY <1>2, <2>0, <3>0
    <3>2. M[m] = <<tok[pos[k + 1]], tok[pos[(k + 1) + 1]]>>
      BY <1>4, <1>7, <2>0, <3>0, <3>1
    <3> QED
      BY <1>6, <3>0, <3>1, <3>2
  <2> QED
    BY <1>1, <2>1, <2>2, <2>3, <2>4
<1> QED
  BY <1>7 DEF Complete, L

\* The entry is that of the pair.
IsEntryOf(e, position, left, right) ==
    \E m \in 1 .. Len(merges) : merges[m] = <<left, right>> /\ e = <<m - 1, position>>

\* The entry of a pair, of its one rank.
LEMMA EntryIs ==
    ASSUME MergesLearned(merges), NEW position, NEW left, NEW right
    PROVE  /\ \A m \in 1 .. Len(merges) : merges[m] = <<left, right>> =>
                Tokenizer!Entry(position, left, right) = {<<m - 1, position>>}
           /\ \A e \in Tokenizer!Entry(position, left, right) : IsEntryOf(e, position, left, right)
<1> DEFINE has(m) == merges[m] = <<left, right>>
           c == CHOOSE i \in DOMAIN merges : merges[i] = <<left, right>>
<1>1. DOMAIN merges = 1 .. Len(merges) /\ Len(merges) \in Nat
  BY DEF MergesLearned
<1>2. Tokenizer!HasRank(left, right) <=> \E m \in 1 .. Len(merges) : has(m)
  BY <1>1 DEF Tokenizer!HasRank
<1>3. Tokenizer!RankOf(left, right) = c - 1
  BY DEF Tokenizer!RankOf
<1>4. ASSUME NEW m \in 1 .. Len(merges), has(m) PROVE c \in 1 .. Len(merges) /\ has(c)
  BY <1>1, <1>4
<1>5. ASSUME NEW m \in 1 .. Len(merges), has(m) PROVE c = m
  <2> HIDE DEF c
  <2>1. c \in 1 .. Len(merges) /\ has(c)
    BY <1>4, <1>5
  <2>2. ~(c < m)
    <3> SUFFICES ASSUME c < m PROVE FALSE
      OBVIOUS
    <3>1. c \in 1 .. m - 1
      BY <1>1, <2>1
    <3>2. merges[c] # merges[m]
      BY <3>1 DEF MergesLearned
    <3> QED
      BY <1>5, <2>1, <3>2
  <2>3. ~(m < c)
    <3> SUFFICES ASSUME m < c PROVE FALSE
      OBVIOUS
    <3>1. m \in 1 .. c - 1
      BY <1>1, <2>1
    <3>2. merges[m] # merges[c]
      BY <2>1, <3>1 DEF MergesLearned
    <3> QED
      BY <1>5, <2>1, <3>2
  <2> QED
    BY <1>1, <2>1, <2>2, <2>3
<1>6. Tokenizer!Entry(position, left, right) =
        IF Tokenizer!HasRank(left, right) THEN {<<c - 1, position>>} ELSE {}
  BY <1>3 DEF Tokenizer!Entry
<1> HIDE DEF c, has
<1>7. ASSUME NEW m \in 1 .. Len(merges), has(m)
      PROVE  Tokenizer!Entry(position, left, right) = {<<m - 1, position>>}
  BY <1>2, <1>5, <1>6, <1>7
<1>8. ASSUME NEW e \in Tokenizer!Entry(position, left, right)
      PROVE  \E m \in 1 .. Len(merges) : has(m) /\ e = <<m - 1, position>>
  <2>1. PICK m \in 1 .. Len(merges) : has(m)
    BY <1>2, <1>6
  <2>2. e = <<m - 1, position>>
    BY <1>7, <2>1
  <2> QED
    BY <2>1, <2>2
<1> QED
  BY <1>7, <1>8 DEF has, IsEntryOf

\* The definitions of Bpe, at its merges.
LEMMA AppliedOf == \A s : Tokenizer!Applied(s) = AppliedBy(merges, s)
BY Zenon DEF Tokenizer!Applied, AppliedBy

LEMMA BytesOf == Tokenizer!TokenBytes = BytesBy(merges)
BY Zenon DEF Tokenizer!TokenBytes, BytesBy

LEMMA FlattenOf == \A s : Tokenizer!FlattenSeq(s) = Data!FlattenSeq(s)
BY Zenon DEF Tokenizer!FlattenSeq, Data!FlattenSeq

LEMMA DecodedOf == \A s : Tokenizer!Decoded(s) = DecodedBy(merges, s)
BY BytesOf, FlattenOf DEF Tokenizer!Decoded, DecodedBy

----------------------------------------------------------------------------
(* The invariant. *)

\* The training, so far: no pair that was learned is in the document any more.
TrainState(doc, M) ==
    /\ doc \in Seq(Ids(M))
    /\ \A n \in 1 .. Len(M) : M[n] \notin Tokenizer!Pairs(doc)

\* The encoding, so far: pos are the living positions, their tokens spell the text, the merges
\* make of them what they make of the text, and the heap misses no pair of theirs.
Encodes(pos, txt, tok, pv, nx, al, h, M) ==
    /\ Links(pos, Len(tok), al, nx, pv) /\ Complete(pos, tok, M, h)
    /\ AppliedBy(M, SpelledAt(tok, pos)) = AppliedBy(M, txt)
    /\ DecodedBy(M, SpelledAt(tok, pos)) = txt

\* The types of the encoding.
EncodeTyped(txt, tok, pv, nx, al, h, M) ==
    /\ txt \in Seq(0 .. Base - 1) /\ tok \in Seq(Ids(M))
    /\ pv \in [1 .. Len(tok) -> Nat] /\ nx \in [1 .. Len(tok) -> Nat]
    /\ al \in [1 .. Len(tok) -> BOOLEAN]
    /\ h \in SUBSET ((0 .. Len(M) - 1) \X (1 .. Len(tok)))

\* The inductive invariant of the tokenizer.
BpeInv ==
    /\ MergesLearned(merges)
    /\ bpePc = "train" => TrainState(document, merges)
    /\ bpePc # "train" =>
         /\ EncodeTyped(text, textTokens, prev, nxt, alive, heap, merges)
         /\ \E pos : Encodes(pos, text, textTokens, prev, nxt, alive, heap, merges)
    /\ bpePc = "encoded" => heap = {}

LEMMA BpeFacts == Tokenizer!BpeAssumption => Base \in Nat /\ Base > 0 /\ MinPairCount \in Nat /\ MinPairCount > 1
  BY DEF Tokenizer!BpeAssumption

\* It holds at the start.
LEMMA BpeStart == Tokenizer!BpeAssumption /\ Tokenizer!Init => BpeInv
<1> SUFFICES ASSUME Tokenizer!BpeAssumption, Tokenizer!Init PROVE BpeInv
  OBVIOUS
<1>1. Base \in Nat
  BY BpeFacts
<1>2. bpePc = "train" /\ merges = <<>> /\ document \in Tokenizer!Texts(MaxDoc)
  BY DEF Tokenizer!Init
<1>3. Len(merges) = 0 /\ merges \in Seq(Nat \X Nat)
  BY <1>2
<1>4. MergesLearned(merges)
  BY <1>3 DEF MergesLearned
<1>5. PICK n \in 0 .. MaxDoc : document \in [1 .. n -> 0 .. Base - 1]
  BY <1>2 DEF Tokenizer!Texts
<1>6. document \in Seq(Ids(merges))
  <2>1. Ids(merges) = 0 .. Base - 1
    BY <1>1, <1>3 DEF Ids
  <2>2. n \in Nat
    BY DEF Tokenizer!BpeAssumption
  <2>3. \A S : document \in [1 .. n -> S] => document \in Seq(S)
    BY <2>2
  <2> QED
    BY Zenon, <1>5, <2>1, <2>3
<1>7. TrainState(document, merges)
  BY <1>3, <1>6 DEF TrainState
<1> QED
  BY <1>2, <1>4, <1>7 DEF BpeInv

\* A pair of the document is one of tokens there are.
LEMMA PairsTyped ==
    ASSUME NEW S, NEW s \in Seq(S), NEW q \in Tokenizer!Pairs(s)
    PROVE  q[1] \in S /\ q[2] \in S /\ q \in S \X S
<1>1. PICK i \in 1 .. Len(s) - 1 : q = <<s[i], s[i + 1]>>
  BY DEF Tokenizer!Pairs
<1>2. s[i] \in S /\ s[i + 1] \in S
  OBVIOUS
<1> QED
  BY Zenon, <1>1, <1>2

\* A learned pair is new, and its merge leaves none of the learned pairs in the document.
LEMMA LearnStep ==
    ASSUME Tokenizer!BpeAssumption, BpeInv, Tokenizer!Learn
    PROVE  BpeInv'
<1> DEFINE M == merges
           W == merges'
           best == Tokenizer!BestPair
           N == Len(merges)
           token == Base + N
<1>1. Base \in Nat /\ Base > 0 /\ MinPairCount \in Nat
  BY BpeFacts
<1>2. /\ bpePc = "train" /\ bpePc' = "train" /\ W = Append(M, best)
      /\ document' = Tokenizer!MergeTokens(document, best, token)
      /\ ~Tokenizer!Trained
  BY DEF Tokenizer!Learn
<1>3. MergesLearned(M) /\ TrainState(document, M)
  BY <1>2 DEF BpeInv
<1>4. N \in Nat /\ M \in Seq(Nat \X Nat) /\ document \in Seq(Ids(M)) /\ document \in Seq(Nat)
  <2>1. N \in Nat /\ M \in Seq(Nat \X Nat) /\ document \in Seq(Ids(M))
    BY <1>3 DEF MergesLearned, TrainState
  <2>2. Ids(M) \subseteq Nat
    BY <1>1 DEF Ids
  <2> HIDE DEF M, N
  <2> QED
    BY <2>1, <2>2
<1>5. best \in Tokenizer!Pairs(document)
  <2>1. Tokenizer!Pairs(document) # {}
    BY <1>2 DEF Tokenizer!Trained
  <2> QED
    BY <1>4, <2>1, BestPairThere
<1>6. best \in Nat \X Nat /\ best[1] \in Ids(M) /\ best[2] \in Ids(M)
  <2> HIDE DEF best, M
  <2> QED
    BY <1>4, <1>5, PairsTyped
<1>7. best[1] \in Nat /\ best[2] \in Nat /\ best[1] < token /\ best[2] < token /\ token \in Nat
  <2> HIDE DEF best
  <2> QED
    BY <1>1, <1>4, <1>6 DEF Ids
<1> HIDE DEF best, token
<1>8. /\ W \in Seq(Nat \X Nat) /\ Len(W) = N + 1 /\ W[N + 1] = best
      /\ \A n \in 1 .. N : W[n] = M[n]
  BY <1>2, <1>4, <1>6, Longer
<1> HIDE DEF W, M, N
<1>9. ASSUME NEW n \in 1 .. N
      PROVE  /\ M[n][1] < Base + n - 1 /\ M[n][2] < Base + n - 1
             /\ M[n][1] \in Nat /\ M[n][2] \in Nat /\ \A k \in 1 .. n - 1 : M[k] # M[n]
  <2>1. M[n][1] < Base + n - 1 /\ M[n][2] < Base + n - 1 /\ \A k \in 1 .. n - 1 : M[k] # M[n]
    BY <1>3 DEF MergesLearned, M, N
  <2>2. M[n] \in Nat \X Nat
    BY <1>4 DEF M, N
  <2> QED
    BY <2>1, <2>2
<1>10. \A n \in 1 .. N : M[n] \notin Tokenizer!Pairs(document)
  BY <1>3 DEF TrainState, M, N
<1>11. MergesLearned(W)
  <2>1. ASSUME NEW n \in 1 .. N + 1
        PROVE  /\ W[n][1] < Base + n - 1 /\ W[n][2] < Base + n - 1
               /\ \A k \in 1 .. n - 1 : W[k] # W[n]
    <3>1. CASE n = N + 1
      <4>1. W[n] = best /\ Base + n - 1 = token
        BY <1>1, <1>4, <1>8, <3>1 DEF token, N
      <4>2. ASSUME NEW k \in 1 .. n - 1 PROVE W[k] # W[n]
        <5>1. k \in 1 .. N
          BY <1>4, <3>1
        <5> QED
          BY <1>5, <1>8, <1>10, <4>1, <5>1
      <4> QED
        BY <1>7, <4>1, <4>2
    <3>2. CASE n # N + 1
      <4>1. n \in 1 .. N /\ \A k \in 1 .. n - 1 : k \in 1 .. N
        BY <1>4, <3>2
      <4> QED
        BY <1>8, <1>9, <4>1
    <3> QED
      BY <3>1, <3>2
  <2> QED
    BY <1>8, <2>1 DEF MergesLearned
<1>12. Left(document', document, best, token)
  BY <1>2, <1>4, <1>7, MergeLeaves
<1>13. document' \in Seq(Ids(W))
  <2>1. \A i \in 1 .. Len(document) : document[i] \in Ids(W)
    <3> SUFFICES ASSUME NEW i \in 1 .. Len(document) PROVE document[i] \in Ids(W)
      OBVIOUS
    <3>1. document[i] \in Ids(M)
      BY <1>4
    <3> QED
      BY <1>1, <1>4, <1>8, <3>1 DEF Ids, N, M
  <2>2. token \in Ids(W)
    BY <1>1, <1>4, <1>8 DEF Ids, token
  <2>3. document' \in Seq(Nat)
        /\ \A i \in 1 .. Len(document') :
             document'[i] = token \/ \E j \in 1 .. Len(document) : document'[i] = document[j]
    BY <1>12 DEF Left
  <2>4. \A i \in 1 .. Len(document') : document'[i] \in Ids(W)
    BY <2>1, <2>2, <2>3
  <2> DEFINE d == document'
  <2>5. d \in Seq(Nat) /\ \A i \in 1 .. Len(d) : d[i] \in Ids(W)
    BY <2>3, <2>4
  <2> HIDE DEF d
  <2>6. d \in Seq(Ids(W))
    BY <2>5
  <2> QED
    BY <2>6 DEF d
<1>14. ASSUME NEW n \in 1 .. N + 1, W[n] \in Tokenizer!Pairs(document') PROVE FALSE
  <2>1. W[n] \in Leaves(document, best, token)
    <3> DEFINE d == document'
    <3>1. Linked(d, Leaves(document, best, token))
      BY <1>12 DEF Left
    <3>2. PICK i \in 1 .. Len(d) - 1 : W[n] = <<d[i], d[i + 1]>>
      BY <1>14 DEF Tokenizer!Pairs
    <3> HIDE DEF d
    <3> QED
      BY <3>1, <3>2 DEF Linked
  <2>2. W[n][1] # token /\ W[n][2] # token
    <3>1. CASE n = N + 1
      BY <1>7, <1>8, <3>1
    <3>2. CASE n # N + 1
      <4>1. n \in 1 .. N
        BY <1>4, <3>2
      <4>2. M[n][1] < token /\ M[n][2] < token /\ M[n][1] \in Nat /\ M[n][2] \in Nat
        BY <1>1, <1>4, <1>9, <4>1 DEF token
      <4> QED
        BY <1>7, <1>8, <4>1, <4>2
    <3> QED
      BY <3>1, <3>2
  <2>3. W[n] \in Tokenizer!Pairs(document) /\ W[n] # best
    BY <2>1, <2>2 DEF Leaves
  <2>4. n \in 1 .. N
    BY <1>4, <1>8, <2>3
  <2> QED
    BY <1>8, <1>10, <2>3, <2>4
<1>15. TrainState(document', W)
  BY <1>8, <1>13, <1>14 DEF TrainState
<1> QED
  BY <1>2, <1>11, <1>15 DEF BpeInv, W

\* An entry is of a rank there is.
LEMMA EntryTyped ==
    ASSUME MergesLearned(merges), NEW position, NEW left, NEW right, NEW n, position \in 1 .. n
    PROVE  Tokenizer!Entry(position, left, right) \subseteq (0 .. Len(merges) - 1) \X (1 .. n)
<1> SUFFICES ASSUME NEW e \in Tokenizer!Entry(position, left, right)
             PROVE  e \in (0 .. Len(merges) - 1) \X (1 .. n)
  OBVIOUS
<1>0. IsEntryOf(e, position, left, right)
  BY Zenon, EntryIs
<1>1. PICK m \in 1 .. Len(merges) : e = <<m - 1, position>>
  BY <1>0 DEF IsEntryOf
<1>2. m - 1 \in 0 .. Len(merges) - 1
  BY DEF MergesLearned
<1> QED
  BY <1>1, <1>2

\* The list of all positions.
LEMMA AllLinked ==
    ASSUME NEW n \in Nat, NEW txt \in Seq(0 .. Base - 1), Len(txt) = n
    PROVE  LET all == [k \in 1 .. n |-> k]
           IN  /\ Links(all, n, [i \in 1 .. n |-> TRUE], [i \in 1 .. n |-> i + 1], [i \in 1 .. n |-> i - 1])
               /\ SpelledAt(txt, all) = txt /\ Len(all) = n
<1> DEFINE all == [k \in 1 .. n |-> k]
           al == [i \in 1 .. n |-> TRUE]
           nx == [i \in 1 .. n |-> i + 1]
           pv == [i \in 1 .. n |-> i - 1]
<1>1. all \in Seq(1 .. n) /\ Len(all) = n /\ \A k \in 1 .. n : all[k] = k
  OBVIOUS
<1>2. Living(al, n) = 1 .. n
  BY DEF Living
<1>3. \A k \in 1 .. n : nx[k] = k + 1 /\ pv[k] = k - 1
  OBVIOUS
<1> HIDE DEF all, al, nx, pv
<1>4. Ordered(all, n)
  BY <1>1 DEF Ordered
<1>5. 1 .. n = {all[k] : k \in 1 .. Len(all)}
  BY <1>1
<1>6. ASSUME NEW k \in 1 .. Len(all)
      PROVE  /\ nx[all[k]] = IF k < Len(all) THEN all[k + 1] ELSE n + 1
             /\ pv[all[k]] = IF k > 1 THEN all[k - 1] ELSE 0
  <2>1. all[k] = k /\ k \in 1 .. n /\ (k < n => all[k + 1] = k + 1) /\ (k > 1 => all[k - 1] = k - 1)
    BY <1>1
  <2>2. nx[k] = k + 1 /\ pv[k] = k - 1
    BY <1>3, <2>1
  <2> QED
    BY <1>1, <2>1, <2>2
<1>7. Links(all, n, al, nx, pv)
  BY <1>2, <1>4, <1>5, <1>6 DEF Links
<1>8. SpelledAt(txt, all) = txt
  <2>1. txt = [k \in 1 .. n |-> txt[k]]
    OBVIOUS
  <2>2. SpelledAt(txt, all) = [k \in 1 .. n |-> txt[all[k]]]
    BY <1>1 DEF SpelledAt
  <2>3. [k \in 1 .. n |-> txt[all[k]]] = [k \in 1 .. n |-> txt[k]]
    BY <1>1
  <2> QED
    BY <2>1, <2>2, <2>3
<1> QED
  BY <1>1, <1>7, <1>8 DEF all, al, nx, pv

\* At the start every byte lives, and the heap has the entry of every pair.
LEMMA BeginEncodeStep ==
    ASSUME Tokenizer!BpeAssumption, BpeInv, Tokenizer!BeginEncode
    PROVE  BpeInv'
<1> DEFINE n == Len(text')
           all == [k \in 1 .. n |-> k]
<1>1. Base \in Nat /\ MaxText \in Nat
  BY BpeFacts DEF Tokenizer!BpeAssumption
<1>2. /\ bpePc' = "encode" /\ merges' = merges /\ textTokens' = text'
      /\ text' \in Tokenizer!Texts(MaxText)
      /\ prev' = [i \in DOMAIN text' |-> i - 1]
      /\ nxt' = [i \in DOMAIN text' |-> i + 1]
      /\ alive' = [i \in DOMAIN text' |-> TRUE]
      /\ heap' = UNION {Tokenizer!Entry(i, text'[i], text'[i + 1]) : i \in 1 .. Len(text') - 1}
  BY DEF Tokenizer!BeginEncode
<1>3. MergesLearned(merges) /\ Len(merges) \in Nat
  BY DEF BpeInv, MergesLearned
<1>4. text' \in Seq(0 .. Base - 1) /\ n \in Nat /\ DOMAIN text' = 1 .. n
  <2>1. PICK m \in 0 .. MaxText : text' \in [1 .. m -> 0 .. Base - 1]
    BY <1>2 DEF Tokenizer!Texts
  <2>2. m \in Nat
    BY <1>1
  <2>3. \A S : text' \in [1 .. m -> S] => text' \in Seq(S)
    BY <2>2
  <2>4. text' \in Seq(0 .. Base - 1)
    BY Zenon, <2>1, <2>3
  <2> QED
    BY <2>4
<1>5. /\ Links(all, n, alive', nxt', prev')
      /\ SpelledAt(text', all) = text' /\ Len(all) = n
  <2> DEFINE txt == text'
  <2>1. txt \in Seq(0 .. Base - 1) /\ n \in Nat /\ n = Len(txt)
    BY <1>4
  <2>2. /\ alive' = [i \in 1 .. n |-> TRUE] /\ nxt' = [i \in 1 .. n |-> i + 1]
        /\ prev' = [i \in 1 .. n |-> i - 1]
    BY <1>2, <1>4
  <2> HIDE DEF txt, n
  <2>3. /\ Links(all, n, [i \in 1 .. n |-> TRUE], [i \in 1 .. n |-> i + 1], [i \in 1 .. n |-> i - 1])
        /\ SpelledAt(txt, all) = txt /\ Len(all) = n
    BY <2>1, AllLinked
  <2> QED
    BY <2>2, <2>3 DEF txt
<1>6. heap' \in SUBSET ((0 .. Len(merges) - 1) \X (1 .. n))
  <2>1. ASSUME NEW e \in heap' PROVE e \in (0 .. Len(merges) - 1) \X (1 .. n)
    <3>1. PICK i \in 1 .. n - 1 : e \in Tokenizer!Entry(i, text'[i], text'[i + 1])
      BY <1>2
    <3>2. i \in 1 .. n
      BY <1>4
    <3> QED
      BY <1>3, <3>1, <3>2, EntryTyped
  <2> QED
    BY <2>1
<1>7. Complete(all, text', merges, heap')
  <2> SUFFICES ASSUME NEW k \in 1 .. Len(all) - 1, NEW m \in 1 .. Len(merges),
                      merges[m] = <<text'[all[k]], text'[all[k + 1]]>>
               PROVE  <<m - 1, all[k]>> \in heap'
    BY DEF Complete
  <2>1. k \in 1 .. n - 1 /\ all[k] = k /\ all[k + 1] = k + 1
    BY <1>4, <1>5
  <2>2. merges[m] = <<text'[k], text'[k + 1]>>
    BY <2>1
  <2>3. Tokenizer!Entry(k, text'[k], text'[k + 1]) = {<<m - 1, k>>}
    BY <1>3, <2>2, EntryIs
  <2>4. Tokenizer!Entry(k, text'[k], text'[k + 1]) \subseteq heap'
    BY <1>2, <2>1
  <2> QED
    BY <2>1, <2>3, <2>4
<1>8. EncodeTyped(text', textTokens', prev', nxt', alive', heap', merges')
  <2>1. text' \in Seq(Ids(merges))
    <3> DEFINE txt == text'
    <3>1. \A x \in 0 .. Base - 1 : x \in Ids(merges)
      BY <1>1, <1>3 DEF Ids
    <3>2. txt \in Seq(0 .. Base - 1)
      BY <1>4
    <3> HIDE DEF txt
    <3>6. \A S : \A u \in Seq(S) : \A i \in 1 .. Len(u) : u[i] \in S
      OBVIOUS
    <3>5. \A i \in 1 .. Len(txt) : txt[i] \in 0 .. Base - 1
      BY Zenon, <3>2, <3>6
    <3>3. \A i \in 1 .. Len(txt) : txt[i] \in Ids(merges)
      BY Zenon, <3>1, <3>5
    <3>4. txt \in Seq(Ids(merges))
      BY <3>2, <3>3
    <3> QED
      BY <3>4 DEF txt
  <2>2. /\ prev' \in [1 .. n -> Nat] /\ nxt' \in [1 .. n -> Nat] /\ alive' \in [1 .. n -> BOOLEAN]
    BY <1>2, <1>4
  <2> QED
    BY <1>2, <1>4, <1>6, <2>1, <2>2 DEF EncodeTyped
<1>9. Encodes(all, text', textTokens', prev', nxt', alive', heap', merges')
  <2>1. DecodedBy(merges, text') = text'
    BY <1>1, <1>3, <1>4, DecodedText
  <2> HIDE DEF all
  <2> QED
    BY <1>2, <1>5, <1>7, <2>1 DEF Encodes
<1> HIDE DEF all
<1> QED
  BY <1>2, <1>3, <1>8, <1>9 DEF BpeInv

\* The entry <<rank, i>> is of the pair of position i.
Describes(pos, rank, i) ==
    \E p \in 1 .. Len(pos) - 1 :
       /\ i = pos[p] /\ nxt[i] = pos[p + 1]
       /\ \E r \in 1 .. Len(merges) :
            merges[r] = <<textTokens[i], textTokens[nxt[i]]>> /\ rank = r - 1

\* What the list says of a position that is not stale, and of the entry it has.
LEMMA FreshEntry ==
    ASSUME NEW n \in Nat, Len(textTokens) = n, MergesLearned(merges),
           NEW pos, Links(pos, n, alive, nxt, prev), NEW rank, NEW i \in 1 .. n
    PROVE  /\ ~Tokenizer!Stale(rank, i) => Describes(pos, rank, i)
           /\ \A p \in 1 .. Len(pos) - 1 : \A r \in 1 .. Len(merges) :
                i = pos[p] /\ merges[r] = <<textTokens[pos[p]], textTokens[pos[p + 1]]>> /\ rank = r - 1
                => ~Tokenizer!Stale(rank, i)
<1> DEFINE N == Len(pos)
<1>1. N \in Nat /\ (\A k \in 1 .. N : pos[k] \in 1 .. n)
  BY OrderedInto DEF Links
<1>2. \A k \in 1 .. N : nxt[pos[k]] = IF k < N THEN pos[k + 1] ELSE n + 1
  BY DEF Links
<1>3. \A x \in 1 .. n : alive[x] <=> \E k \in 1 .. N : x = pos[k]
  <2>1. Living(alive, n) = {pos[k] : k \in 1 .. N}
    BY DEF Links
  <2> QED
    BY <2>1 DEF Living
<1>4. ASSUME ~Tokenizer!Stale(rank, i)
      PROVE  \E p \in 1 .. N - 1 :
                /\ i = pos[p] /\ nxt[i] = pos[p + 1]
                /\ \E r \in 1 .. Len(merges) :
                     merges[r] = <<textTokens[i], textTokens[nxt[i]]>> /\ rank = r - 1
  <2>1. /\ alive[i] /\ ~(nxt[i] > n)
        /\ Tokenizer!Entry(i, textTokens[i], textTokens[nxt[i]]) = {<<rank, i>>}
    BY Zenon, <1>4 DEF Tokenizer!Stale
  <2>2. PICK p \in 1 .. N : i = pos[p]
    BY <1>3, <2>1
  <2>3. p \in 1 .. N - 1 /\ nxt[i] = pos[p + 1]
    BY <1>1, <1>2, <2>1, <2>2
  <2>0. <<rank, i>> \in Tokenizer!Entry(i, textTokens[i], textTokens[nxt[i]])
    BY <2>1
  <2>4. IsEntryOf(<<rank, i>>, i, textTokens[i], textTokens[nxt[i]])
    BY Zenon, <2>0, EntryIs
  <2>5. \E r \in 1 .. Len(merges) :
          merges[r] = <<textTokens[i], textTokens[nxt[i]]>> /\ rank = r - 1
    BY <2>4 DEF IsEntryOf
  <2> QED
    BY <2>2, <2>3, <2>5
<1>5. ASSUME NEW p \in 1 .. N - 1, NEW r \in 1 .. Len(merges), i = pos[p], rank = r - 1,
             merges[r] = <<textTokens[pos[p]], textTokens[pos[p + 1]]>>
      PROVE  ~Tokenizer!Stale(rank, i)
  <2>1. p \in 1 .. N /\ p + 1 \in 1 .. N /\ p < N
    BY <1>1
  <2>2. nxt[i] = pos[p + 1] /\ nxt[i] \in 1 .. n /\ alive[i] /\ alive[nxt[i]]
    BY <1>1, <1>2, <1>3, <1>5, <2>1
  <2>3. ~(nxt[i] > n)
    BY <2>2
  <2>4. Tokenizer!Entry(i, textTokens[i], textTokens[nxt[i]]) = {<<rank, i>>}
    BY <1>5, <2>2, EntryIs
  <2> QED
    BY Zenon, <2>2, <2>3, <2>4 DEF Tokenizer!Stale
<1>6. ~Tokenizer!Stale(rank, i) => Describes(pos, rank, i)
  BY <1>4 DEF Describes
<1> QED
  BY <1>5, <1>6

\* The state while it encodes, unfolded.
LEMMA Encoding ==
    ASSUME Tokenizer!BpeAssumption, BpeInv, bpePc # "train"
    PROVE  /\ MergesLearned(merges) /\ Base \in Nat /\ Len(merges) \in Nat /\ Len(textTokens) \in Nat
           /\ Ids(merges) \subseteq Nat
           /\ EncodeTyped(text, textTokens, prev, nxt, alive, heap, merges)
           /\ heap \in SUBSET (Nat \X Nat)
           /\ textTokens \in [1 .. Len(textTokens) -> Ids(merges)]
           /\ \E pos : Encodes(pos, text, textTokens, prev, nxt, alive, heap, merges)
<1>1. /\ MergesLearned(merges)
      /\ EncodeTyped(text, textTokens, prev, nxt, alive, heap, merges)
      /\ \E pos : Encodes(pos, text, textTokens, prev, nxt, alive, heap, merges)
  BY DEF BpeInv
<1>2. Base \in Nat /\ Len(merges) \in Nat
  BY <1>1, BpeFacts DEF MergesLearned
<1>3. Ids(merges) \subseteq Nat
  BY <1>2 DEF Ids
<1>4. textTokens \in Seq(Ids(merges))
  BY <1>1 DEF EncodeTyped
<1>5. Len(textTokens) \in Nat /\ textTokens \in [1 .. Len(textTokens) -> Ids(merges)]
  <2>1. \A S : \A u \in Seq(S) : Len(u) \in Nat /\ u \in [1 .. Len(u) -> S]
    OBVIOUS
  <2> QED
    BY Zenon, <1>4, <2>1
<1>6. heap \in SUBSET ((0 .. Len(merges) - 1) \X (1 .. Len(textTokens)))
  BY <1>1 DEF EncodeTyped
<1>7. heap \in SUBSET (Nat \X Nat)
  BY <1>2, <1>5, <1>6
<1> QED
  BY <1>1, <1>2, <1>3, <1>5, <1>7

\* A stale entry may go: the entries the heap has to have are not stale.
LEMMA SkipStaleStep ==
    ASSUME Tokenizer!BpeAssumption, BpeInv, Tokenizer!SkipStale
    PROVE  BpeInv'
<1> DEFINE least == Tokenizer!Least
           n == Len(textTokens)
<1>1. /\ bpePc = "encode" /\ bpePc' = "encode" /\ heap # {}
      /\ Tokenizer!Stale(least[1], least[2])
      /\ heap' = heap \ {least}
      /\ merges' = merges /\ text' = text /\ textTokens' = textTokens
      /\ prev' = prev /\ nxt' = nxt /\ alive' = alive
  BY DEF Tokenizer!SkipStale
<1>2. /\ MergesLearned(merges) /\ n \in Nat
      /\ EncodeTyped(text, textTokens, prev, nxt, alive, heap, merges)
  BY <1>1, Encoding
<1>3. PICK pos : Encodes(pos, text, textTokens, prev, nxt, alive, heap, merges)
  BY <1>1, Encoding
<1>4. Links(pos, n, alive, nxt, prev) /\ Complete(pos, textTokens, merges, heap)
  BY <1>3 DEF Encodes
<1>o. Len(pos) \in Nat /\ \A k \in 1 .. Len(pos) : pos[k] \in 1 .. n
  BY <1>2, <1>4, OrderedInto DEF Links
<1> HIDE DEF least, n
<1>5. ASSUME NEW k \in 1 .. Len(pos) - 1, NEW m \in 1 .. Len(merges),
             merges[m] = <<textTokens[pos[k]], textTokens[pos[k + 1]]>>
      PROVE  <<m - 1, pos[k]>> \in heap \ {least}
  <2>1. <<m - 1, pos[k]>> \in heap
    BY <1>4, <1>5 DEF Complete
  <2>2. ASSUME least = <<m - 1, pos[k]>> PROVE FALSE
    <3>1. least[1] = m - 1 /\ least[2] = pos[k] /\ pos[k] \in 1 .. n
      BY <1>o, <2>2
    <3>2. ~Tokenizer!Stale(m - 1, pos[k])
      BY <1>2, <1>4, <1>5, <3>1, FreshEntry DEF n
    <3> QED
      BY <1>1, <3>1, <3>2
  <2> QED
    BY <2>1, <2>2
<1>6. Complete(pos, textTokens, merges, heap \ {least})
  BY <1>5 DEF Complete
<1>7. Encodes(pos, text, textTokens, prev, nxt, alive, heap \ {least}, merges)
  BY <1>3, <1>6 DEF Encodes
<1>8. EncodeTyped(text, textTokens, prev, nxt, alive, heap \ {least}, merges)
  BY <1>2 DEF EncodeTyped
<1> QED
  BY <1>1, <1>2, <1>7, <1>8 DEF BpeInv

\* The least entry is of the leftmost place of the first merge there is a pair of.
LEMMA LeastIsFirst ==
    ASSUME NEW n \in Nat, NEW pos, Ordered(pos, n), MergesLearned(merges),
           Complete(pos, textTokens, merges, heap), heap \in SUBSET (Nat \X Nat), heap # {},
           NEW s, NEW S, Spelled(s, textTokens, pos, S),
           NEW p \in 1 .. Len(pos) - 1, NEW r \in 1 .. Len(merges),
           merges[r] = <<textTokens[pos[p]], textTokens[pos[p + 1]]>>,
           Tokenizer!Least = <<r - 1, pos[p]>>
    PROVE  FirstPair(s, merges, r, p)
<1> DEFINE N == Len(pos)
           m == Len(merges)
<1>1. /\ N \in Nat /\ m \in Nat /\ (\A k \in 1 .. N : pos[k] \in 1 .. n)
      /\ \A a, b \in 1 .. N : a < b => pos[a] < pos[b]
  <2>1. N \in Nat /\ \A k \in 1 .. N : pos[k] \in 1 .. n
    BY OrderedInto
  <2>2. m \in Nat
    BY DEF MergesLearned
  <2>3. \A a, b \in 1 .. N : a < b => pos[a] < pos[b]
    BY DEF Ordered
  <2> QED
    BY <2>1, <2>2, <2>3
<1>2. Len(s) = N /\ \A k \in 1 .. N : s[k] = textTokens[pos[k]]
  BY DEF Spelled
<1>3. \A k \in 1 .. N - 1 : s[k] = textTokens[pos[k]] /\ s[k + 1] = textTokens[pos[k + 1]]
  <2> HIDE DEF N
  <2>1. \A k \in 1 .. N - 1 : k \in 1 .. N /\ k + 1 \in 1 .. N
    BY SMTT(30), <1>1
  <2> QED
    BY <1>2, <2>1
<1>4. \A e \in heap : <<r - 1, pos[p]>> = e \/ Tokenizer!Before(<<r - 1, pos[p]>>, e)
  BY LeastOfHeap
<1>5. ASSUME NEW k \in 1 .. N - 1, NEW q \in 1 .. m, merges[q] = <<s[k], s[k + 1]>>
      PROVE  r < q \/ (r = q /\ pos[p] <= pos[k])
  <2>1. <<q - 1, pos[k]>> \in heap
    BY <1>3, <1>5 DEF Complete
  <2>2. CASE <<r - 1, pos[p]>> = <<q - 1, pos[k]>>
    <3>1. r - 1 = q - 1 /\ pos[p] = pos[k]
      BY <2>2
    <3>2. p \in 1 .. N
      BY <1>1
    <3> QED
      BY <1>1, <3>1, <3>2
  <2>3. CASE Tokenizer!Before(<<r - 1, pos[p]>>, <<q - 1, pos[k]>>)
    <3>1. r - 1 < q - 1 \/ (r - 1 = q - 1 /\ pos[p] < pos[k])
      BY <2>3 DEF Tokenizer!Before
    <3>2. p \in 1 .. N /\ k \in 1 .. N
      BY SMTT(30), <1>1
    <3> QED
      BY SMTT(30), <1>1, <3>1, <3>2
  <2> QED
    BY <1>4, <2>1, <2>2, <2>3
<1> HIDE DEF N, m
<1>6. Joins(s, merges[r], p)
  BY <1>2, <1>3 DEF Joins, N
<1>7. ASSUME NEW k \in 1 .. p - 1, Joins(s, merges[r], k) PROVE FALSE
  <2>1. k \in 1 .. N - 1 /\ k \in 1 .. N /\ p \in 1 .. N /\ k < p
    BY <1>1 DEF N
  <2>2. merges[r] = <<s[k], s[k + 1]>>
    BY <1>7 DEF Joins
  <2>3. pos[p] <= pos[k]
    BY <1>1, <1>5, <2>1, <2>2 DEF m
  <2>4. pos[k] < pos[p] /\ pos[k] \in 1 .. n /\ pos[p] \in 1 .. n
    BY <1>1, <2>1
  <2> QED
    BY SMTT(30), <2>3, <2>4
<1>8. ASSUME NEW q \in 1 .. r - 1, merges[q] \in Tokenizer!Pairs(s) PROVE FALSE
  <2>1. PICK k \in 1 .. N - 1 : merges[q] = <<s[k], s[k + 1]>>
    BY <1>2, <1>8 DEF Tokenizer!Pairs
  <2>2. q \in 1 .. m
    BY <1>1 DEF m
  <2>3. r < q \/ r = q
    BY <1>5, <2>1, <2>2
  <2> QED
    BY <1>1, <2>3
<1> QED
  BY <1>6, <1>7, <1>8 DEF FirstPair

\* k is the position after the two of the pair at p, and the entries e that its merge exposes
\* are in g.
AtExposed(pos, p, token, k, e, g) ==
    /\ k = nxt[nxt[pos[p]]] /\ e = Tokenizer!Exposed(token, pos[p], prev[pos[p]], k)
    /\ e \subseteq g

\* They are entries of ranks and positions there are.
ExposedTyped(k, e, n) == k \in Nat /\ e \subseteq (0 .. Len(merges) - 1) \X (1 .. n)

\* What a merge adds to the heap is what it has to.
LEMMA ExposedAdds ==
    ASSUME MergesLearned(merges), NEW n \in Nat, Len(textTokens) = n,
           NEW pos, Links(pos, n, alive, nxt, prev), NEW p \in 1 .. Len(pos) - 1,
           NEW token, NEW k, NEW e, NEW g, AtExposed(pos, p, token, k, e, g)
    PROVE  Adds(pos, textTokens, merges, p, token, g) /\ ExposedTyped(k, e, n)
<1> DEFINE N == Len(pos)
           i == pos[p]
           l == prev[i]
           before == Tokenizer!Entry(l, textTokens[l], token)
           after == Tokenizer!Entry(i, token, textTokens[k])
<1>0. /\ k = nxt[nxt[i]] /\ e = Tokenizer!Exposed(token, i, l, k) /\ e \subseteq g
  BY DEF AtExposed
<1>1. N \in Nat /\ (\A m \in 1 .. N : pos[m] \in 1 .. n)
  BY OrderedInto DEF Links
<1>2. \A m \in 1 .. N : /\ nxt[pos[m]] = IF m < N THEN pos[m + 1] ELSE n + 1
                        /\ prev[pos[m]] = IF m > 1 THEN pos[m - 1] ELSE 0
  BY DEF Links
<1>3. p \in 1 .. N /\ p + 1 \in 1 .. N /\ p < N /\ i \in 1 .. n
  BY <1>1
<1>4. nxt[i] = pos[p + 1]
  BY <1>2, <1>3
<1>5. k = IF p + 1 < N THEN pos[(p + 1) + 1] ELSE n + 1
  BY <1>0, <1>2, <1>3, <1>4
<1>6. l = IF p > 1 THEN pos[p - 1] ELSE 0
  BY <1>2, <1>3
<1>7. e = (IF l >= 1 THEN before ELSE {}) \cup (IF k <= n THEN after ELSE {})
  BY <1>0 DEF Tokenizer!Exposed
<1> HIDE DEF N, i, l, before, after
<1>8. p > 1 => l \in 1 .. n /\ l = pos[p - 1] /\ before \subseteq g
  <2> HAVE p > 1
  <2>1. p - 1 \in 1 .. N
    BY <1>1, <1>3
  <2>2. l \in 1 .. n /\ l = pos[p - 1] /\ l >= 1
    BY <1>1, <1>6, <2>1
  <2> QED
    BY <1>0, <1>7, <2>2
<1>9. p + 1 < N => k \in 1 .. n /\ k = pos[p + 2] /\ after \subseteq g
  <2> HAVE p + 1 < N
  <2>1. (p + 1) + 1 \in 1 .. N /\ (p + 1) + 1 = p + 2
    BY <1>1, <1>3
  <2>2. k \in 1 .. n /\ k = pos[p + 2] /\ k <= n
    BY <1>1, <1>5, <2>1
  <2> QED
    BY <1>0, <1>7, <2>2
<1>10. ASSUME NEW m \in 1 .. Len(merges)
       PROVE  /\ p > 1 /\ merges[m] = <<textTokens[pos[p - 1]], token>> => <<m - 1, pos[p - 1]>> \in g
              /\ p + 1 < N /\ merges[m] = <<token, textTokens[pos[p + 2]]>> => <<m - 1, i>> \in g
  <2>1. ASSUME p > 1, merges[m] = <<textTokens[pos[p - 1]], token>>
        PROVE  <<m - 1, pos[p - 1]>> \in g
    <3>1. merges[m] = <<textTokens[l], token>>
      BY <1>8, <2>1
    <3>2. before = {<<m - 1, l>>}
      BY <3>1, EntryIs DEF before
    <3> QED
      BY <1>8, <2>1, <3>2
  <2>2. ASSUME p + 1 < N, merges[m] = <<token, textTokens[pos[p + 2]]>>
        PROVE  <<m - 1, i>> \in g
    <3>1. merges[m] = <<token, textTokens[k]>>
      BY <1>9, <2>2
    <3>2. after = {<<m - 1, i>>}
      BY <3>1, EntryIs DEF after
    <3> QED
      BY <1>9, <2>2, <3>2
  <2> QED
    BY <2>1, <2>2
<1>11. Adds(pos, textTokens, merges, p, token, g)
  BY <1>10 DEF Adds, N, i
<1>12. k \in Nat
  BY <1>3, <1>5, <1>9
<1>13. l >= 1 => before \subseteq (0 .. Len(merges) - 1) \X (1 .. n)
  <2> HAVE l >= 1
  <2>1. l \in 1 .. n
    BY <1>3, <1>6, <1>8
  <2> QED
    BY <2>1, EntryTyped DEF before
<1>14. after \subseteq (0 .. Len(merges) - 1) \X (1 .. n)
  BY <1>3, EntryTyped DEF after
<1>15. e \subseteq (0 .. Len(merges) - 1) \X (1 .. n)
  BY <1>7, <1>13, <1>14
<1> QED
  BY <1>11, <1>12, <1>15 DEF ExposedTyped

\* The least entry that is not stale merges the leftmost place of the first merge there is: what
\* all the merges make of the living tokens, and the bytes they spell, stay the same.
LEMMA MergePairStep ==
    ASSUME Tokenizer!BpeAssumption, BpeInv, Tokenizer!MergePair
    PROVE  BpeInv'
<1> DEFINE n == Len(textTokens)
           S == Ids(merges)
           R == (0 .. Len(merges) - 1) \X (1 .. n)
           rank == Tokenizer!Least[1]
           i == Tokenizer!Least[2]
           j == nxt[i]
           k == nxt[j]
           token == Base + rank
           tok == textTokens'
           exposed == Tokenizer!Exposed(token, i, prev[i], k)
<1>1. /\ bpePc = "encode" /\ bpePc' = "encode" /\ heap # {}
      /\ ~Tokenizer!Stale(rank, i)
      /\ textTokens' = [textTokens EXCEPT ![i] = token]
      /\ alive' = [alive EXCEPT ![j] = FALSE]
      /\ nxt' = [nxt EXCEPT ![i] = k]
      /\ prev' = IF k <= n THEN [prev EXCEPT ![k] = i] ELSE prev
      /\ heap' = (heap \ {Tokenizer!Least}) \cup exposed
      /\ merges' = merges /\ text' = text
  BY DEF Tokenizer!MergePair
<1>2. /\ MergesLearned(merges) /\ Base \in Nat /\ Len(merges) \in Nat /\ n \in Nat
      /\ S \subseteq Nat
      /\ EncodeTyped(text, textTokens, prev, nxt, alive, heap, merges)
      /\ heap \in SUBSET (Nat \X Nat) /\ textTokens \in [1 .. n -> S]
  BY <1>1, Encoding
<1>3. PICK pos : Encodes(pos, text, textTokens, prev, nxt, alive, heap, merges)
  BY <1>1, Encoding
<1>4. /\ Links(pos, n, alive, nxt, prev) /\ Complete(pos, textTokens, merges, heap)
      /\ AppliedBy(merges, SpelledAt(textTokens, pos)) = AppliedBy(merges, text)
      /\ DecodedBy(merges, SpelledAt(textTokens, pos)) = text
  BY <1>3 DEF Encodes
<1>5. Ordered(pos, n)
  BY <1>4 DEF Links
<1>6. prev \in [1 .. n -> Nat] /\ nxt \in [1 .. n -> Nat] /\ alive \in [1 .. n -> BOOLEAN]
      /\ heap \in SUBSET R /\ text \in Seq(0 .. Base - 1)
  BY <1>2 DEF EncodeTyped
<1>7. Tokenizer!Least \in heap
  BY <1>1, <1>2, LeastOfHeap
<1>8. Tokenizer!Least = <<rank, i>> /\ i \in 1 .. n
  <2>1. Tokenizer!Least \in R
    BY <1>6, <1>7
  <2> QED
    BY <2>1
<1> HIDE DEF n, S, R, rank, i, j, k, token, tok, exposed
<1>9. PICK p \in 1 .. Len(pos) - 1 :
        /\ i = pos[p] /\ nxt[i] = pos[p + 1]
        /\ \E r \in 1 .. Len(merges) :
             merges[r] = <<textTokens[i], textTokens[nxt[i]]>> /\ rank = r - 1
  <2>1. Len(textTokens) = n
    BY DEF n
  <2>2. Describes(pos, rank, i)
    BY Zenon, <1>1, <1>2, <1>4, <1>8, <2>1, FreshEntry
  <2> QED
    BY Zenon, <2>2 DEF Describes
<1>10. PICK r \in 1 .. Len(merges) :
         merges[r] = <<textTokens[pos[p]], textTokens[pos[p + 1]]>> /\ rank = r - 1
  BY <1>9
<1>11. token \in S /\ token = Base + r - 1 /\ token \in Nat
  <2>1. token = Base + rank /\ rank = r - 1
    BY Zenon, <1>10 DEF token
  <2>2. S = 0 .. Base + Len(merges) - 1
    BY DEF S, Ids
  <2> QED
    BY <1>2, <2>1, <2>2
<1> DEFINE s == SpelledAt(textTokens, pos)
<1>12. Spelled(s, textTokens, pos, S)
  BY Zenon, <1>2, <1>5, SpelledSeq
<1>13. FirstPair(s, merges, r, p)
  <2>1. Tokenizer!Least = <<r - 1, pos[p]>>
    BY Zenon, <1>8, <1>9, <1>10
  <2> HIDE DEF s
  <2> QED
    BY <1>1, <1>2, <1>4, <1>5, <1>10, <1>12, <2>1, LeastIsFirst
<1>14. PICK less : Without(pos, p, less) /\ Ordered(less, n)
  BY <1>2, <1>5, WithoutOrdered
<1>15. Links(less, n, alive', nxt', prev')
  <2>1. /\ alive' = [alive EXCEPT ![j] = FALSE] /\ nxt' = [nxt EXCEPT ![i] = k]
        /\ prev' = IF k <= n THEN [prev EXCEPT ![k] = i] ELSE prev
    BY <1>1
  <2>2. i = pos[p] /\ j = nxt[i] /\ k = nxt[j]
    BY <1>9 DEF j, k
  <2> QED
    BY <1>2, <1>4, <1>6, <1>14, <2>1, <2>2, LinksWithout
<1> DEFINE t == SpelledAt(tok, less)
<1>16. tok = [textTokens EXCEPT ![pos[p]] = token]
  BY <1>1, <1>9 DEF tok
<1>17. Merged(s, p, token, t)
  <2> HIDE DEF tok
  <2> QED
    BY <1>2, <1>5, <1>11, <1>14, <1>16, SpelledMerges
<1>18. tok \in [1 .. n -> S] /\ tok \in Seq(S) /\ Len(tok) = n
  <2>1. tok \in [1 .. n -> S]
    BY <1>2, <1>11, <1>16
  <2>2. \A T : \A u \in [1 .. n -> T] : u \in Seq(T) /\ Len(u) = n
    BY <1>2
  <2> QED
    BY Zenon, <2>1, <2>2
<1>19. Spelled(t, tok, less, S)
  BY Zenon, <1>2, <1>14, <1>18, SpelledSeq
<1>20. s \in Seq(S) /\ t \in Seq(S)
  BY <1>12, <1>19 DEF Spelled
<1> HIDE DEF s, t
<1>21. s \in Seq(Nat) /\ t \in Seq(Nat)
  <2>1. ASSUME NEW u \in Seq(S) PROVE u \in Seq(Nat)
    <3>1. Len(u) \in Nat /\ u \in [1 .. Len(u) -> S]
      OBVIOUS
    <3>2. u \in [1 .. Len(u) -> Nat]
      BY <1>2, <3>1
    <3>3. \A m \in Nat : \A w \in [1 .. m -> Nat] : w \in Seq(Nat)
      OBVIOUS
    <3> QED
      BY Zenon, <3>1, <3>2, <3>3
  <2> QED
    BY <1>20, <2>1
<1>22. AppliedBy(merges, s) = AppliedBy(merges, t)
  BY <1>2, <1>11, <1>13, <1>17, <1>21, AppliedMerged
<1>23. DecodedBy(merges, s) = DecodedBy(merges, t)
  <2>1. Joins(s, merges[r], p)
    BY <1>13 DEF FirstPair
  <2> QED
    BY <1>2, <1>11, <1>17, <1>20, <2>1, DecodedMerged DEF S
<1>24. /\ Adds(pos, textTokens, merges, p, token, heap')
       /\ k \in Nat /\ exposed \subseteq R
  <2> DEFINE g == heap'
  <2>1. AtExposed(pos, p, token, k, exposed, g)
    BY <1>1, <1>9 DEF AtExposed, exposed, j, k
  <2>2. Len(textTokens) = n
    BY DEF n
  <2> HIDE DEF g
  <2>3. Adds(pos, textTokens, merges, p, token, g) /\ ExposedTyped(k, exposed, n)
    BY Zenon, <1>2, <1>4, <2>1, <2>2, ExposedAdds
  <2> QED
    BY <2>3 DEF g, R, ExposedTyped
<1>25. Complete(less, tok, merges, heap')
  <2>1. heap \ {<<rank, pos[p]>>} \subseteq heap'
    BY <1>1, <1>8, <1>9
  <2> DEFINE g == heap'
  <2>2. Keeps(heap, rank, pos[p], g) /\ Adds(pos, textTokens, merges, p, token, g)
    BY <1>24, <2>1 DEF Keeps
  <2> HIDE DEF g
  <2>3. Complete(less, tok, merges, g)
    <3>1. SetTo(textTokens, pos[p], token, tok)
      BY <1>16 DEF SetTo
    <3> QED
      BY ZenonT(40), <1>2, <1>4, <1>5, <1>14, <2>2, <3>1, CompleteMerge
  <2> QED
    BY <2>3 DEF g
<1>26. EncodeTyped(text, tok, prev', nxt', alive', heap', merges)
  <2>1. heap' \in SUBSET R
    BY <1>1, <1>6, <1>24
  <2>2. prev' \in [1 .. n -> Nat] /\ nxt' \in [1 .. n -> Nat] /\ alive' \in [1 .. n -> BOOLEAN]
    <3>1. nxt' \in [1 .. n -> Nat]
      BY <1>1, <1>6, <1>24
    <3>2. alive' \in [1 .. n -> BOOLEAN]
      BY <1>1, <1>6
    <3>3. i \in Nat
      BY <1>2, <1>8
    <3>4. prev' \in [1 .. n -> Nat]
      BY <1>1, <1>6, <3>3
    <3> QED
      BY <3>1, <3>2, <3>4
  <2> QED
    BY <1>6, <1>18, <2>1, <2>2 DEF EncodeTyped, R, S
<1>27. Encodes(less, text, tok, prev', nxt', alive', heap', merges)
  BY <1>4, <1>15, <1>18, <1>22, <1>23, <1>25 DEF Encodes, s, t
<1> QED
  BY <1>1, <1>2, <1>26, <1>27 DEF BpeInv, tok

\* Every step keeps the invariant.
LEMMA BpeStep ==
    ASSUME Tokenizer!BpeAssumption, BpeInv, [Tokenizer!Next]_(Tokenizer!vars)
    PROVE  BpeInv'
<1>1. CASE Tokenizer!Learn
  BY <1>1, LearnStep
<1>2. CASE Tokenizer!BeginEncode
  BY <1>2, BeginEncodeStep
<1>3. CASE Tokenizer!SkipStale
  BY <1>3, SkipStaleStep
<1>4. CASE Tokenizer!MergePair
  BY <1>4, MergePairStep
<1>5. CASE Tokenizer!EndEncode
  <2>1. /\ bpePc = "encode" /\ bpePc' = "encoded" /\ heap = {} /\ heap' = {}
        /\ UNCHANGED <<merges, text, textTokens, prev, nxt, alive>>
    BY <1>5 DEF Tokenizer!EndEncode
  <2> QED
    BY <2>1 DEF BpeInv
<1>6. CASE UNCHANGED Tokenizer!vars
  BY <1>6 DEF BpeInv, Tokenizer!vars
<1> QED
  BY <1>1, <1>2, <1>3, <1>4, <1>5, <1>6 DEF Tokenizer!Next

\* A linked list of the living positions has what lives, and nothing else, between neighbours.
LEMMA NeighboursLive ==
    ASSUME NEW n \in Nat, NEW pos, Links(pos, n, alive, nxt, prev), NEW i \in 1 .. n, alive[i]
    PROVE  /\ nxt[i] <= n => alive[nxt[i]] /\ prev[nxt[i]] = i
           /\ \A j \in 1 .. n : i < j /\ j < nxt[i] => ~alive[j]
<1> DEFINE N == Len(pos)
<1>1. N \in Nat /\ \A k \in 1 .. N : pos[k] \in 1 .. n
  BY OrderedInto DEF Links
<1>2. \A a, b \in 1 .. N : a < b => pos[a] < pos[b]
  BY DEF Links, Ordered
<1>3. \A k \in 1 .. N : /\ nxt[pos[k]] = IF k < N THEN pos[k + 1] ELSE n + 1
                        /\ prev[pos[k]] = IF k > 1 THEN pos[k - 1] ELSE 0
  BY DEF Links
<1>4. \A x \in 1 .. n : alive[x] <=> \E k \in 1 .. N : x = pos[k]
  <2>1. Living(alive, n) = {pos[k] : k \in 1 .. N}
    BY DEF Links
  <2> QED
    BY <2>1 DEF Living
<1> HIDE DEF N
<1>5. PICK a \in 1 .. N : i = pos[a]
  BY <1>4
<1>6. ASSUME nxt[i] <= n PROVE alive[nxt[i]] /\ prev[nxt[i]] = i
  <2>1. a < N
    BY <1>3, <1>5, <1>6
  <2>2. a + 1 \in 1 .. N /\ a + 1 > 1 /\ (a + 1) - 1 = a
    BY <1>1, <2>1
  <2>3. nxt[i] = pos[a + 1]
    BY <1>3, <1>5, <2>1
  <2>4. alive[pos[a + 1]]
    BY <1>1, <1>4, <2>2
  <2>5. prev[pos[a + 1]] = pos[a]
    BY <1>3, <2>2
  <2> QED
    BY <1>5, <2>3, <2>4, <2>5
<1>7. ASSUME NEW j \in 1 .. n, i < j, j < nxt[i], alive[j] PROVE FALSE
  <2>1. PICK b \in 1 .. N : j = pos[b]
    BY <1>4, <1>7
  <2>2. a < b
    <3>1. ~(b = a)
      BY <1>5, <1>7, <2>1
    <3>2. ~(b < a)
      <4> SUFFICES ASSUME b < a PROVE FALSE
        OBVIOUS
      <4>1. pos[b] < pos[a]
        BY <1>2
      <4> QED
        BY <1>5, <1>7, <2>1, <4>1
    <3> QED
      BY <1>1, <3>1, <3>2
  <2>3. a < N /\ a + 1 \in 1 .. N
    BY <1>1, <2>2
  <2>4. nxt[i] = pos[a + 1]
    BY <1>3, <1>5, <2>3
  <2>5. pos[a + 1] <= pos[b]
    <3>1. CASE a + 1 = b
      BY <1>1, <2>3, <3>1
    <3>2. CASE a + 1 < b
      <4>1. pos[a + 1] < pos[b]
        BY <1>2, <2>3, <3>2
      <4> QED
        BY <1>1, <2>3, <4>1
    <3> QED
      BY <1>1, <2>2, <3>1, <3>2
  <2>6. pos[a + 1] \in 1 .. n
    BY <1>1, <2>3
  <2> QED
    BY <1>7, <2>1, <2>4, <2>5, <2>6
<1> QED
  BY <1>6, <1>7

\* "Output is identical to applying the learned merges in training order"
\* (tokenizer.py:250-256), for every number of bytes, of merges and every length of the document
\* and the text: the heap comes to the tokens of the merges one after the other, and at every
\* step of it the living tokens spell the text (tokenizer.py:247-288).
THEOREM EncodingIsExact == Tokenizer!Spec => []EncodeExact
<1>1. Tokenizer!Init => BpeInv
  BY TokenizerParameters, BpeStart
<1>2. BpeInv /\ [Tokenizer!Next]_(Tokenizer!vars) => BpeInv'
  BY TokenizerParameters, BpeStep
<1>3. BpeInv => EncodeExact
  <2> SUFFICES ASSUME BpeInv, bpePc # "train"
               PROVE  Tokenizer!EncodesAsTrained /\ Tokenizer!SpellsText
    BY DEF EncodeExact, Tokenizer!EncodeExact, Tokenizer!EncodesAsTrained, Tokenizer!SpellsText
  <2> DEFINE n == Len(textTokens)
             S == Ids(merges)
  <2>1. /\ MergesLearned(merges) /\ Base \in Nat /\ n \in Nat /\ S \subseteq Nat
        /\ textTokens \in [1 .. n -> S]
    BY TokenizerParameters, Encoding
  <2>2. PICK pos : Encodes(pos, text, textTokens, prev, nxt, alive, heap, merges)
    BY DEF BpeInv
  <2> DEFINE s == SpelledAt(textTokens, pos)
  <2>3. /\ Links(pos, n, alive, nxt, prev) /\ Complete(pos, textTokens, merges, heap)
        /\ AppliedBy(merges, s) = AppliedBy(merges, text) /\ DecodedBy(merges, s) = text
    BY <2>2 DEF Encodes
  <2>4. /\ Ordered(pos, n) /\ Living(alive, n) = {pos[k] : k \in 1 .. Len(pos)}
        /\ DOMAIN textTokens = 1 .. n
    BY <2>1, <2>3 DEF Links
  <2>5. Spelled(s, textTokens, pos, S)
    BY Zenon, <2>1, <2>4, SpelledSeq
  <2> HIDE DEF n, s, S
  <2>6. Tokenizer!Encoded = s
    BY <2>1, <2>4, EncodedIs DEF s
  <2>7. Tokenizer!SpellsText
    <3>1. Tokenizer!Decoded(Tokenizer!Encoded) = text
      BY Zenon, <2>3, <2>6, DecodedOf
    <3>2. \A i \in 1 .. n : alive[i] =>
            /\ nxt[i] <= n => alive[nxt[i]] /\ prev[nxt[i]] = i
            /\ \A j \in 1 .. n : i < j /\ j < nxt[i] => ~alive[j]
      BY <2>1, <2>3, NeighboursLive
    <3> QED
      BY <2>4, <3>1, <3>2 DEF Tokenizer!SpellsText, n
  <2>8. ASSUME bpePc = "encoded" PROVE Tokenizer!Encoded = Tokenizer!Applied(text)
    <3>1. heap = {}
      BY <2>8 DEF BpeInv
    <3>2. s \in Seq(S) /\ Len(s) = Len(pos) /\ Len(pos) \in Nat
          /\ \A k \in 1 .. Len(pos) : s[k] = textTokens[pos[k]]
      BY <2>1, <2>4, <2>5, OrderedInto DEF Spelled
    <3>3. ASSUME NEW m \in 1 .. Len(merges), merges[m] \in Tokenizer!Pairs(s) PROVE FALSE
      <4>1. PICK k \in 1 .. Len(pos) - 1 : merges[m] = <<s[k], s[k + 1]>>
        BY <3>2, <3>3 DEF Tokenizer!Pairs
      <4>2. k \in 1 .. Len(pos) /\ k + 1 \in 1 .. Len(pos)
        BY <3>2
      <4>3. merges[m] = <<textTokens[pos[k]], textTokens[pos[k + 1]]>>
        BY <3>2, <4>1, <4>2
      <4> QED
        BY <2>3, <3>1, <4>3 DEF Complete
    <3>4. s \in Seq(Nat)
      <4>1. s \in [1 .. Len(s) -> S] /\ Len(s) \in Nat
        BY <3>2
      <4>2. s \in [1 .. Len(s) -> Nat]
        BY <2>1, <4>1
      <4>3. \A m \in Nat : \A w \in [1 .. m -> Nat] : w \in Seq(Nat)
        OBVIOUS
      <4> QED
        BY Zenon, <4>1, <4>2, <4>3
    <3>5. AppliedBy(merges, s) = s
      BY <2>1, <3>3, <3>4, AppliedNone
    <3> QED
      BY Zenon, <2>3, <2>6, <3>5, AppliedOf
  <2> QED
    BY <2>7, <2>8 DEF Tokenizer!EncodesAsTrained
<1> QED
  BY <1>1, <1>2, <1>3, PTL DEF Tokenizer!Spec

=============================================================================
