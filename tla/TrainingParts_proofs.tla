------------------------ MODULE TrainingParts_proofs ------------------------
(***************************************************************************)
(* Theorems about the parts of TrainingParts.  The parts share no state,   *)
(* so each section speaks of the specification of one of them, with an     *)
(* inductive invariant of its own:                                         *)
(*                                                                         *)
(*   RunInv       the state of an optimizer is a function of its kind and  *)
(*                of the batches of the updates made (Pretraining)         *)
(*   PhasedInv    a phase is left with its budget consumed and by the      *)
(*                batch that consumes it, and the loss of a window is the  *)
(*                mean of its rows (Curriculum)                            *)
(*   ChainInv     a command counts its history the way the file it will    *)
(*                write does (Stages)                                      *)
(*   TrainerInv   a group is of one prompt and one version, and a pass     *)
(*                starts with an attempt left (OnPolicy); the advantages   *)
(*                of a group's rewards need no invariant, only the sums of *)
(*                Totals                                                   *)
(*   TuneInv      the reference has been asked about every pair before the *)
(*                first update (FineTuning)                                *)
(*   HostInv      the child has results only of tests that let it go on    *)
(*                (CodeReward)                                             *)
(***************************************************************************)
EXTENDS TrainingParts, Totals, FiniteSetTheorems, SequenceTheorems, WellFoundedInduction, TLAPS

\* A sequence with one more element.
LEMMA Longer ==
    ASSUME NEW S, NEW s \in Seq(S), NEW x \in S
    PROVE  /\ Append(s, x) \in Seq(S) /\ Len(Append(s, x)) = Len(s) + 1 /\ Len(s) \in Nat
           /\ Append(s, x)[Len(s) + 1] = x
           /\ \A i \in 1 .. Len(s) : Append(s, x)[i] = s[i]
OBVIOUS

\* A bounded set of numbers that is not empty has a greatest element.
LEMMA Greatest ==
    ASSUME NEW n \in Nat, NEW S \in SUBSET (1 .. n), S # {}
    PROVE  \E i \in S : \A j \in S : j <= i
<1> DEFINE T == {n - i : i \in S}
<1>1. T \subseteq Nat /\ T # {}
  <2>1. ASSUME NEW i \in S PROVE n - i \in Nat
    OBVIOUS
  <2> QED
    BY <2>1
<1> HIDE DEF T
<1>2. PICK x \in T : \A y \in T : ~(<<y, x>> \in OpToRel(<, Nat))
  BY <1>1, NatLessThanWellFounded, WFMin
<1>3. \A y \in T : ~(y < x)
  BY <1>1, <1>2 DEF OpToRel
<1>4. PICK i \in S : x = n - i
  BY DEF T
<1>5. ASSUME NEW j \in S PROVE j <= i
  <2>1. n - j \in T
    BY DEF T
  <2> QED
    BY <1>3, <1>4, <2>1
<1> QED
  BY <1>5

----------------------------------------------------------------------------
(***************************************************************************)
(* Sums (Totals).  A recursive function of numbers is defined by its       *)
(* equations, and equal to any other function that has them.               *)
(***************************************************************************)

\* Induction up to a bound, with the set of the numbers it reaches in place of a predicate.
LEMMA UpTo ==
    ASSUME NEW N \in Nat, NEW T, 0 \in T, \A n \in 0 .. N - 1 : n \in T => n + 1 \in T
    PROVE  \A n \in 0 .. N : n \in T
<1> SUFFICES ASSUME NEW n \in 0 .. N, n \notin T PROVE FALSE
  OBVIOUS
<1> DEFINE L == (0 .. N) \ T
<1>0. L \subseteq Nat /\ L # {}
  OBVIOUS
<1>1. PICK x \in L : \A y \in L : ~(<<y, x>> \in OpToRel(<, Nat))
  <2> HIDE DEF L
  <2> QED
    BY <1>0, NatLessThanWellFounded, WFMin
<1>2. \A y \in L : ~(y < x)
  <2> HIDE DEF L
  <2> QED
    BY <1>0, <1>1 DEF OpToRel
<1>3. x \in 0 .. N /\ x \notin T /\ x # 0
  OBVIOUS
<1>4. x - 1 \in 0 .. N - 1 /\ x - 1 < x /\ (x - 1) + 1 = x
  BY <1>3
<1>5. x - 1 \in T
  BY <1>2, <1>4
<1> QED
  BY <1>3, <1>4, <1>5

\* The recursive functions there are: from a base, by one step after the other.
Recurs(f, N, D, base, next) ==
    /\ f \in [0 .. N -> D] /\ f[0] = base
    /\ \A n \in 1 .. N : f[n] = next[<<n, f[n - 1]>>]

LEMMA Recursion ==
    ASSUME NEW N \in Nat, NEW D, NEW base \in D, NEW next \in [(1 .. N) \X D -> D]
    PROVE  \E f : Recurs(f, N, D, base, next)
<1> DEFINE Solves(f, k) == f = [n \in 0 .. k |-> IF n = 0 THEN base ELSE next[<<n, f[n - 1]>>]]
           T == {k \in 0 .. N : \E f \in [0 .. k -> D] : Solves(f, k)}
<1>1. 0 \in T
  <2> DEFINE f == [n \in 0 .. 0 |-> base]
  <2>1. f \in [0 .. 0 -> D] /\ Solves(f, 0)
    OBVIOUS
  <2>2. 0 \in 0 .. N
    OBVIOUS
  <2> HIDE DEF f, Solves
  <2> QED
    BY <2>1, <2>2
<1>2. ASSUME NEW k \in 0 .. N - 1, k \in T PROVE k + 1 \in T
  <2>1. PICK f \in [0 .. k -> D] : Solves(f, k)
    BY <1>2
  <2> DEFINE g == [n \in 0 .. k + 1 |-> IF n = k + 1 THEN next[<<k + 1, f[k]>>] ELSE f[n]]
  <2>2. f[k] \in D /\ <<k + 1, f[k]>> \in (1 .. N) \X D
    OBVIOUS
  <2>3. g \in [0 .. k + 1 -> D]
    BY <2>2
  <2>4. ASSUME NEW n \in 0 .. k + 1
        PROVE  g[n] = IF n = 0 THEN base ELSE next[<<n, g[n - 1]>>]
    <3>1. CASE n = k + 1
      <4>1. g[n] = next[<<k + 1, f[k]>>] /\ n # 0 /\ n - 1 = k /\ g[n - 1] = f[k]
        BY <3>1
      <4> HIDE DEF g
      <4> QED
        BY <3>1, <4>1
    <3>2. CASE n # k + 1
      <4>1. n \in 0 .. k /\ g[n] = f[n]
        BY <3>2
      <4>2. f[n] = IF n = 0 THEN base ELSE next[<<n, f[n - 1]>>]
        BY <2>1, <4>1
      <4>3. n # 0 => g[n - 1] = f[n - 1]
        BY <4>1
      <4> HIDE DEF g
      <4> QED
        BY <4>1, <4>2, <4>3
    <3> QED
      BY <3>1, <3>2
  <2>5. Solves(g, k + 1)
    <3>1. g = [n \in 0 .. k + 1 |-> g[n]]
      OBVIOUS
    <3> HIDE DEF g
    <3> QED
      BY <2>4, <3>1
  <2> HIDE DEF g, Solves
  <2> QED
    BY <2>3, <2>5
<1>3. N \in T
  <2> HIDE DEF T
  <2>1. \A n \in 0 .. N - 1 : n \in T => n + 1 \in T
    BY <1>2
  <2>2. \A n \in 0 .. N : n \in T
    BY <1>1, <2>1, UpTo
  <2> QED
    BY <2>2
<1>4. PICK f \in [0 .. N -> D] : Solves(f, N)
  BY <1>3
<1>5. f[0] = base /\ \A n \in 1 .. N : f[n] = next[<<n, f[n - 1]>>]
  BY <1>4
<1> QED
  BY <1>4, <1>5 DEF Recurs

\* Totals(s) is what its equations say, and nothing else is.
LEMMA TotalsAre ==
    ASSUME NEW s \in Seq(Int)
    PROVE  /\ Totals(s) \in [0 .. Len(s) -> Int] /\ Totals(s)[0] = 0
           /\ \A n \in 1 .. Len(s) : Totals(s)[n] = Totals(s)[n - 1] + s[n]
           /\ Total(s) = Totals(s)[Len(s)] /\ Total(s) \in Int
<1> DEFINE N == Len(s)
           next == [p \in (1 .. N) \X Int |-> p[2] + s[p[1]]]
           Solves(f) == f = [n \in 0 .. N |-> IF n = 0 THEN 0 ELSE f[n - 1] + s[n]]
           sum == CHOOSE f : Solves(f)
<1>1. Totals(s) = sum
  BY DEF Totals
<1>2. N \in Nat /\ \A n \in 1 .. N : s[n] \in Int
  OBVIOUS
<1> HIDE DEF N
<1>3. next \in [(1 .. N) \X Int -> Int]
  BY <1>2
<1>4. \A n \in 1 .. N, x \in Int : next[<<n, x>>] = x + s[n]
  OBVIOUS
<1> HIDE DEF next
<1>5. PICK f : Recurs(f, N, Int, 0, next)
  <2>1. 0 \in Int
    OBVIOUS
  <2> QED
    BY <1>2, <1>3, <2>1, Recursion
<1>6. ASSUME NEW n \in 0 .. N PROVE f[n] = IF n = 0 THEN 0 ELSE f[n - 1] + s[n]
  <2>1. CASE n = 0
    BY <1>5, <2>1 DEF Recurs
  <2>2. CASE n # 0
    <3>1. n \in 1 .. N /\ n - 1 \in 0 .. N
      BY <1>2, <2>2
    <3>2. f[n] = next[<<n, f[n - 1]>>] /\ f[n - 1] \in Int
      BY <1>5, <2>2, <3>1 DEF Recurs
    <3> QED
      BY <1>4, <2>2, <3>1, <3>2
  <2> QED
    BY <2>1, <2>2
<1>7. Solves(f)
  <2>1. f = [n \in 0 .. N |-> f[n]]
    BY <1>5 DEF Recurs
  <2> QED
    BY <1>6, <2>1
<1>8. Solves(sum)
  <2> HIDE DEF Solves
  <2> QED
    BY <1>7
<1> HIDE DEF sum
<1>9. \A n \in 0 .. N : sum[n] = IF n = 0 THEN 0 ELSE sum[n - 1] + s[n]
  BY <1>8
<1>10. \A n \in 0 .. N : sum[n] \in Int
  <2> DEFINE T == {n \in 0 .. N : sum[n] \in Int}
  <2>1. 0 \in T
    BY <1>2, <1>9
  <2>2. ASSUME NEW n \in 0 .. N - 1, n \in T PROVE n + 1 \in T
    <3>1. n + 1 \in 1 .. N /\ (n + 1) - 1 = n /\ sum[n] \in Int
      BY <1>2, <2>2
    <3>2. sum[n + 1] = sum[n] + s[n + 1]
      BY <1>9, <3>1
    <3> QED
      BY <1>2, <3>1, <3>2
  <2> HIDE DEF T
  <2>3. \A n \in 0 .. N : n \in T
    BY <1>2, <2>1, <2>2, UpTo
  <2> QED
    BY <2>3 DEF T
<1>11. sum \in [0 .. N -> Int]
  BY <1>8, <1>10
<1>12. sum[0] = 0 /\ \A n \in 1 .. N : sum[n] = sum[n - 1] + s[n]
  BY <1>2, <1>9
<1>13. sum[N] \in Int
  BY <1>2, <1>10
<1> QED
  BY <1>1, <1>11, <1>12, <1>13 DEF Total, N

LEMMA TotalsOnly ==
    ASSUME NEW s \in Seq(Int), NEW g, g[0] = 0, \A n \in 1 .. Len(s) : g[n] = g[n - 1] + s[n]
    PROVE  \A n \in 0 .. Len(s) : Totals(s)[n] = g[n]
<1> DEFINE N == Len(s)
           sum == Totals(s)
           T == {n \in 0 .. N : sum[n] = g[n]}
<1>1. N \in Nat /\ sum[0] = 0 /\ \A n \in 1 .. N : sum[n] = sum[n - 1] + s[n]
  BY TotalsAre
<1> HIDE DEF sum
<1>2. 0 \in T
  BY <1>1
<1>3. ASSUME NEW n \in 0 .. N - 1, n \in T PROVE n + 1 \in T
  <2>1. n + 1 \in 1 .. N /\ (n + 1) - 1 = n /\ sum[n] = g[n]
    BY <1>1, <1>3
  <2>2. sum[n + 1] = sum[n] + s[n + 1] /\ g[n + 1] = g[n] + s[n + 1]
    BY <1>1, <2>1
  <2> QED
    BY <1>1, <2>1, <2>2
<1> HIDE DEF T
<1>4. \A n \in 0 .. N : n \in T
  BY <1>1, <1>2, <1>3, UpTo
<1> QED
  BY <1>4 DEF T, sum

LEMMA Distributes ==
    \A x, y, z \in Int : x * (y + z) = x * y + x * z /\ x * (y - z) = x * y - x * z
OBVIOUS

\* The sum of a sequence scaled and shifted.
LEMMA TotalOfScaled ==
    ASSUME NEW s \in Seq(Int), NEW t \in Seq(Int), Len(t) = Len(s), NEW a \in Int, NEW b \in Int,
           \A n \in 1 .. Len(s) : t[n] = a * s[n] + b
    PROVE  Total(t) = a * Total(s) + Len(s) * b
<1> DEFINE N == Len(s)
           sum == Totals(s)
           g == [n \in 0 .. N |-> a * sum[n] + n * b]
<1>1. /\ N \in Nat /\ sum \in [0 .. N -> Int] /\ sum[0] = 0
      /\ \A n \in 1 .. N : sum[n] = sum[n - 1] + s[n]
      /\ Total(s) = sum[N] /\ Total(t) = Totals(t)[N] /\ \A n \in 1 .. N : s[n] \in Int
  <2>1. /\ sum \in [0 .. N -> Int] /\ sum[0] = 0 /\ Total(s) = sum[N]
        /\ \A n \in 1 .. N : sum[n] = sum[n - 1] + s[n]
    BY TotalsAre
  <2>2. Total(t) = Totals(t)[N]
    BY TotalsAre
  <2>3. N \in Nat /\ \A n \in 1 .. N : s[n] \in Int
    OBVIOUS
  <2> QED
    BY <2>1, <2>2, <2>3
<1> HIDE DEF sum, N
<1>2. g[0] = 0
  BY <1>1
<1>3. ASSUME NEW n \in 1 .. N PROVE g[n] = g[n - 1] + t[n]
  <2>1. n \in 0 .. N /\ n - 1 \in 0 .. N /\ sum[n - 1] \in Int /\ s[n] \in Int /\ n \in Int
    BY <1>1
  <2>2. sum[n] = sum[n - 1] + s[n]
    BY <1>1
  <2>3. a * sum[n] = a * sum[n - 1] + a * s[n]
    BY <2>1, <2>2, Distributes
  <2>4. n * b = (n - 1) * b + b
    BY <2>1
  <2>5. g[n] = a * sum[n] + n * b /\ g[n - 1] = a * sum[n - 1] + (n - 1) * b
    BY <2>1
  <2>6. t[n] = a * s[n] + b
    BY DEF N
  <2> DEFINE u == a * sum[n - 1]
             v == a * s[n]
             w == (n - 1) * b
  <2>7. u \in Int /\ v \in Int /\ w \in Int
    <3>1. \A x, y \in Int : x * y \in Int
      OBVIOUS
    <3>2. n - 1 \in Int
      BY <2>1
    <3> QED
      BY <2>1, <3>1, <3>2, Zenon
  <2>8. g[n] = u + v + (w + b) /\ g[n - 1] = u + w /\ t[n] = v + b
    BY <2>3, <2>4, <2>5, <2>6
  <2> HIDE DEF g, u, v, w
  <2> QED
    BY <2>7, <2>8
<1>4. g[N] = a * sum[N] + N * b
  BY <1>1
<1> HIDE DEF g
<1>5. Len(t) = N /\ N \in 0 .. N
  BY <1>1 DEF N
<1>6. \A n \in 0 .. N : Totals(t)[n] = g[n]
  BY <1>2, <1>3, <1>5, TotalsOnly
<1> QED
  BY <1>1, <1>4, <1>5, <1>6 DEF N

\* Sums of natural numbers, each of which is no more than the sum.
LEMMA TotalsOfNat ==
    ASSUME NEW s \in Seq(Nat)
    PROVE  /\ s \in Seq(Int) /\ Len(s) \in Nat /\ Total(s) \in Nat
           /\ \A n \in 0 .. Len(s) : Totals(s)[n] \in Nat
           /\ \A i \in 1 .. Len(s) : s[i] \in Nat /\ s[i] <= Total(s)
<1> DEFINE N == Len(s)
           sum == Totals(s)
           T == {n \in 0 .. N : sum[n] \in Nat /\ \A i \in 1 .. n : s[i] <= sum[n]}
<1>1. s \in Seq(Int) /\ N \in Nat /\ \A i \in 1 .. N : s[i] \in Nat
  OBVIOUS
<1>2. sum[0] = 0 /\ Total(s) = sum[N] /\ \A n \in 1 .. N : sum[n] = sum[n - 1] + s[n]
  BY <1>1, TotalsAre
<1> HIDE DEF sum
<1>3. 0 \in T
  BY <1>1, <1>2
<1>4. ASSUME NEW n \in 0 .. N - 1, n \in T PROVE n + 1 \in T
  <2>1. /\ n + 1 \in 1 .. N /\ (n + 1) - 1 = n /\ sum[n] \in Nat
        /\ \A i \in 1 .. n : s[i] <= sum[n]
    BY <1>1, <1>4
  <2>2. sum[n + 1] = sum[n] + s[n + 1] /\ s[n + 1] \in Nat
    BY <1>1, <1>2, <2>1
  <2>3. ASSUME NEW i \in 1 .. n + 1 PROVE s[i] <= sum[n + 1]
    <3>1. CASE i = n + 1
      BY <2>1, <2>2, <3>1
    <3>2. CASE i # n + 1
      <4>1. i \in 1 .. n /\ i \in 1 .. N
        BY <1>1, <3>2
      <4> QED
        BY <1>1, <2>1, <2>2, <4>1
    <3> QED
      BY <3>1, <3>2
  <2> QED
    BY <1>1, <2>1, <2>2, <2>3
<1> HIDE DEF T, N
<1>5. \A n \in 0 .. N : n \in T
  BY <1>1, <1>3, <1>4, UpTo
<1>6. \A n \in 0 .. N : sum[n] \in Nat /\ \A i \in 1 .. n : s[i] <= sum[n]
  BY <1>5 DEF T
<1>7. N \in 0 .. N
  BY <1>1
<1> QED
  BY <1>1, <1>2, <1>6, <1>7 DEF N, sum

LEMMA Shifted ==
    ASSUME NEW from \in Nat, NEW m \in Nat, NEW n \in Nat, from + m <= n, NEW i \in 1 .. m
    PROVE  /\ from + i \in 1 .. n /\ (from + i) - 1 = from + (i - 1)
           /\ i \in 0 .. m /\ i - 1 \in 0 .. m
           /\ from + (i - 1) \in 0 .. n /\ from \in 0 .. n
OBVIOUS

\* The sum of a stretch of a sequence.
LEMMA TotalOfStretch ==
    ASSUME NEW s \in Seq(Int), NEW from \in 0 .. Len(s), NEW to \in from .. Len(s),
           NEW t \in Seq(Int), Len(t) = to - from,
           \A i \in 1 .. to - from : t[i] = s[from + i]
    PROVE  Total(t) = Totals(s)[to] - Totals(s)[from]
<1> DEFINE M == to - from
           sum == Totals(s)
           g == [i \in 0 .. M |-> sum[from + i] - sum[from]]
<1>1. from \in Nat /\ to \in Nat /\ M \in Nat /\ from + M = to /\ Len(s) \in Nat /\ to <= Len(s)
  OBVIOUS
<1>2. /\ sum \in [0 .. Len(s) -> Int]
      /\ \A n \in 1 .. Len(s) : sum[n] = sum[n - 1] + s[n]
  BY TotalsAre
<1>3. Total(t) = Totals(t)[M]
  BY TotalsAre
<1> HIDE DEF sum, M
<1>4. g[0] = 0
  <2>1. 0 \in 0 .. M /\ from + 0 = from /\ from \in 0 .. Len(s)
    BY <1>1
  <2>2. sum[from] \in Int
    BY <1>2, <2>1
  <2> QED
    BY <2>1, <2>2
<1>5. ASSUME NEW i \in 1 .. M PROVE g[i] = g[i - 1] + t[i]
  <2>1. /\ from + i \in 1 .. Len(s) /\ (from + i) - 1 = from + (i - 1)
        /\ i \in 0 .. M /\ i - 1 \in 0 .. M
        /\ from + (i - 1) \in 0 .. Len(s) /\ from \in 0 .. Len(s)
    <3>1. from + M <= Len(s)
      BY <1>1
    <3> QED
      BY <1>1, <3>1, Shifted, Zenon
  <2>2. sum[from + i] = sum[from + (i - 1)] + s[from + i]
    BY <1>2, <2>1
  <2>3. t[i] = s[from + i]
    BY DEF M
  <2>4. g[i] = sum[from + i] - sum[from] /\ g[i - 1] = sum[from + (i - 1)] - sum[from]
    BY <2>1
  <2> HIDE DEF g
  <2>6. sum[from + (i - 1)] \in Int /\ sum[from] \in Int /\ s[from + i] \in Int
    <3>1. \A n \in 0 .. Len(s) : sum[n] \in Int
      BY <1>2
    <3>2. \A n \in 1 .. Len(s) : s[n] \in Int
      OBVIOUS
    <3> QED
      BY <2>1, <3>1, <3>2, Zenon
  <2> QED
    BY SMTT(20), <2>2, <2>3, <2>4, <2>6
<1>6. g[M] = sum[to] - sum[from]
  <2>1. M \in 0 .. M
    BY <1>1
  <2>2. g[M] = sum[from + M] - sum[from]
    BY <2>1
  <2> HIDE DEF g
  <2> QED
    BY <1>1, <2>2
<1> HIDE DEF g
<1>7. Len(t) = M /\ M \in 0 .. M
  BY <1>1 DEF M
<1>8. \A n \in 0 .. M : Totals(t)[n] = g[n]
  BY <1>4, <1>5, <1>7, TotalsOnly
<1> QED
  BY <1>3, <1>6, <1>7, <1>8 DEF sum

LEMMA TotalOfZeros ==
    ASSUME NEW s \in Seq(Int), \A i \in 1 .. Len(s) : s[i] = 0
    PROVE  Total(s) = 0
<1> DEFINE g == [n \in 0 .. Len(s) |-> 0]
<1>1. g[0] = 0 /\ \A n \in 1 .. Len(s) : g[n] = g[n - 1] + s[n]
  OBVIOUS
<1>2. Len(s) \in 0 .. Len(s) /\ g[Len(s)] = 0
  OBVIOUS
<1> HIDE DEF g
<1>3. Totals(s)[Len(s)] = g[Len(s)]
  BY <1>1, <1>2, TotalsOnly
<1> QED
  BY <1>2, <1>3, TotalsAre

----------------------------------------------------------------------------
(***************************************************************************)
(* Pretraining.  The state of the optimizer, in the process and in a file, *)
(* is a function of its kind and of the batches of the updates made.       *)
(***************************************************************************)

Kinds == {"adamw", "adafactor", "muon"}

BatchId == Int \X Int

Updates ==
    [batch : BatchId, lr : {"warmup", "constant", "cosine"} \X Int, corrected : Int, bias : Int]

BatchesOf(w) == [i \in 1 .. Len(w) |-> w[i].batch]

\* The slots of a path after the gradients gs.
SlotsOf(kind, path, gs) ==
    IF kind = "adamw" THEN [m |-> gs, v |-> gs]
    ELSE IF kind = "muon" THEN [momentum |-> gs]
    ELSE IF path = "matrix" THEN [row |-> gs, col |-> gs, v |-> <<>>]
    ELSE [row |-> <<>>, col |-> <<>>, v |-> gs]

OptimizerOf(kind, n, gs) ==
    [kind |-> kind, step |-> n, slots |-> [path \in Run!Paths |-> SlotsOf(kind, path, gs)]]

\* Parameters, optimizer, scheduler and step of one history.
Made(w, o, lrs, n) ==
    /\ w \in Seq(Updates) /\ Len(w) = n /\ lrs = n
    /\ \A i \in 1 .. n : w[i].lr = Run!LrAt(i - 1) /\ w[i].corrected = i
    /\ \E kind \in Kinds : o = OptimizerOf(kind, n, BatchesOf(w))

RunInv ==
    /\ epoch \in Int /\ index \in Int /\ bias \in Int
    /\ runPc \in {"down", "refused", "loop", "save", "final", "done"}
    /\ runPc \in {"loop", "save", "final"} => Made(params, opt, scheduled, runStep)
    /\ \A f \in DOMAIN files :
          files[f].state = "whole" =>
             Made(files[f].weights, files[f].opt, files[f].scheduled, files[f].step)

LEMMA RunFacts ==
    ASSUME Run!PretrainingAssumption
    PROVE  /\ RunSteps \in Nat /\ RunBatches \in Nat /\ Micro \in Nat /\ Warmup \in Nat
           /\ Schedule \in {"constant", "cosine"} /\ Optimizers \subseteq Kinds
BY DEF Run!PretrainingAssumption, Kinds

LEMMA LrTyped ==
    ASSUME Run!PretrainingAssumption, NEW n \in Nat
    PROVE  Run!LrAt(n) \in {"warmup", "constant", "cosine"} \X Int
BY RunFacts DEF Run!LrAt

\* A new optimizer has absorbed nothing.
LEMMA NewIsEmpty ==
    ASSUME NEW kind \in Kinds PROVE Run!NewOptimizer(kind) = OptimizerOf(kind, 0, <<>>)
<1>1. CASE kind = "adamw"
  BY <1>1 DEF Run!NewOptimizer, Run!NoSlots, OptimizerOf, SlotsOf
<1>2. CASE kind = "adafactor"
  BY <1>2 DEF Run!NewOptimizer, Run!NoSlots, OptimizerOf, SlotsOf
<1>3. CASE kind = "muon"
  BY <1>3 DEF Run!NewOptimizer, Run!NoSlots, OptimizerOf, SlotsOf
<1> QED
  BY <1>1, <1>2, <1>3 DEF Kinds

\* One step of the slots of a path.
LEMMA TwoSlots ==
    ASSUME NEW a, NEW b, NEW c, NEW h
    PROVE  [[row |-> a, col |-> b, v |-> c] EXCEPT !.row = h, !.col = h]
             = [row |-> h, col |-> h, v |-> c]
<1> DEFINE r == [row |-> a, col |-> b, v |-> c]
           s == [r EXCEPT !.row = h]
<1>1. s = [row |-> h, col |-> b, v |-> c]
  OBVIOUS
<1>2. [r EXCEPT !.row = h, !.col = h] = [s EXCEPT !.col = h]
  <2> HIDE DEF r
  <2> QED
    OBVIOUS
<1> HIDE DEF s
<1>3. [s EXCEPT !.col = h] = [row |-> h, col |-> h, v |-> c]
  BY <1>1
<1> QED
  BY <1>2, <1>3

LEMMA SlotsAbsorb ==
    ASSUME NEW kind \in Kinds, NEW gs, NEW g, NEW path \in Run!Paths, NEW s,
           s = SlotsOf(kind, path, gs)
    PROVE  Run!Absorb(kind, s, path, g) = SlotsOf(kind, path, Append(gs, g))
<1> DEFINE h == Append(gs, g)
<1>1. CASE kind = "adamw"
  <2>1. s = [m |-> gs, v |-> gs] /\ s.m = gs /\ s.v = gs
    BY <1>1 DEF SlotsOf
  <2> QED
    BY <1>1, <2>1 DEF SlotsOf, Run!Absorb, Run!AdamWSlots
<1>2. CASE kind = "muon"
  <2>1. s = [momentum |-> gs] /\ s.momentum = gs
    BY <1>2 DEF SlotsOf
  <2> QED
    BY <1>2, <2>1 DEF SlotsOf, Run!Absorb, Run!MuonSlots
<1>3. CASE kind = "adafactor" /\ path = "matrix"
  <2>1. s = [row |-> gs, col |-> gs, v |-> <<>>]
    BY <1>3 DEF SlotsOf
  <2>2. Run!Ndim(path) = 2
    BY <1>3 DEF Run!Ndim
  <2>3. Run!Absorb(kind, s, path, g)
          = [s EXCEPT !.row = Append(s.row, g), !.col = Append(s.col, g)]
    BY <1>3, <2>2 DEF Run!Absorb, Run!AdafactorSlots
  <2>4. s.row = gs /\ s.col = gs
    BY <2>1
  <2>5. Run!Absorb(kind, s, path, g) = [s EXCEPT !.row = h, !.col = h]
    BY <2>3, <2>4
  <2> HIDE DEF h
  <2>6. Run!Absorb(kind, s, path, g)
          = [[row |-> gs, col |-> gs, v |-> <<>>] EXCEPT !.row = h, !.col = h]
    BY <2>1, <2>5, Zenon
  <2>7. Run!Absorb(kind, s, path, g) = [row |-> h, col |-> h, v |-> <<>>]
    BY <2>6, TwoSlots, Zenon
  <2> QED
    BY <1>3, <2>7 DEF SlotsOf, h
<1>4. CASE kind = "adafactor" /\ path # "matrix"
  <2>1. s = [row |-> <<>>, col |-> <<>>, v |-> gs]
    BY <1>4 DEF SlotsOf
  <2>2. Run!Ndim(path) = 1
    BY <1>4 DEF Run!Ndim
  <2>3. Run!Absorb(kind, s, path, g) = [s EXCEPT !.v = Append(s.v, g)]
    BY <1>4, <2>2 DEF Run!Absorb, Run!AdafactorSlots
  <2>4. s.v = gs
    BY <2>1
  <2>5. Run!Absorb(kind, s, path, g) = [s EXCEPT !.v = h]
    BY <2>3, <2>4
  <2> HIDE DEF h
  <2>6. Run!Absorb(kind, s, path, g) = [row |-> <<>>, col |-> <<>>, v |-> h]
    BY <2>1, <2>5
  <2> QED
    BY <1>4, <2>6 DEF SlotsOf, h
<1> QED
  BY <1>1, <1>2, <1>3, <1>4 DEF Kinds

\* A step of the optimizer adds its gradient to the slots in use.
LEMMA StepAbsorbs ==
    ASSUME NEW kind \in Kinds, NEW n, NEW gs, NEW g
    PROVE  Run!OptimizerStep(OptimizerOf(kind, n, gs), g)
             = OptimizerOf(kind, n + 1, Append(gs, g))
<1> DEFINE o == OptimizerOf(kind, n, gs)
           more == [path \in Run!Paths |-> SlotsOf(kind, path, Append(gs, g))]
<1>1. o = [kind |-> kind, step |-> n, slots |-> o.slots] /\ o.kind = kind /\ o.step = n
      /\ \A path \in Run!Paths : o.slots[path] = SlotsOf(kind, path, gs)
  BY DEF OptimizerOf
<1> HIDE DEF o
<1> DEFINE next == [path \in Run!Paths |-> Run!Absorb(o.kind, o.slots[path], path, g)]
<1>2. next = more
  BY <1>1, SlotsAbsorb
<1>3. Run!OptimizerStep(o, g) = [o EXCEPT !.step = o.step + 1, !.slots = next]
  BY DEF Run!OptimizerStep
<1> HIDE DEF next, more
<1>4. Run!OptimizerStep(o, g) = [kind |-> kind, step |-> n + 1, slots |-> more]
  BY <1>1, <1>2, <1>3
<1> QED
  BY <1>4 DEF OptimizerOf, o, more

\* What is made has the lineage.
LEMMA MadeCoherent ==
    ASSUME NEW w, NEW o, NEW lrs, NEW n, Made(w, o, lrs, n)
    PROVE  Run!Coherent(w, o, lrs, n)
<1> DEFINE gs == BatchesOf(w)
<1>1. /\ Len(w) = n /\ lrs = n
      /\ \A i \in 1 .. n : w[i].lr = Run!LrAt(i - 1) /\ w[i].corrected = i
      /\ gs = [i \in 1 .. n |-> w[i].batch]
  BY DEF Made, BatchesOf
<1>2. PICK kind \in Kinds : o = OptimizerOf(kind, n, gs)
  BY DEF Made
<1> HIDE DEF gs
<1>3. o.step = n /\ o.kind = kind /\ \A path \in Run!Paths : o.slots[path] = SlotsOf(kind, path, gs)
  BY <1>2 DEF OptimizerOf
<1>4. ASSUME NEW path \in Run!Paths PROVE Run!Absorbed(o, path) = {gs}
  <2>1. CASE kind = "adamw"
    <3>1. o.slots[path] = [m |-> gs, v |-> gs] /\ DOMAIN o.slots[path] = {"m", "v"}
      BY <1>3, <2>1 DEF SlotsOf
    <3> QED
      BY <1>3, <2>1, <3>1 DEF Run!Absorbed
  <2>2. CASE kind = "muon"
    <3>1. o.slots[path] = [momentum |-> gs] /\ DOMAIN o.slots[path] = {"momentum"}
      BY <1>3, <2>2 DEF SlotsOf
    <3> QED
      BY <1>3, <2>2, <3>1 DEF Run!Absorbed
  <2>3. CASE kind = "adafactor"
    <3>1. /\ path = "matrix" => o.slots[path] = [row |-> gs, col |-> gs, v |-> <<>>]
          /\ path # "matrix" => o.slots[path] = [row |-> <<>>, col |-> <<>>, v |-> gs]
      BY <1>3, <2>3 DEF SlotsOf
    <3> QED
      BY <1>3, <2>3, <3>1 DEF Run!Absorbed, Run!Ndim
  <2> QED
    BY <2>1, <2>2, <2>3 DEF Kinds
<1> QED
  BY <1>1, <1>3, <1>4 DEF Run!Coherent

LEMMA NothingMade ==
    ASSUME NEW kind \in Kinds PROVE Made(<<>>, Run!NewOptimizer(kind), 0, 0)
<1>1. <<>> \in Seq(Updates) /\ Len(<<>>) = 0 /\ BatchesOf(<<>>) = <<>>
  BY DEF BatchesOf
<1> QED
  BY <1>1, NewIsEmpty DEF Made

LEMMA BatchTyped ==
    ASSUME NEW w \in Seq(Updates), NEW i \in 1 .. Len(w) PROVE w[i].batch \in BatchId
<1>1. w[i] \in Updates
  OBVIOUS
<1> QED
  BY <1>1 DEF Updates

\* One more update.
LEMMA OneMoreMade ==
    ASSUME Run!PretrainingAssumption, NEW w, NEW o, NEW n, NEW batch \in BatchId, NEW b \in Int,
           Made(w, o, n, n)
    PROVE  Made(Append(w, [batch |-> batch, lr |-> Run!LrAt(n), corrected |-> o.step + 1,
                           bias |-> b]),
                Run!OptimizerStep(o, batch), n + 1, n + 1)
<1> DEFINE u == [batch |-> batch, lr |-> Run!LrAt(n), corrected |-> o.step + 1, bias |-> b]
           l == Append(w, u)
<1>1. /\ w \in Seq(Updates) /\ Len(w) = n /\ n \in Nat
      /\ \A i \in 1 .. n : w[i].lr = Run!LrAt(i - 1) /\ w[i].corrected = i
  BY DEF Made
<1>2. PICK kind \in Kinds : o = OptimizerOf(kind, n, BatchesOf(w))
  BY DEF Made
<1>3. o.step = n
  BY <1>2 DEF OptimizerOf
<1>4. u \in Updates /\ u.batch = batch /\ u.lr = Run!LrAt(n) /\ u.corrected = n + 1
  BY <1>1, <1>3, LrTyped DEF Updates
<1> HIDE DEF u
<1>5. /\ l \in Seq(Updates) /\ Len(l) = n + 1 /\ l[n + 1] = u
      /\ \A i \in 1 .. n : l[i] = w[i]
  BY <1>1, <1>4, Longer
<1> HIDE DEF l
<1>6. \A i \in 1 .. n + 1 : l[i].lr = Run!LrAt(i - 1) /\ l[i].corrected = i
  <2> TAKE i \in 1 .. n + 1
  <2>1. CASE i = n + 1
    <3>1. i - 1 = n
      BY <1>1, <2>1
    <3> QED
      BY <1>4, <1>5, <2>1, <3>1
  <2>2. CASE i # n + 1
    <3>1. i \in 1 .. n
      BY <1>1, <2>2
    <3> QED
      BY <1>1, <1>5, <3>1
  <2> QED
    BY <2>1, <2>2
<1>7. BatchesOf(l) = Append(BatchesOf(w), batch)
  <2> DEFINE gs == BatchesOf(w)
             hs == BatchesOf(l)
  <2>1. gs \in Seq(BatchId) /\ Len(gs) = n /\ \A i \in 1 .. n : gs[i] = w[i].batch
    <3>1. ASSUME NEW i \in 1 .. n PROVE w[i].batch \in BatchId
      BY <1>1, BatchTyped
    <3> QED
      BY <1>1, <3>1 DEF BatchesOf
  <2>2. hs \in Seq(BatchId) /\ Len(hs) = n + 1 /\ \A i \in 1 .. n + 1 : hs[i] = l[i].batch
    <3>1. ASSUME NEW i \in 1 .. n + 1 PROVE l[i].batch \in BatchId
      BY <1>1, <1>5, BatchTyped
    <3> QED
      BY <1>1, <1>5, <3>1 DEF BatchesOf
  <2> HIDE DEF gs, hs
  <2>3. /\ Append(gs, batch) \in Seq(BatchId) /\ Len(Append(gs, batch)) = n + 1
        /\ Append(gs, batch)[n + 1] = batch
        /\ \A i \in 1 .. n : Append(gs, batch)[i] = gs[i]
    BY <2>1, Longer
  <2>4. ASSUME NEW i \in 1 .. n + 1 PROVE hs[i] = Append(gs, batch)[i]
    <3>1. CASE i = n + 1
      BY <1>4, <1>5, <2>2, <2>3, <3>1
    <3>2. CASE i # n + 1
      <4>1. i \in 1 .. n
        BY <1>1, <3>2
      <4> QED
        BY <1>5, <2>1, <2>2, <2>3, <4>1
    <3> QED
      BY <3>1, <3>2
  <2>5. hs = Append(gs, batch)
    BY <2>2, <2>3, <2>4, SeqEqual
  <2> QED
    BY <2>5 DEF gs, hs
<1>8. Run!OptimizerStep(o, batch) = OptimizerOf(kind, n + 1, BatchesOf(l))
  BY <1>2, <1>7, StepAbsorbs
<1>9. Made(l, Run!OptimizerStep(o, batch), n + 1, n + 1)
  BY <1>5, <1>6, <1>8 DEF Made
<1> QED
  BY <1>9 DEF l, u

LEMMA RunStart == Run!PretrainingAssumption /\ Run!Init => RunInv
<1> SUFFICES ASSUME Run!PretrainingAssumption, Run!Init PROVE RunInv
  OBVIOUS
<1>1. \A f \in DOMAIN files : files[f].state = "none"
  BY DEF Run!Init, Run!NoFile, Run!Final
<1> QED
  BY <1>1 DEF Run!Init, RunInv

\* A file that is written is the state of the process, and the others stay.
LEMMA SaveStepMade ==
    ASSUME RunInv, NEW f, NEW next, runPc \in {"save", "final"},
           Run!SaveBegins(f) \/ Run!SaveEnds(f, next)
    PROVE  \A g \in DOMAIN files' :
              files'[g].state = "whole" =>
                 Made(files'[g].weights, files'[g].opt, files'[g].scheduled, files'[g].step)
<1>1. CASE Run!SaveBegins(f)
  <2>1. files' = [files EXCEPT ![f] = Run!TornFile] /\ Run!TornFile.state = "torn"
    BY <1>1 DEF Run!SaveBegins, Run!TornFile
  <2> QED
    BY <2>1 DEF RunInv
<1>2. CASE Run!SaveEnds(f, next)
  <2> DEFINE s == Run!Saved
  <2>1. files' = [files EXCEPT ![f] = s]
    BY <1>2 DEF Run!SaveEnds
  <2>2. s.weights = params /\ s.opt = opt /\ s.scheduled = scheduled /\ s.step = runStep
    BY DEF Run!Saved
  <2>3. Made(s.weights, s.opt, s.scheduled, s.step)
    BY <2>2 DEF RunInv
  <2> HIDE DEF s
  <2> QED
    BY <2>1, <2>3 DEF RunInv
<1> QED
  BY <1>1, <1>2

LEMMA RunNextStep ==
    ASSUME Run!PretrainingAssumption, RunInv, [Run!Next]_(Run!vars) PROVE RunInv'
<1> DEFINE Files == \A f \in DOMAIN files :
             files[f].state = "whole" =>
                Made(files[f].weights, files[f].opt, files[f].scheduled, files[f].step)
           Same == UNCHANGED <<params, opt, scheduled, runStep, epoch, index, bias>>
<1>0. Files
  BY DEF RunInv
<1>1. ASSUME NEW kind \in Optimizers, Run!StartFresh(kind) PROVE RunInv'
  <2>1. /\ params' = <<>> /\ opt' = Run!NewOptimizer(kind) /\ scheduled' = 0 /\ runStep' = 0
        /\ epoch' = 1 /\ index' = 1 /\ bias' = 0 /\ runPc' = "loop" /\ files' = files
    BY <1>1 DEF Run!StartFresh, Run!Fresh, Run!EnterLoop
  <2>2. Made(params, opt, scheduled, runStep)'
    BY <2>1, NothingMade, RunFacts DEF Made
  <2> QED
    BY <1>0, <2>1, <2>2 DEF RunInv, Made
<1>2. ASSUME NEW f \in DOMAIN files, NEW kind \in Optimizers, Run!Resume(f, kind)
      PROVE  RunInv'
  <2>1. /\ files[f].state = "whole"
        /\ params' = files[f].weights /\ opt' = files[f].opt
        /\ scheduled' = files[f].scheduled /\ runStep' = files[f].step
        /\ epoch' = 1 /\ index' = 1 /\ bias' = 0 /\ runPc' = "loop" /\ files' = files
    BY <1>2 DEF Run!Resume, Run!Newest, Run!Intact, Run!EnterLoop
  <2>2. Made(params, opt, scheduled, runStep)'
    BY <1>0, <2>1 DEF Made
  <2> QED
    BY <1>0, <2>1, <2>2 DEF RunInv, Made
<1>3. CASE Run!TrainStep
  <2> DEFINE batch == <<epoch, index>>
  <2>1. /\ runPc = "loop" /\ runPc' \in {"loop", "save"} /\ files' = files
        /\ scheduled' = scheduled + 1 /\ runStep' = runStep + 1 /\ bias' = bias + Micro
        /\ opt' = Run!OptimizerStep(opt, batch)
        /\ params' = Append(params, [batch |-> batch, lr |-> Run!LrAt(scheduled),
                                     corrected |-> opt.step + 1, bias |-> bias])
        /\ epoch' \in {epoch, epoch + 1} /\ index' \in {1, index + 1}
    BY <1>3 DEF Run!TrainStep
  <2>2. /\ Made(params, opt, scheduled, runStep) /\ scheduled = runStep
        /\ batch \in BatchId /\ bias \in Int /\ epoch \in Int /\ index \in Int /\ Micro \in Int
    BY <2>1, RunFacts, SMTT(30) DEF RunInv, Made, BatchId
  <2> HIDE DEF batch
  <2>3. Made(params', opt', scheduled + 1, scheduled + 1)
    BY <2>1, <2>2, OneMoreMade
  <2>4. epoch' \in Int /\ index' \in Int /\ bias' \in Int
    BY <2>1, <2>2
  <2>5. Made(params, opt, scheduled, runStep)'
    BY <2>1, <2>2, <2>3 DEF Made
  <2> QED
    BY <1>0, <2>1, <2>4, <2>5 DEF RunInv, Made
<1>4. CASE Run!SaveStep \/ Run!SaveFinal
  <2>1. PICK f, next : /\ runPc \in {"save", "final"} /\ next \in {"loop", "done"}
                       /\ Run!SaveBegins(f) \/ Run!SaveEnds(f, next)
    BY <1>4 DEF Run!SaveStep, Run!SaveFinal
  <2>2. Same /\ runPc' \in {runPc, next}
    BY <2>1 DEF Run!SaveBegins, Run!SaveEnds, Run!process
  <2>3. Made(params, opt, scheduled, runStep)'
    BY <2>1, <2>2 DEF RunInv, Made
  <2>4. Files'
    BY <2>1, SaveStepMade
  <2> QED
    BY <2>1, <2>2, <2>3, <2>4 DEF RunInv
<1>5. ASSUME \/ \E f \in DOMAIN files, kind \in Optimizers : Run!ResumeRefused(f, kind)
             \/ Run!LoopEnds \/ Run!Crash \/ UNCHANGED Run!vars
      PROVE  RunInv'
  <2>1. /\ Same /\ files' = files
        /\ \/ runPc' \in {"down", "refused"} \/ runPc' = runPc
           \/ runPc = "loop" /\ runPc' = "final"
    BY <1>5 DEF Run!ResumeRefused, Run!LoopEnds, Run!Crash, Run!vars, Run!process
  <2> QED
    BY <1>0, <2>1 DEF RunInv, Made
<1> QED
  BY <1>1, <1>2, <1>3, <1>4, <1>5 DEF Run!Next

\* Through any crashes, torn files, resumes and refusals, with any optimizer, schedule and
\* frequency of saves: in the process and in every whole file the i-th update was made with
\* the i-th learning rate and bias correction, and the moments hold exactly the gradients of
\* the updates made (pretrain.py; mlx_optim.py; checkpoint.py).
THEOREM LineageNeverBreaks == Run!Spec => []LineageExact
<1>1. Run!Init => RunInv
  BY RunParameters, RunStart
<1>2. RunInv /\ [Run!Next]_(Run!vars) => RunInv'
  BY RunParameters, RunNextStep
<1>3. RunInv => LineageExact
  BY MadeCoherent DEF RunInv, LineageExact, Run!LineageExact, Run!Intact
<1> QED
  BY <1>1, <1>2, <1>3, PTL DEF Run!Spec

----------------------------------------------------------------------------
(***************************************************************************)
(* Curriculum.  The microbatches of a batch follow one another from its    *)
(* first row to its last, and what is accumulated up to one of them is the *)
(* loss of the rows so far, over the targets of the whole batch.           *)
(***************************************************************************)

LEMMA PhasedFacts ==
    ASSUME Phased!CurriculumAssumption
    PROVE  /\ CurriculumSteps \in Nat \ {0} /\ PhaseBatches \in Nat \ {0}
           /\ PhaseRows \in Nat \ {0} /\ Accum \in Nat \ {0}
           /\ Len(Phases) \in Nat /\ Len(Phases) > 0
           /\ \A p \in 1 .. Len(Phases) :
                /\ Phases[p].context_length \in Nat
                /\ Phases[p].n_tokens \in Nat /\ Phases[p].n_tokens > 0
<1>1. Phases \in Seq([context_length : Nat, n_tokens : Nat]) /\ Len(Phases) > 0
  BY DEF Phased!CurriculumAssumption
<1>2. \A p \in 1 .. Len(Phases) : Phases[p] \in [context_length : Nat, n_tokens : Nat]
  BY <1>1, ElementOfSeq
<1>3. Len(Phases) \in Nat
  BY <1>1
<1> QED
  BY <1>1, <1>2, <1>3 DEF Phased!CurriculumAssumption

LEMMA Division ==
    ASSUME NEW n \in Nat, NEW c \in Nat, c > 0
    PROVE  /\ n \div c \in Nat /\ n % c \in Nat /\ n % c < c
           /\ n = c * (n \div c) + (n % c)
OBVIOUS

\* Where the microbatches of n rows end: none of them goes back.
Ends(n, chunks, up) ==
    /\ Len(chunks) \in Nat /\ Len(chunks) > 0
    /\ up \in [0 .. Len(chunks) -> 0 .. n] /\ up[0] = 0 /\ up[Len(chunks)] = n
    /\ \A k \in 1 .. Len(chunks) :
         /\ up[k - 1] <= up[k]
         /\ chunks[k].first = up[k - 1] + 1 /\ chunks[k].final = up[k]

LEMMA SplitEnds ==
    ASSUME Phased!CurriculumAssumption, NEW n \in Nat, n > 0
    PROVE  \E up : Ends(n, Phased!Split(n), up)
<1> DEFINE c == IF Accum < n THEN Accum ELSE n
           base == n \div c
           extra == n % c
           upTo(k) == k * base + (IF k < extra THEN k ELSE extra)
           chunks == [k \in 1 .. c |-> [first |-> upTo(k - 1) + 1, final |-> upTo(k)]]
           up == [k \in 0 .. c |-> upTo(k)]
<1>1. Phased!Split(n) = chunks
  BY DEF Phased!Split
<1>2. c \in Nat /\ c > 0
  BY PhasedFacts
<1> HIDE DEF c
<1>3. base \in Nat /\ extra \in Nat /\ extra < c /\ n = c * base + extra
  BY <1>2, Division
<1> HIDE DEF base, extra
<1>4. ASSUME NEW k \in 0 .. c PROVE upTo(k) \in 0 .. n
  <2>1. k \in Nat /\ k <= c /\ c - k \in Nat
    BY <1>2
  <2>2. k * base \in Nat /\ (c - k) * base \in Nat /\ (c - k) * base = c * base - k * base
        /\ c * base \in Nat
    BY <1>2, <1>3, <2>1
  <2> QED
    BY <1>2, <1>3, <2>1, <2>2
<1>5. upTo(0) = 0 /\ upTo(c) = n
  BY <1>2, <1>3
<1>6. ASSUME NEW k \in 1 .. c PROVE upTo(k - 1) <= upTo(k)
  <2>1. k \in Nat /\ k - 1 \in Nat /\ (k - 1) * base = k * base - base /\ k * base \in Nat
        /\ (k - 1) * base \in Nat
    BY <1>2, <1>3
  <2> QED
    BY <1>3, <2>1
<1> HIDE DEF upTo
<1>7. Len(chunks) = c
  BY <1>2
<1>8. up \in [0 .. c -> 0 .. n] /\ up[0] = 0 /\ up[c] = n
  BY <1>2, <1>4, <1>5
<1>9. ASSUME NEW k \in 1 .. c
      PROVE  /\ up[k - 1] <= up[k]
             /\ chunks[k].first = up[k - 1] + 1 /\ chunks[k].final = up[k]
  <2>1. k \in 0 .. c /\ k - 1 \in 0 .. c
    BY <1>2
  <2>2. up[k] = upTo(k) /\ up[k - 1] = upTo(k - 1)
    BY <2>1
  <2>3. chunks[k] = [first |-> upTo(k - 1) + 1, final |-> upTo(k)]
    OBVIOUS
  <2> QED
    BY <1>6, <2>2, <2>3
<1> HIDE DEF up, chunks
<1>10. Ends(n, chunks, up)
  BY <1>2, <1>7, <1>8, <1>9 DEF Ends
<1> QED
  BY <1>1, <1>10

\* The loss of the rows of a batch, summed, and its targets.
Weighted(rows) == [i \in 1 .. Len(rows) |-> i * rows[i]]

LEMMA WeightedRows ==
    ASSUME NEW rows \in Seq(Nat)
    PROVE  /\ Weighted(rows) \in Seq(Nat) /\ Len(Weighted(rows)) = Len(rows)
           /\ \A i \in 1 .. Len(rows) : Weighted(rows)[i] = i * rows[i]
<1>1. Len(rows) \in Nat /\ \A i \in 1 .. Len(rows) : i \in Nat /\ rows[i] \in Nat
  OBVIOUS
<1>2. \A i \in 1 .. Len(rows) : i * rows[i] \in Nat
  BY <1>1
<1> QED
  BY <1>1, <1>2 DEF Weighted

LEMMA PhasedTotal == \A s : Phased!Total(s) = Total(s)
BY DEF Phased!Total, Phased!Totals, Total, Totals

\* A microbatch: its targets, its loss, and no loss without a target.
LEMMA StretchOfRows ==
    ASSUME NEW rows \in Seq(Nat), NEW from \in 0 .. Len(rows), NEW to \in from .. Len(rows)
    PROVE  LET tokens == Total(SubSeq(rows, from + 1, to))
               sum == Phased!RowLoss(rows, from + 1, to)
           IN  /\ tokens = Totals(rows)[to] - Totals(rows)[from]
               /\ sum = Totals(Weighted(rows))[to] - Totals(Weighted(rows))[from]
               /\ tokens \in Nat /\ sum \in Nat
               /\ tokens = 0 => sum = 0
<1> DEFINE M == to - from
           t == SubSeq(rows, from + 1, to)
           w == [i \in 1 .. to - (from + 1) + 1 |->
                   ((from + 1) + i - 1) * rows[(from + 1) + i - 1]]
<1>1. /\ from \in Nat /\ to \in Nat /\ M \in Nat /\ from <= to /\ to <= Len(rows)
      /\ Len(rows) \in Nat /\ \A i \in 1 .. Len(rows) : rows[i] \in Nat
  OBVIOUS
<1>2. \A i \in 1 .. M : from + i \in 1 .. Len(rows) /\ from + i \in Nat
  BY <1>1
<1>3. t \in Seq(Nat) /\ Len(t) = M /\ \A i \in 1 .. M : t[i] = rows[from + i]
  BY <1>1
<1>4. w = [i \in 1 .. M |-> (from + i) * rows[from + i]]
  <2>1. to - (from + 1) + 1 = M /\ \A i \in 1 .. M : (from + 1) + i - 1 = from + i
    BY <1>1
  <2> QED
    BY <2>1
<1> HIDE DEF t, M
<1>5. \A i \in 1 .. M : (from + i) * rows[from + i] \in Nat
  <2>1. \A x, y \in Nat : x * y \in Nat
    OBVIOUS
  <2> QED
    BY <1>1, <1>2, <2>1, Zenon
<1>6. w \in Seq(Nat) /\ Len(w) = M /\ \A i \in 1 .. M : w[i] = Weighted(rows)[from + i]
                                                 /\ w[i] = (from + i) * rows[from + i]
  <2> HIDE DEF w
  <2>1. w \in Seq(Nat) /\ Len(w) = M
    BY <1>1, <1>4, <1>5
  <2> QED
    BY <1>2, <1>4, <2>1, WeightedRows
<1>7. Phased!RowLoss(rows, from + 1, to) = Total(w)
  BY PhasedTotal DEF Phased!RowLoss
<1> HIDE DEF w
<1>8. Total(t) = Totals(rows)[to] - Totals(rows)[from]
  <2>1. rows \in Seq(Int) /\ t \in Seq(Int)
    BY <1>3, TotalsOfNat
  <2> QED
    BY <1>3, <2>1, TotalOfStretch DEF M
<1>9. Total(w) = Totals(Weighted(rows))[to] - Totals(Weighted(rows))[from]
  <2>1. Weighted(rows) \in Seq(Int) /\ w \in Seq(Int) /\ Len(Weighted(rows)) = Len(rows)
    BY <1>6, WeightedRows, TotalsOfNat
  <2> QED
    BY <1>6, <2>1, TotalOfStretch DEF M
<1>10. Total(t) \in Nat /\ Total(w) \in Nat
  BY <1>3, <1>6, TotalsOfNat
<1>11. ASSUME Total(t) = 0 PROVE Total(w) = 0
  <2>1. ASSUME NEW i \in 1 .. M PROVE w[i] = 0
    <3>1. t[i] <= 0 /\ t[i] \in Nat
      BY <1>3, <1>11, TotalsOfNat
    <3>2. rows[from + i] = 0
      BY <1>3, <3>1
    <3> QED
      BY <1>2, <1>6, <3>2
  <2>2. w \in Seq(Int)
    BY <1>6, TotalsOfNat
  <2> QED
    BY <1>6, <2>1, <2>2, TotalOfZeros
<1> QED
  BY <1>7, <1>8, <1>9, <1>10, <1>11 DEF t

\* One more fraction of a common total: what is accumulated stays the mean of what it is of.
LEMMA FractionStep ==
    ASSUME NEW a \in Nat, NEW d \in Nat, NEW upto \in Nat, NEW sum \in Nat, NEW tokens \in Nat,
           NEW den \in Nat, NEW total \in Nat,
           a * total = d * upto, tokens = den \/ sum = 0
    PROVE  (a * (den * total) + (sum * tokens) * d) * total = (d * (den * total)) * (upto + sum)
<1>1. \A x, y, z, u \in Int : (x + y) * z = x * z + y * z /\ x * (y + z) = x * y + x * z
  OBVIOUS
<1> DEFINE b == den * total
<1>2. b \in Nat /\ a * b \in Nat /\ (sum * tokens) * d \in Nat /\ d * b \in Nat
  OBVIOUS
<1>3. (a * b + (sum * tokens) * d) * total = (a * b) * total + ((sum * tokens) * d) * total
  BY <1>1, <1>2
<1>4. (d * b) * (upto + sum) = (d * b) * upto + (d * b) * sum
  BY <1>1, <1>2
<1>5. (a * b) * total = (d * b) * upto
  <2>1. (a * b) * total = (a * total) * b /\ (d * b) * upto = (d * upto) * b
    BY <1>2
  <2> QED
    BY <2>1
<1>6. ((sum * tokens) * d) * total = (d * b) * sum
  <2>1. CASE tokens = den
    <3>1. ((sum * den) * d) * total = (d * (den * total)) * sum
      OBVIOUS
    <3> QED
      BY <2>1, <3>1
  <2>2. CASE sum = 0
    <3>1. \A x \in Int : 0 * x = 0 /\ x * 0 = 0
      OBVIOUS
    <3>2. (0 * tokens) * d = 0 /\ 0 * total = 0 /\ (d * b) * 0 = 0
      BY <1>2, <3>1
    <3> QED
      BY <2>2, <3>2
  <2> QED
    BY <2>1, <2>2
<1> QED
  BY <1>3, <1>4, <1>5, <1>6

\* The loss that is accumulated over the microbatches of a batch.
LEMMA AccumulatedLoss ==
    ASSUME Phased!CurriculumAssumption, NEW rows \in Seq(Nat), Len(rows) > 0
    PROVE  LET acc == Phased!Accumulated(rows)
           IN  /\ acc.num \in Nat /\ acc.den \in Nat
               /\ acc.num * Total(rows) = acc.den * Phased!RowLoss(rows, 1, Len(rows))
<1> DEFINE n == Len(rows)
           chunks == Phased!Split(n)
           N == Len(chunks)
           tokens(c) == Phased!Total(SubSeq(rows, c.first, c.final))
           counts == [k \in 1 .. N |-> tokens(chunks[k])]
           total == Phased!Total(counts)
           part(c) == Phased!Times(Phased!MeanLoss(Phased!RowLoss(rows, c.first, c.final), tokens(c)),
                                   Phased!Weight(tokens(c), total, N))
           Solves(f) == f = [k \in 0 .. N |-> IF k = 0 THEN [num |-> 0, den |-> 1]
                                              ELSE Phased!Plus(f[k - 1], part(chunks[k]))]
           acc == CHOOSE f : Solves(f)
           T == Totals(rows)
           W == Totals(Weighted(rows))
<1>1. Phased!Accumulated(rows) = acc[N]
  BY DEF Phased!Accumulated
<1>2. n \in Nat /\ n > 0
  OBVIOUS
<1>3. PICK up : Ends(n, chunks, up)
  BY <1>2, SplitEnds
<1>4. /\ N \in Nat /\ N > 0 /\ up \in [0 .. N -> 0 .. n] /\ up[0] = 0 /\ up[N] = n
      /\ \A k \in 1 .. N : /\ up[k - 1] <= up[k]
                           /\ chunks[k].first = up[k - 1] + 1 /\ chunks[k].final = up[k]
  BY <1>3 DEF Ends
<1>5. /\ rows \in Seq(Int) /\ T[0] = 0 /\ T[n] = Total(rows) /\ Total(rows) \in Nat
      /\ \A i \in 0 .. n : T[i] \in Nat
  BY TotalsOfNat, TotalsAre
<1>6. /\ Weighted(rows) \in Seq(Int) /\ W[0] = 0 /\ W[n] = Total(Weighted(rows))
      /\ \A i \in 0 .. n : W[i] \in Nat
  BY WeightedRows, TotalsOfNat, TotalsAre
<1> DEFINE sum(k) == Phased!RowLoss(rows, chunks[k].first, chunks[k].final)
           count(k) == tokens(chunks[k])
<1>7. ASSUME NEW k \in 1 .. N
      PROVE  /\ up[k] \in 0 .. n /\ up[k - 1] \in 0 .. n
             /\ count(k) = T[up[k]] - T[up[k - 1]] /\ sum(k) = W[up[k]] - W[up[k - 1]]
             /\ count(k) \in Nat /\ sum(k) \in Nat /\ (count(k) = 0 => sum(k) = 0)
  <2> DEFINE from == up[k - 1]
             to == up[k]
  <2>1. k \in 0 .. N /\ k - 1 \in 0 .. N
    BY <1>4
  <2>2. /\ from \in 0 .. n /\ to \in 0 .. n /\ from <= to
        /\ chunks[k].first = from + 1 /\ chunks[k].final = to
    BY <1>4, <2>1
  <2> HIDE DEF from, to, T, W, n, chunks
  <2>3. from \in 0 .. Len(rows) /\ to \in from .. Len(rows)
    BY <1>2, <2>2 DEF n
  <2>4. /\ count(k) = Total(SubSeq(rows, from + 1, to))
        /\ sum(k) = Phased!RowLoss(rows, from + 1, to)
    BY <2>2, PhasedTotal
  <2> HIDE DEF count, sum, tokens
  <2>5. /\ count(k) = T[to] - T[from] /\ sum(k) = W[to] - W[from]
        /\ count(k) \in Nat /\ sum(k) \in Nat /\ (count(k) = 0 => sum(k) = 0)
    BY <2>3, <2>4, StretchOfRows DEF T, W
  <2> QED
    BY <2>2, <2>5 DEF from, to
<1> HIDE DEF T, W, chunks, N, n
<1>8. total = Total(rows)
  <2> DEFINE g == [k \in 0 .. N |-> T[up[k]]]
  <2>1. \A k \in 1 .. N : counts[k] = count(k) /\ count(k) \in Nat
    BY <1>7
  <2>2. counts \in Seq(Int) /\ Len(counts) = N
    <3> HIDE DEF count, tokens
    <3>1. counts \in [1 .. N -> Nat]
      BY <2>1
    <3> HIDE DEF counts
    <3> QED
      BY <1>4, <3>1
  <2> HIDE DEF counts, count, tokens
  <2>3. g[0] = 0
    BY <1>4, <1>5
  <2>4. ASSUME NEW k \in 1 .. N PROVE g[k] = g[k - 1] + counts[k]
    <3>1. k \in 0 .. N /\ k - 1 \in 0 .. N
      BY <1>4
    <3>2. g[k] = T[up[k]] /\ g[k - 1] = T[up[k - 1]]
      BY <3>1
    <3>3. T[up[k]] \in Nat /\ T[up[k - 1]] \in Nat
      BY <1>5, <1>7
    <3>4. counts[k] = T[up[k]] - T[up[k - 1]]
      BY <1>7, <2>1
    <3> HIDE DEF g
    <3> QED
      BY <3>2, <3>3, <3>4
  <2>5. N \in 0 .. N /\ g[N] = Total(rows)
    BY <1>4, <1>5
  <2> HIDE DEF g
  <2>6. Totals(counts)[N] = g[N]
    BY <2>2, <2>3, <2>4, <2>5, TotalsOnly
  <2> QED
    BY <2>2, <2>5, <2>6, PhasedTotal, TotalsAre
<1> DEFINE den(k) == IF count(k) = 0 THEN 1 ELSE count(k)
<1>9. ASSUME NEW k \in 1 .. N
      PROVE  part(chunks[k]) = [num |-> sum(k) * count(k), den |-> den(k) * Total(rows)]
  BY <1>8 DEF Phased!Times, Phased!MeanLoss, Phased!Weight
<1> HIDE DEF total, counts, tokens, part, count, sum
<1> DEFINE D == [num : Nat, den : Nat]
           all == Total(rows)
           next == [p \in (1 .. N) \X D |->
                      [num |-> p[2].num * (den(p[1]) * all) + (sum(p[1]) * count(p[1])) * p[2].den,
                       den |-> p[2].den * (den(p[1]) * all)]]
<1>10. all \in Nat /\ \A k \in 1 .. N : den(k) \in Nat /\ count(k) \in Nat /\ sum(k) \in Nat
                                         /\ (count(k) = den(k) \/ sum(k) = 0)
  BY <1>5, <1>7
<1> HIDE DEF den, all
<1>11. \A x, y \in Nat : x * y \in Nat /\ x + y \in Nat
  OBVIOUS
<1>12. ASSUME NEW k \in 1 .. N, NEW d \in D
       PROVE  /\ next[<<k, d>>] = [num |-> d.num * (den(k) * all) + (sum(k) * count(k)) * d.den,
                                   den |-> d.den * (den(k) * all)]
              /\ next[<<k, d>>] \in D
              /\ Phased!Plus(d, part(chunks[k])) = next[<<k, d>>]
  <2>1. /\ d.num \in Nat /\ d.den \in Nat /\ den(k) \in Nat /\ all \in Nat
        /\ sum(k) \in Nat /\ count(k) \in Nat
    BY <1>10
  <2>2. next[<<k, d>>] = [num |-> d.num * (den(k) * all) + (sum(k) * count(k)) * d.den,
                          den |-> d.den * (den(k) * all)]
    OBVIOUS
  <2>3. /\ d.num * (den(k) * all) + (sum(k) * count(k)) * d.den \in Nat
        /\ d.den * (den(k) * all) \in Nat
    BY <1>11, <2>1
  <2>4. Phased!Plus(d, part(chunks[k])) = next[<<k, d>>]
    <3> DEFINE y == part(chunks[k])
    <3>1. y = [num |-> sum(k) * count(k), den |-> den(k) * all]
      BY <1>9 DEF all
    <3>2. Phased!Plus(d, y) = [num |-> d.num * y.den + y.num * d.den, den |-> d.den * y.den]
      BY DEF Phased!Plus
    <3> HIDE DEF y, next
    <3>3. y.num = sum(k) * count(k) /\ y.den = den(k) * all
      BY <3>1
    <3>4. Phased!Plus(d, y) = next[<<k, d>>]
      BY <2>2, <3>2, <3>3
    <3> QED
      BY <3>4 DEF y
  <2> HIDE DEF next
  <2> QED
    BY <2>2, <2>3, <2>4
<1>13. next \in [(1 .. N) \X D -> D]
  <2>1. ASSUME NEW x \in (1 .. N) \X D PROVE next[x] \in D
    <3> HIDE DEF next, D
    <3>1. PICK k \in 1 .. N, d \in D : x = <<k, d>>
      OBVIOUS
    <3> QED
      BY <1>12, <3>1
  <2> HIDE DEF D
  <2> QED
    BY <2>1
<1>14. [num |-> 0, den |-> 1] \in D
  OBVIOUS
<1> HIDE DEF next
<1>15. PICK f : Recurs(f, N, D, [num |-> 0, den |-> 1], next)
  BY <1>4, <1>13, <1>14, Recursion
<1>16. Solves(f)
  <2>1. ASSUME NEW k \in 0 .. N
        PROVE  f[k] = IF k = 0 THEN [num |-> 0, den |-> 1] ELSE Phased!Plus(f[k - 1], part(chunks[k]))
    <3>1. CASE k = 0
      BY <1>15, <3>1 DEF Recurs
    <3>2. CASE k # 0
      <4>1. k \in 1 .. N /\ k - 1 \in 0 .. N
        BY <1>4, <3>2
      <4> HIDE DEF D
      <4>2. f[k] = next[<<k, f[k - 1]>>] /\ f[k - 1] \in D
        BY <1>15, <4>1 DEF Recurs
      <4> QED
        BY <1>12, <3>2, <4>1, <4>2
    <3> QED
      BY <3>1, <3>2
  <2>2. f = [k \in 0 .. N |-> f[k]]
    BY <1>15 DEF Recurs
  <2> QED
    BY <2>1, <2>2
<1>17. Solves(acc)
  <2> HIDE DEF Solves
  <2> QED
    BY <1>16
<1> HIDE DEF acc
<1>18. /\ acc[0] = [num |-> 0, den |-> 1]
       /\ \A k \in 1 .. N : acc[k] = Phased!Plus(acc[k - 1], part(chunks[k]))
  <2>1. \A k \in 0 .. N : acc[k] = IF k = 0 THEN [num |-> 0, den |-> 1]
                                   ELSE Phased!Plus(acc[k - 1], part(chunks[k]))
    BY <1>17
  <2> HIDE DEF Solves
  <2> QED
    BY <1>4, <2>1
<1> HIDE DEF Solves
<1> DEFINE Good(k) == acc[k] \in D /\ acc[k].num * all = acc[k].den * W[up[k]]
           G == {k \in 0 .. N : Good(k)}
<1>19. 0 \in G
  <2>1. 0 * all = 0 /\ 1 * W[0] = 0
    BY <1>6, <1>10
  <2> QED
    BY <1>4, <1>14, <1>18, <2>1
<1>20. ASSUME NEW k \in 0 .. N - 1, k \in G PROVE k + 1 \in G
  <2> DEFINE j == k + 1
             d == acc[k]
  <2>1. j \in 1 .. N /\ j - 1 = k /\ j \in 0 .. N /\ d \in D /\ d.num * all = d.den * W[up[k]]
    <3>1. k + 1 \in 1 .. N /\ (k + 1) - 1 = k /\ k + 1 \in 0 .. N /\ k \in 0 .. N
      <4> HIDE DEF G, Good
      <4>1. N \in Nat
        BY <1>4
      <4> QED
        BY <4>1
    <3>2. Good(k)
      BY <1>20, Zenon
    <3> HIDE DEF D
    <3> QED
      BY <3>1, <3>2
  <2>2. acc[j] = Phased!Plus(d, part(chunks[j]))
    BY <1>18, <2>1
  <2>3. /\ acc[j] = [num |-> d.num * (den(j) * all) + (sum(j) * count(j)) * d.den,
                     den |-> d.den * (den(j) * all)]
        /\ acc[j] \in D
    <3> HIDE DEF j, d, D
    <3> QED
      BY <1>12, <2>1, <2>2
  <2>4. W[up[k]] \in Nat /\ W[up[j]] \in Nat /\ W[up[j]] = W[up[k]] + sum(j)
    <3> HIDE DEF j, d, D, Good
    <3>1. up[j] \in 0 .. n /\ up[k] \in 0 .. n /\ sum(j) = W[up[j]] - W[up[k]]
      BY <1>7, <2>1
    <3>2. W[up[k]] \in Nat /\ W[up[j]] \in Nat
      BY <1>6, <3>1
    <3> QED
      BY <3>1, <3>2
  <2>5. /\ d.num \in Nat /\ d.den \in Nat /\ den(j) \in Nat /\ all \in Nat
        /\ sum(j) \in Nat /\ count(j) \in Nat /\ (count(j) = den(j) \/ sum(j) = 0)
    BY <1>10, <2>1
  <2> HIDE DEF j, d, D
  <2>6. (d.num * (den(j) * all) + (sum(j) * count(j)) * d.den) * all
          = (d.den * (den(j) * all)) * (W[up[k]] + sum(j))
    <3> DEFINE a == d.num
               b == d.den
               upto == W[up[k]]
               s == sum(j)
               c == count(j)
               v == den(j)
    <3>1. /\ a \in Nat /\ b \in Nat /\ upto \in Nat /\ s \in Nat /\ c \in Nat /\ v \in Nat
          /\ all \in Nat /\ a * all = b * upto /\ (c = v \/ s = 0)
      BY <2>1, <2>4, <2>5, Zenon
    <3> HIDE DEF a, b, upto, s, c, v
    <3>2. (a * (v * all) + (s * c) * b) * all = (b * (v * all)) * (upto + s)
      BY <3>1, FractionStep
    <3> QED
      BY <3>2, Zenon DEF a, b, upto, s, c, v
  <2>7. acc[j].num * all = acc[j].den * W[up[j]]
    BY <2>3, <2>4, <2>6
  <2> QED
    BY <2>1, <2>3, <2>7 DEF j
<1> HIDE DEF G
<1>21. \A k \in 0 .. N : k \in G
  BY <1>4, <1>19, <1>20, UpTo
<1>22. acc[N] \in D /\ acc[N].num * all = acc[N].den * W[n]
  <2>1. N \in G
    BY <1>4, <1>21
  <2> QED
    BY <1>4, <2>1 DEF G
<1>23. W[n] = Phased!RowLoss(rows, 1, n)
  <2>1. 0 \in 0 .. Len(rows) /\ n \in 0 .. Len(rows) /\ 0 + 1 = 1
    BY <1>2 DEF n
  <2>2. Phased!RowLoss(rows, 1, n) = W[n] - W[0]
    BY <2>1, StretchOfRows DEF W
  <2>3. n \in 0 .. n
    BY <1>2
  <2> QED
    BY <1>6, <2>2, <2>3
<1> QED
  BY <1>1, <1>22, <1>23 DEF n, all

PhasedTypeOK ==
    /\ phase \in 1 .. Len(Phases) + 1 /\ globalStep \in 0 .. CurriculumSteps
    /\ phaseScheduled \in Nat
    /\ consumed \in [1 .. Len(Phases) -> Nat] /\ last \in [1 .. Len(Phases) -> Nat]

BudgetsMet ==
    /\ \A p \in 1 .. Len(Phases) :
          /\ p < phase => consumed[p] >= Phases[p].n_tokens \/ globalStep = CurriculumSteps
          /\ consumed[p] > 0 => consumed[p] - last[p] < Phases[p].n_tokens
          /\ p > phase => consumed[p] = 0
    /\ ~noTarget => phaseScheduled = globalStep

LossIsMean ==
    /\ phaseBatch \in Seq(Nat) /\ Total(phaseBatch) > 0
    /\ loss.num \in Nat /\ loss.den \in Nat
    /\ loss.num * Total(phaseBatch)
         = loss.den * Phased!RowLoss(phaseBatch, 1, Len(phaseBatch))

PhasedInv == PhasedTypeOK /\ BudgetsMet /\ LossIsMean

LEMMA PhasedStart == Phased!CurriculumAssumption /\ Phased!Init => PhasedInv
<1> SUFFICES ASSUME Phased!CurriculumAssumption, Phased!Init PROVE PhasedInv
  OBVIOUS
<1>1. /\ phase = 1 /\ phaseScheduled = 0 /\ globalStep = 0
      /\ consumed = [p \in 1 .. Len(Phases) |-> 0] /\ last = [p \in 1 .. Len(Phases) |-> 0]
      /\ phaseBatch = <<1>> /\ loss = [num |-> 1, den |-> 1] /\ noTarget = FALSE
  BY DEF Phased!Init
<1>2. PhasedTypeOK /\ BudgetsMet
  BY <1>1, PhasedFacts DEF PhasedTypeOK, BudgetsMet
<1> DEFINE b == phaseBatch
           w == Weighted(b)
<1>3. b \in Seq(Nat) /\ Len(b) = 1 /\ b[1] = 1
  BY <1>1
<1> HIDE DEF b
<1>4. w \in Seq(Nat) /\ Len(w) = 1 /\ w[1] = 1
  <2>1. w \in Seq(Nat) /\ Len(w) = Len(b) /\ w[1] = 1 * b[1]
    BY <1>3, WeightedRows
  <2> QED
    BY <1>3, <2>1
<1> HIDE DEF w
<1>5. ASSUME NEW s \in Seq(Nat), Len(s) = 1, s[1] = 1
      PROVE  Total(s) = 1 /\ Totals(s)[0] = 0 /\ Totals(s)[1] = 1
  <2>1. s \in Seq(Int) /\ 1 \in 1 .. Len(s) /\ 1 - 1 = 0
    BY <1>5
  <2>2. Total(s) = Totals(s)[1] /\ Totals(s)[1] = Totals(s)[0] + s[1] /\ Totals(s)[0] = 0
    BY <1>5, <2>1, TotalsAre
  <2> QED
    BY <1>5, <2>2
<1>6. Total(b) = 1 /\ Totals(w)[0] = 0 /\ Totals(w)[1] = 1
  BY <1>3, <1>4, <1>5
<1>7. Phased!RowLoss(b, 1, 1) = 1
  <2>1. 0 \in 0 .. Len(b) /\ 1 \in 0 .. Len(b) /\ 0 + 1 = 1
    BY <1>3
  <2>2. Phased!RowLoss(b, 1, 1) = Totals(w)[1] - Totals(w)[0]
    BY <1>3, <2>1, StretchOfRows DEF w
  <2> QED
    BY <1>6, <2>2
<1>8. LossIsMean
  <2>1. loss.num = 1 /\ loss.den = 1
    BY <1>1
  <2> QED
    BY <1>3, <1>6, <1>7, <2>1 DEF LossIsMean, b
<1> QED
  BY <1>2, <1>8 DEF PhasedInv

LEMMA PhasedTrainBatch ==
    ASSUME Phased!CurriculumAssumption, PhasedInv, phase <= Len(Phases),
           NEW batch_ \in Phased!Rows, Phased!TrainBatch(batch_)
    PROVE  PhasedInv'
<1> DEFINE width == IF phaseIndex = PhaseBatches THEN 1 ELSE PhaseRows
           total == Total(batch_)
<1>1. /\ ~noTarget /\ ~(consumed[phase] >= Phases[phase].n_tokens) /\ globalStep < CurriculumSteps
      /\ phaseScheduled' = phaseScheduled + 1 /\ phase' = phase
  BY DEF Phased!TrainBatch, Phased!Running, Phased!PhaseDone
<1>2. phase \in 1 .. Len(Phases) /\ PhasedTypeOK
  BY PhasedFacts DEF PhasedInv, PhasedTypeOK
<1>3. batch_ \in Seq(Nat) /\ Len(batch_) > 0
  <2>1. width \in Nat /\ width > 0 /\ Phases[phase].context_length \in Nat
    BY <1>2, PhasedFacts
  <2>2. batch_ \in [1 .. width -> 0 .. Phases[phase].context_length]
    BY DEF Phased!Rows
  <2> HIDE DEF width
  <2>3. batch_ \in [1 .. width -> Nat]
    BY <2>1, <2>2
  <2> QED
    BY <2>1, <2>3
<1>4. total \in Nat
  BY <1>3, TotalsOfNat
<1>5. CASE total = 0
  <2>1. noTarget' = TRUE /\ UNCHANGED <<globalStep, consumed, last, phaseBatch, loss>>
    BY <1>5, PhasedTotal DEF Phased!TrainBatch
  <2>2. LossIsMean'
    BY <2>1 DEF PhasedInv, LossIsMean, Phased!RowLoss
  <2>3. PhasedTypeOK' /\ BudgetsMet'
    BY <1>1, <2>1 DEF PhasedInv, PhasedTypeOK, BudgetsMet
  <2> QED
    BY <2>2, <2>3 DEF PhasedInv
<1>6. CASE total # 0
  <2>1. /\ phaseBatch' = batch_ /\ loss' = Phased!Accumulated(batch_)
        /\ consumed' = [consumed EXCEPT ![phase] = @ + total]
        /\ last' = [last EXCEPT ![phase] = total]
        /\ globalStep' = globalStep + 1 /\ noTarget' = noTarget
    BY <1>6, PhasedTotal DEF Phased!TrainBatch
  <2>2. LossIsMean'
    <3>1. LET acc == Phased!Accumulated(batch_)
          IN  /\ acc.num \in Nat /\ acc.den \in Nat
              /\ acc.num * Total(batch_) = acc.den * Phased!RowLoss(batch_, 1, Len(batch_))
      BY <1>3, AccumulatedLoss
    <3>2. /\ loss'.num \in Nat /\ loss'.den \in Nat
          /\ loss'.num * Total(batch_) = loss'.den * Phased!RowLoss(batch_, 1, Len(batch_))
      BY <2>1, <3>1
    <3> QED
      BY <1>3, <1>4, <1>6, <2>1, <3>2 DEF LossIsMean
  <2> HIDE DEF total
  <2>3. PhasedTypeOK'
    <3>1. consumed[phase] + total \in Nat
      BY <1>2, <1>4 DEF PhasedTypeOK
    <3>2. consumed' \in [1 .. Len(Phases) -> Nat]
      BY <1>2, <2>1, <3>1 DEF PhasedTypeOK
    <3>3. last' \in [1 .. Len(Phases) -> Nat]
      BY <1>2, <1>4, <2>1 DEF PhasedTypeOK
    <3>4. globalStep' \in 0 .. CurriculumSteps /\ phaseScheduled' \in Nat
      BY <1>1, <1>2, <2>1, PhasedFacts DEF PhasedTypeOK
    <3> QED
      BY <1>1, <1>2, <3>2, <3>3, <3>4 DEF PhasedTypeOK
  <2>4. ASSUME NEW p \in 1 .. Len(Phases)
        PROVE  /\ p < phase' => consumed'[p] >= Phases[p].n_tokens \/ globalStep' = CurriculumSteps
               /\ consumed'[p] > 0 => consumed'[p] - last'[p] < Phases[p].n_tokens
               /\ p > phase' => consumed'[p] = 0
    <3>0. consumed[p] \in Nat /\ last[p] \in Nat /\ Phases[p].n_tokens \in Nat
          /\ globalStep \in Nat /\ CurriculumSteps \in Nat /\ phase \in Nat /\ p \in Nat
      BY <1>2, PhasedFacts DEF PhasedTypeOK
    <3>1. CASE p = phase
      <4>1. consumed'[p] = consumed[p] + total /\ last'[p] = total
        BY <1>2, <2>1, <3>1 DEF PhasedTypeOK
      <4> QED
        BY <1>1, <1>4, <3>0, <3>1, <4>1
    <3>2. CASE p # phase
      <4>1. consumed'[p] = consumed[p] /\ last'[p] = last[p]
        BY <1>2, <2>1, <3>2 DEF PhasedTypeOK
      <4>2. /\ p < phase => consumed[p] >= Phases[p].n_tokens \/ globalStep = CurriculumSteps
            /\ consumed[p] > 0 => consumed[p] - last[p] < Phases[p].n_tokens
            /\ p > phase => consumed[p] = 0
        BY DEF PhasedInv, BudgetsMet
      <4> QED
        BY <1>1, <3>0, <4>1, <4>2
    <3> QED
      BY <3>1, <3>2
  <2>5. ~noTarget' => phaseScheduled' = globalStep'
    BY <1>1, <2>1 DEF PhasedInv, BudgetsMet
  <2> QED
    BY <2>2, <2>3, <2>4, <2>5 DEF PhasedInv, BudgetsMet
<1> QED
  BY <1>5, <1>6

LEMMA PhasedNextPhase ==
    ASSUME Phased!CurriculumAssumption, PhasedInv, Phased!NextPhase PROVE PhasedInv'
<1>1. /\ ~noTarget /\ phase <= Len(Phases) /\ phase' = phase + 1
      /\ consumed[phase] >= Phases[phase].n_tokens \/ globalStep >= CurriculumSteps
      /\ UNCHANGED <<phaseScheduled, globalStep, consumed, last, phaseBatch, loss, noTarget>>
  BY DEF Phased!NextPhase, Phased!Running, Phased!PhaseDone
<1>2. PhasedTypeOK
  BY DEF PhasedInv
<1>3. PhasedTypeOK'
  BY <1>1, <1>2, PhasedFacts, SMTT(30) DEF PhasedTypeOK
<1>4. LossIsMean'
  BY <1>1 DEF PhasedInv, LossIsMean, Phased!RowLoss
<1>5. BudgetsMet'
  <2>1. ASSUME NEW p \in 1 .. Len(Phases)
        PROVE  /\ p < phase' => consumed'[p] >= Phases[p].n_tokens \/ globalStep' = CurriculumSteps
               /\ consumed'[p] > 0 => consumed'[p] - last'[p] < Phases[p].n_tokens
               /\ p > phase' => consumed'[p] = 0
    <3>1. /\ p < phase => consumed[p] >= Phases[p].n_tokens \/ globalStep = CurriculumSteps
          /\ consumed[p] > 0 => consumed[p] - last[p] < Phases[p].n_tokens
          /\ p > phase => consumed[p] = 0
      BY DEF PhasedInv, BudgetsMet
    <3>2. /\ phase \in Nat /\ globalStep \in Nat /\ globalStep <= CurriculumSteps
          /\ CurriculumSteps \in Nat /\ p \in Nat
      BY <1>2, PhasedFacts DEF PhasedTypeOK
    <3>3. CASE p = phase
      BY <1>1, <3>1, <3>2, <3>3
    <3>4. CASE p # phase
      BY <1>1, <3>1, <3>2, <3>4
    <3> QED
      BY <3>3, <3>4
  <2>2. ~noTarget' => phaseScheduled' = globalStep'
    BY <1>1 DEF PhasedInv, BudgetsMet
  <2> QED
    BY <2>1, <2>2 DEF BudgetsMet
<1> QED
  BY <1>3, <1>4, <1>5 DEF PhasedInv

\* Whatever the phases, the batches and the number of microbatches: a phase that is over has
\* met its budget by less than its last batch, unless the steps of the run are used up; one
\* schedule goes through all phases, and the loss of a step is the mean over the targets of
\* its batch, however it was split (pretrain.py:297-445).
THEOREM CurriculumIsExact == Phased!Spec => []CurriculumExact
<1>1. Phased!Init => PhasedInv
  BY CurriculumParameters, PhasedStart
<1>2. PhasedInv /\ [Phased!Next]_(Phased!vars) => PhasedInv'
  <2> SUFFICES ASSUME PhasedInv, [Phased!Next]_(Phased!vars) PROVE PhasedInv'
    OBVIOUS
  <2>1. CASE phase <= Len(Phases) /\ \E b \in Phased!Rows : Phased!TrainBatch(b)
    BY <2>1, CurriculumParameters, PhasedTrainBatch
  <2>2. CASE Phased!NextPhase
    BY <2>2, CurriculumParameters, PhasedNextPhase
  <2>3. CASE UNCHANGED Phased!vars
    BY <2>3 DEF Phased!vars, Phased!counters, PhasedInv, PhasedTypeOK, BudgetsMet, LossIsMean,
                Phased!RowLoss
  <2> QED
    BY <2>1, <2>2, <2>3 DEF Phased!Next
<1>3. PhasedInv => CurriculumExact
  <2> SUFFICES ASSUME PhasedInv PROVE CurriculumExact
    OBVIOUS
  <2>1. Phased!PhasesMeetBudgets
    BY DEF PhasedInv, BudgetsMet, Phased!PhasesMeetBudgets
  <2>2. Phased!AccumulationExact
    <3> DEFINE sum == Phased!RowLoss(phaseBatch, 1, Len(phaseBatch))
               total == Total(phaseBatch)
    <3>1. /\ loss.num * total = loss.den * sum /\ total \in Nat /\ total > 0
          /\ loss.num \in Nat /\ loss.den \in Nat
      BY TotalsOfNat DEF PhasedInv, LossIsMean
    <3>2. Phased!MeanLoss(sum, total) = [num |-> sum, den |-> total]
      <4> HIDE DEF sum, total
      <4> QED
        BY <3>1 DEF Phased!MeanLoss
    <3>3. Phased!AccumulationExact <=> Phased!SameFraction(loss, Phased!MeanLoss(sum, total))
      BY PhasedTotal DEF Phased!AccumulationExact
    <3>4. sum \in Nat
      <4>1. /\ phaseBatch \in Seq(Nat) /\ 0 \in 0 .. Len(phaseBatch) /\ 0 + 1 = 1
            /\ Len(phaseBatch) \in 0 .. Len(phaseBatch)
        BY DEF PhasedInv, LossIsMean
      <4> QED
        BY <4>1, StretchOfRows
    <3> HIDE DEF sum, total
    <3> QED
      BY <3>1, <3>2, <3>3, <3>4 DEF Phased!SameFraction
  <2> QED
    BY <2>1, <2>2 DEF CurriculumExact, Phased!CurriculumExact
<1> QED
  BY <1>1, <1>2, <1>3, PTL DEF Phased!Spec

----------------------------------------------------------------------------
(***************************************************************************)
(* Stages.  A command that runs carries the history it loaded, and counts  *)
(* what it has made of it the way the file it will write counts.           *)
(***************************************************************************)

Marks == [vocab : Vocabs, first : BOOLEAN]

\* The updates since the count of steps last started.
Counted(w) == Len(w) - Chain!CountedFrom(w) + 1

OnVocabulary(w, vocab) == w \in Seq(Marks) /\ \A i \in 1 .. Len(w) : w[i].vocab = vocab

Configs == [vocab : Vocabs, activation : BOOLEAN]

FromCorpus == {"pretrain", "midtrain"}

FileComposes(f) ==
    /\ f.config \in Configs /\ OnVocabulary(f.weights, f.config.vocab)
    /\ f.step \in Nat /\ f.step >= Counted(f.weights)
    /\ ~f.short => f.step = Counted(f.weights)

\* A command has the fields Begin gives it.
Shaped(c) ==
    c = [kind |-> c.kind, out |-> c.out, vocab |-> c.vocab, config |-> c.config,
         weights |-> c.weights, start |-> c.start, done |-> c.done, gaveUp |-> c.gaveUp,
         short |-> c.short]

CommandComposes(c) ==
    /\ Shaped(c)
    /\ c.config \in Configs /\ c.config.vocab = c.vocab /\ OnVocabulary(c.weights, c.vocab)
    /\ c.config.activation => c.kind \in FromCorpus
    /\ c.start \in Nat /\ c.done \in 0 .. StageUpdates
    /\ c.gaveUp => c.short
    /\ c.kind \in FromCorpus =>
          /\ c.start = 0 /\ ~c.gaveUp
          /\ c.done = 0 \/ c.done = Counted(c.weights)
    /\ c.kind \notin FromCorpus =>
          /\ c.start + c.done >= Counted(c.weights)
          /\ ~c.short => c.start + c.done = Counted(c.weights)

ChainInv ==
    /\ running # Chain!Idle => CommandComposes(running)
    /\ outputs = [d \in Dirs |-> outputs[d]]
    /\ \A d \in Dirs : Chain!Loads(d) => FileComposes(outputs[d])

IsFirst(w, i) == w[i].first
Firsts(w) == {i \in 1 .. Len(w) : IsFirst(w, i)}

LEMMA CountedFromFirsts ==
    ASSUME NEW w
    PROVE  /\ Firsts(w) = {} => Chain!CountedFrom(w) = 1
           /\ Firsts(w) # {} =>
                 Chain!CountedFrom(w) = CHOOSE i \in Firsts(w) : \A j \in Firsts(w) : j <= i
BY Zenon DEF Chain!CountedFrom, Firsts, IsFirst

LEMMA CountedNone == Counted(<<>>) = 0
<1>1. Len(<<>>) = 0 /\ Firsts(<<>>) = {}
  BY DEF Firsts
<1> QED
  BY <1>1, CountedFromFirsts DEF Counted

LEMMA CountedTyped ==
    ASSUME NEW w \in Seq(Marks)
    PROVE  Chain!CountedFrom(w) \in Nat /\ Counted(w) \in Int
<1>1. Firsts(w) \in SUBSET (1 .. Len(w)) /\ Len(w) \in Nat
  BY DEF Firsts
<1>2. CASE Firsts(w) = {}
  BY <1>1, <1>2, CountedFromFirsts DEF Counted
<1>3. CASE Firsts(w) # {}
  <2> DEFINE top == CHOOSE i \in Firsts(w) : \A j \in Firsts(w) : j <= i
  <2>1. \E i \in Firsts(w) : \A j \in Firsts(w) : j <= i
    BY <1>1, <1>3, Greatest
  <2>2. top \in Firsts(w)
    BY <2>1
  <2>3. Chain!CountedFrom(w) = top
    BY <1>3, CountedFromFirsts
  <2> QED
    BY <1>1, <2>2, <2>3 DEF Counted
<1> QED
  BY <1>2, <1>3

\* The count starts with the first update of a stage on the corpus, and goes on with others.
LEMMA CountedMore ==
    ASSUME NEW w \in Seq(Marks), NEW u \in Marks
    PROVE  /\ u.first => Counted(Append(w, u)) = 1
           /\ ~u.first => Counted(Append(w, u)) = Counted(w) + 1
           /\ Counted(w) \in Int
<1> DEFINE l == Append(w, u)
           n == Len(w)
<1>1. l \in Seq(Marks) /\ Len(l) = n + 1 /\ l[n + 1] = u /\ \A i \in 1 .. n : l[i] = w[i]
      /\ n \in Nat
  BY Longer
<1>2. /\ Firsts(w) \subseteq 1 .. n /\ Firsts(l) \subseteq 1 .. n + 1
      /\ \A i \in 1 .. n : i \in Firsts(w) <=> IsFirst(w, i)
      /\ \A i \in 1 .. n + 1 : i \in Firsts(l) <=> IsFirst(l, i)
  BY <1>1 DEF Firsts
<1>3. IsFirst(l, n + 1) <=> u.first
  BY <1>1, Zenon DEF IsFirst
<1>4. ASSUME NEW i \in 1 .. n PROVE IsFirst(l, i) <=> IsFirst(w, i)
  BY <1>1, Zenon DEF IsFirst
<1>5. n = Len(w) /\ n \in Nat
  OBVIOUS
<1> HIDE DEF l, n
<1>6. CASE u.first
  <2>1. n + 1 \in Firsts(l)
    <3>1. n + 1 \in 1 .. n + 1
      BY <1>5
    <3> QED
      BY <1>2, <1>3, <1>6, <3>1, Zenon
  <2>2. \A j \in Firsts(l) : j <= n + 1
    BY <1>1, <1>2
  <2> DEFINE top == CHOOSE i \in Firsts(l) : \A j \in Firsts(l) : j <= i
  <2>3. top \in Firsts(l) /\ \A j \in Firsts(l) : j <= top
    BY <2>1, <2>2
  <2>4. Chain!CountedFrom(l) = top
    BY <2>1, CountedFromFirsts
  <2> HIDE DEF top
  <2>5. top = n + 1
    BY <1>1, <1>2, <2>1, <2>3
  <2>6. Counted(l) = 1
    BY <1>1, <2>4, <2>5 DEF Counted
  <2> QED
    BY <1>6, <2>6, CountedTyped DEF l
<1>7. CASE ~u.first
  <2>1. Firsts(l) = Firsts(w)
    <3>1. n + 1 \notin Firsts(l)
      <4>1. n + 1 \in 1 .. n + 1
        BY <1>5
      <4> QED
        BY <1>2, <1>3, <1>7, <4>1, Zenon
    <3>2. ASSUME NEW i \in 1 .. n PROVE i \in Firsts(l) <=> i \in Firsts(w)
      <4>1. i \in 1 .. n + 1
        BY <1>5
      <4> QED
        BY <1>2, <1>4, <4>1, Zenon
    <3>3. Firsts(l) \subseteq 1 .. n
      BY <1>2, <1>5, <3>1
    <3> QED
      BY <1>2, <3>2, <3>3
  <2>2. Chain!CountedFrom(l) = Chain!CountedFrom(w)
    <3>1. CASE Firsts(w) = {}
      BY <2>1, <3>1, CountedFromFirsts
    <3>2. CASE Firsts(w) # {}
      <4>1. Chain!CountedFrom(w) = CHOOSE i \in Firsts(w) : \A j \in Firsts(w) : j <= i
        BY <3>2, CountedFromFirsts
      <4>2. Chain!CountedFrom(l) = CHOOSE i \in Firsts(l) : \A j \in Firsts(l) : j <= i
        BY <2>1, <3>2, CountedFromFirsts
      <4> QED
        BY <2>1, <4>1, <4>2, Zenon
    <3> QED
      BY <3>1, <3>2
  <2>3. Chain!CountedFrom(w) \in Nat
    BY CountedTyped
  <2>4. Counted(l) = Counted(w) + 1
    BY <1>1, <1>5, <2>2, <2>3 DEF Counted
  <2> QED
    BY <1>7, <2>4, CountedTyped DEF l
<1> QED
  BY <1>6, <1>7

LEMMA HistoryGrows ==
    ASSUME NEW w, NEW vocab, OnVocabulary(w, vocab), NEW u \in Marks, u.vocab = vocab
    PROVE  OnVocabulary(Append(w, u), vocab)
<1> DEFINE l == Append(w, u)
<1>1. /\ l \in Seq(Marks) /\ Len(l) = Len(w) + 1 /\ l[Len(w) + 1] = u
      /\ \A i \in 1 .. Len(w) : l[i] = w[i]
      /\ Len(w) \in Nat /\ \A i \in 1 .. Len(w) : w[i].vocab = vocab
  BY Longer DEF OnVocabulary
<1> HIDE DEF l
<1>2. ASSUME NEW i \in 1 .. Len(l) PROVE l[i].vocab = vocab
  <2>1. CASE i = Len(w) + 1
    BY <1>1, <2>1
  <2>2. CASE i # Len(w) + 1
    <3>1. i \in 1 .. Len(w)
      BY <1>1, <2>2
    <3> QED
      BY <1>1, <3>1
  <2> QED
    BY <2>1, <2>2
<1>3. OnVocabulary(l, vocab)
  BY <1>1, <1>2 DEF OnVocabulary
<1> QED
  BY <1>3 DEF l

\* A command that begins.
LEMMA BeginComposes ==
    ASSUME Chain!StagesAssumption, ChainInv,
           NEW kind, NEW out, NEW vocab, NEW config \in Configs, NEW weights_, NEW from, NEW short,
           Chain!Begin(kind, out, vocab, config, weights_, from, short),
           config.vocab = vocab, OnVocabulary(weights_, vocab),
           config.activation => kind \in FromCorpus,
           from \in Nat, kind \in FromCorpus => from = 0,
           kind \notin FromCorpus =>
              from >= Counted(weights_) /\ (~short => from = Counted(weights_))
    PROVE  ChainInv'
<1> DEFINE c == [kind |-> kind, out |-> out, vocab |-> vocab, config |-> config,
                 weights |-> weights_, start |-> from, done |-> 0, gaveUp |-> FALSE,
                 short |-> short]
<1>1. running' = c /\ outputs' = outputs
  BY DEF Chain!Begin
<1>2. CommandComposes(c)
  <2>1. /\ c.kind = kind /\ c.vocab = vocab /\ c.config = config /\ c.weights = weights_
        /\ c.start = from /\ c.done = 0 /\ ~c.gaveUp /\ c.short = short
        /\ Shaped(c)
    BY DEF Shaped
  <2> HIDE DEF c
  <2>2. 0 \in 0 .. StageUpdates /\ from + 0 = from
    BY DEF Chain!StagesAssumption
  <2> QED
    BY <2>1, <2>2 DEF CommandComposes
<1> HIDE DEF c
<1> QED
  BY <1>1, <1>2 DEF ChainInv, Chain!Loads

LEMMA BeginStep ==
    ASSUME Chain!StagesAssumption, ChainInv,
           NEW out \in Dirs, NEW vocab \in Vocabs, NEW activation \in BOOLEAN,
           \/ Chain!Pretrain(out, vocab, activation) \/ Chain!Midtrain(out, vocab, activation)
           \/ \E kind : kind \notin FromCorpus /\ Chain!PostTrain(kind, out, vocab)
    PROVE  ChainInv'
<1> DEFINE Loaded(d) == Chain!VocabularyFits(d, vocab)
<1>1. OnVocabulary(<<>>, vocab) /\ Counted(<<>>) = 0
  BY CountedNone DEF OnVocabulary
<1>2. ASSUME NEW kind, NEW on \in BOOLEAN, on => kind \in FromCorpus,
             Chain!FromScratch(kind, out, Chain!Tiny(vocab, on))
      PROVE  ChainInv'
  <2> DEFINE config == Chain!Tiny(vocab, on)
  <2>1. config \in Configs /\ config.vocab = vocab /\ (config.activation => on)
    BY DEF Chain!Tiny, Configs
  <2>2. Chain!Begin(kind, out, config.vocab, config, <<>>, 0, FALSE)
    BY <1>2 DEF Chain!FromScratch
  <2> HIDE DEF config
  <2>3. Chain!Begin(kind, out, vocab, config, <<>>, 0, FALSE)
    BY <2>1, <2>2
  <2>4. config.activation => kind \in FromCorpus
    BY <1>2, <2>1
  <2>5. 0 \in Nat /\ 0 >= Counted(<<>>) /\ (~FALSE => 0 = Counted(<<>>))
    BY <1>1
  <2> QED
    BY <1>1, <2>1, <2>3, <2>4, <2>5, BeginComposes, Zenon
<1>3. ASSUME NEW kind \in FromCorpus, NEW d \in Dirs, Chain!Continue(kind, out, d, vocab)
      PROVE  ChainInv'
  <2> DEFINE f == outputs[d]
  <2>1. FileComposes(f) /\ f.config.vocab = vocab
    BY <1>3 DEF Chain!Continue, Chain!VocabularyFits, ChainInv
  <2>2. Chain!Begin(kind, out, vocab, f.config, f.weights, 0, f.short)
    BY <1>3 DEF Chain!Continue
  <2> HIDE DEF f
  <2> QED
    BY <1>3, <2>1, <2>2, BeginComposes DEF FileComposes
<1>4. ASSUME NEW kind, kind \notin FromCorpus, NEW d \in Dirs,
             Chain!VocabularyFits(d, vocab),
             Chain!Begin(kind, out, vocab, Chain!ForInference(outputs[d].config),
                         outputs[d].weights, outputs[d].step, outputs[d].short)
      PROVE  ChainInv'
  <2> DEFINE f == outputs[d]
             config == Chain!ForInference(f.config)
  <2>1. FileComposes(f) /\ f.config.vocab = vocab
    BY <1>4 DEF Chain!VocabularyFits, ChainInv
  <2>2. config \in Configs /\ config.vocab = vocab /\ ~config.activation
    BY <2>1 DEF FileComposes, Configs, Chain!ForInference
  <2>3. Chain!Begin(kind, out, vocab, config, f.weights, f.step, f.short)
    BY <1>4
  <2> HIDE DEF f, config
  <2> QED
    BY <1>4, <2>1, <2>2, <2>3, BeginComposes DEF FileComposes
<1>5. CASE Chain!Pretrain(out, vocab, activation)
  BY <1>2, <1>3, <1>5 DEF Chain!Pretrain, FromCorpus
<1>6. CASE Chain!Midtrain(out, vocab, activation)
  BY <1>2, <1>3, <1>6 DEF Chain!Midtrain, FromCorpus
<1>7. ASSUME NEW kind, kind \notin FromCorpus, Chain!PostTrain(kind, out, vocab) PROVE ChainInv'
  BY <1>2, <1>4, <1>7 DEF Chain!PostTrain
<1> QED
  BY <1>5, <1>6, <1>7

\* A command's next update.
LEMMA UpdateStep ==
    ASSUME Chain!StagesAssumption, ChainInv, Chain!Update PROVE ChainInv'
<1> DEFINE c == running
           fresh == c.done = 0 /\ c.kind \in {"pretrain", "midtrain"}
           u == [vocab |-> c.vocab, first |-> fresh]
           more == Append(c.weights, u)
<1>1. /\ CommandComposes(c) /\ c.done < StageUpdates /\ ~c.gaveUp /\ outputs' = outputs
      /\ running' = [c EXCEPT !.done = c.done + 1, !.weights = more]
  BY DEF Chain!Update, ChainInv
<1>2. u \in Marks /\ u.vocab = c.vocab /\ (u.first <=> fresh)
  BY <1>1 DEF Marks, CommandComposes, Configs
<1>3. /\ OnVocabulary(more, c.vocab)
      /\ fresh => Counted(more) = 1
      /\ ~fresh => Counted(more) = Counted(c.weights) + 1
      /\ Counted(c.weights) \in Int
  <2>1. OnVocabulary(c.weights, c.vocab) /\ c.weights \in Seq(Marks)
    BY <1>1 DEF CommandComposes, OnVocabulary
  <2> HIDE DEF u, fresh
  <2> QED
    BY <1>2, <2>1, CountedMore, HistoryGrows
<1>4. Shaped(c)
  BY <1>1 DEF CommandComposes
<1> DEFINE b == running'
<1> HIDE DEF more, u
<1>5. /\ b.kind = c.kind /\ b.vocab = c.vocab /\ b.config = c.config /\ b.start = c.start
      /\ b.gaveUp = c.gaveUp /\ b.short = c.short
      /\ b.done = c.done + 1 /\ b.weights = more /\ Shaped(b)
  BY <1>1, <1>4 DEF Shaped
<1>6. CommandComposes(b)
  <2>1. /\ c.config \in Configs /\ c.config.vocab = c.vocab
        /\ c.config.activation => c.kind \in FromCorpus
        /\ c.gaveUp => c.short
    BY <1>1 DEF CommandComposes
  <2>2. c.start \in Nat /\ c.done \in 0 .. StageUpdates /\ b.done \in 0 .. StageUpdates
    BY <1>1, <1>5 DEF CommandComposes, Chain!StagesAssumption
  <2>3. CASE c.kind \in FromCorpus
    <3>1. c.start = 0 /\ (c.done = 0 \/ c.done = Counted(c.weights))
      BY <1>1, <2>3 DEF CommandComposes
    <3>2. b.done = Counted(more)
      BY <1>3, <1>5, <2>2, <2>3, <3>1 DEF FromCorpus
    <3> QED
      BY <1>1, <1>3, <1>5, <2>1, <2>2, <2>3, <3>1, <3>2 DEF CommandComposes
  <2>4. CASE c.kind \notin FromCorpus
    <3>1. /\ c.start + c.done >= Counted(c.weights)
          /\ ~c.short => c.start + c.done = Counted(c.weights)
      BY <1>1, <2>4 DEF CommandComposes
    <3>2. Counted(more) = Counted(c.weights) + 1
      BY <1>3, <2>4 DEF FromCorpus
    <3>3. /\ b.start + b.done >= Counted(more)
          /\ ~b.short => b.start + b.done = Counted(more)
      BY <1>3, <1>5, <2>2, <3>1, <3>2
    <3> QED
      BY <1>3, <1>5, <2>1, <2>2, <2>4, <3>3 DEF CommandComposes
  <2> QED
    BY <2>3, <2>4
<1> QED
  BY <1>1, <1>6 DEF ChainInv, Chain!Loads

\* A distillation that gives up.
LEMMA GivesUpStep ==
    ASSUME Chain!StagesAssumption, ChainInv, Chain!GivesUp PROVE ChainInv'
<1> DEFINE c == running
           b == running'
<1>1. /\ CommandComposes(c) /\ c.kind = "distill" /\ outputs' = outputs
      /\ b = [c EXCEPT !.gaveUp = TRUE, !.short = TRUE]
  BY DEF Chain!GivesUp, ChainInv, Chain!Idle
<1>2. Shaped(c)
  BY <1>1 DEF CommandComposes
<1>3. /\ b.kind = c.kind /\ b.vocab = c.vocab /\ b.config = c.config /\ b.start = c.start
      /\ b.short /\ b.done = c.done /\ b.weights = c.weights /\ Shaped(b)
  BY <1>1, <1>2 DEF Shaped
<1>4. CommandComposes(b)
  BY <1>1, <1>3 DEF CommandComposes, FromCorpus
<1> QED
  BY <1>1, <1>4 DEF ChainInv, Chain!Loads

\* A command that ends, writes its file, or dies.
LEMMA EndStep ==
    ASSUME Chain!StagesAssumption, ChainInv, Chain!Save \/ Chain!Leave PROVE ChainInv'
<1> DEFINE c == running
<1>1. running' = Chain!Idle /\ CommandComposes(c)
  BY DEF Chain!Save, Chain!Leave, ChainInv
<1>2. CASE Chain!Save
  <2> DEFINE f == [state |-> "whole", config |-> c.config, weights |-> c.weights,
                   step |-> Chain!SavedStep, short |-> c.short]
  <2>1. outputs' = [outputs EXCEPT ![c.out] = f] /\ (c.done = StageUpdates \/ c.gaveUp)
    BY <1>2 DEF Chain!Save, Chain!LoopOver
  <2>2. /\ f.config = c.config /\ f.weights = c.weights /\ f.short = c.short
        /\ f.step = c.start + StageUpdates
    BY DEF Chain!SavedStep
  <2> HIDE DEF f
  <2>3. /\ c.start \in Nat /\ c.done \in 0 .. StageUpdates
        /\ StageUpdates \in Nat /\ StageUpdates > 0
        /\ c.gaveUp => c.short
        /\ Counted(c.weights) \in Int
    BY <1>1, CountedTyped DEF CommandComposes, Chain!StagesAssumption, OnVocabulary
  <2>4. CASE c.kind \in FromCorpus
    <3>1. c.start = 0 /\ c.done = StageUpdates /\ c.done = Counted(c.weights)
      BY <1>1, <2>1, <2>3, <2>4 DEF CommandComposes
    <3>2. FileComposes(f)
      BY <1>1, <2>2, <2>3, <3>1 DEF FileComposes, CommandComposes
    <3> QED
      BY <1>1, <2>1, <3>2 DEF ChainInv, Chain!Loads
  <2>5. CASE c.kind \notin FromCorpus
    <3>1. /\ c.start + c.done >= Counted(c.weights)
          /\ ~c.short => c.start + c.done = Counted(c.weights)
      BY <1>1, <2>5 DEF CommandComposes
    <3>2. f.step \in Nat /\ f.step >= Counted(f.weights)
      BY <2>2, <2>3, <3>1
    <3>3. ~f.short => f.step = Counted(f.weights)
      BY <2>1, <2>2, <2>3, <3>1
    <3>4. FileComposes(f)
      BY <1>1, <2>2, <3>2, <3>3 DEF FileComposes, CommandComposes
    <3> QED
      BY <1>1, <2>1, <3>4 DEF ChainInv, Chain!Loads
  <2> QED
    BY <2>4, <2>5
<1>3. CASE Chain!Leave
  <2>1. outputs' = outputs \/ outputs' = [outputs EXCEPT ![c.out] = Chain!Torn]
    BY <1>3 DEF Chain!Leave
  <2>2. Chain!Torn.state = "torn"
    BY DEF Chain!Torn
  <2> QED
    BY <1>1, <2>1, <2>2 DEF ChainInv, Chain!Loads
<1> QED
  BY <1>2, <1>3

LEMMA ChainNextStep ==
    ASSUME Chain!StagesAssumption, ChainInv, [Chain!Next]_(Chain!vars) PROVE ChainInv'
<1>1. ASSUME NEW out \in Dirs, NEW vocab \in Vocabs, NEW activation \in BOOLEAN,
             Chain!Pretrain(out, vocab, activation) \/ Chain!Midtrain(out, vocab, activation)
      PROVE  ChainInv'
  BY <1>1, BeginStep
<1>2. ASSUME NEW out \in Dirs, NEW vocab \in Vocabs,
             \/ Chain!Sft(out, vocab) \/ Chain!Dpo(out, vocab) \/ Chain!Grpo(out, vocab)
             \/ Chain!Ppo(out, vocab) \/ Chain!Rloo(out, vocab)
             \/ Chain!CodeAgent(out, vocab) \/ Chain!Distill(out, vocab)
      PROVE  ChainInv'
  <2>1. \E kind : kind \notin FromCorpus /\ Chain!PostTrain(kind, out, vocab)
    BY <1>2 DEF Chain!Sft, Chain!Dpo, Chain!Grpo, Chain!Ppo, Chain!Rloo, Chain!CodeAgent,
                Chain!Distill, FromCorpus
  <2> QED
    BY <2>1, BeginStep
<1>3. CASE UNCHANGED Chain!vars
  BY <1>3 DEF Chain!vars, ChainInv, Chain!Loads
<1> QED
  BY <1>1, <1>2, <1>3, UpdateStep, GivesUpStep, EndStep DEF Chain!Next

\* Whatever directories, tokenizers and chain of commands, with any of them dying at any
\* point: all updates in a file were made on the ids of its vocabulary, its step is the
\* number of its updates since the last pre- or mid-training began, or more if a distillation
\* gave up, and only pre- and mid-training run with activation_checkpoint (cli/train.py).
THEOREM ChainsCompose == Chain!Spec => []StagesCompose
<1>1. Chain!Init => ChainInv
  BY DEF Chain!Init, ChainInv, Chain!Loads, Chain!Absent
<1>2. ChainInv /\ [Chain!Next]_(Chain!vars) => ChainInv'
  BY StageParameters, ChainNextStep
<1>3. ChainInv => StagesCompose
  BY DEF ChainInv, FileComposes, CommandComposes, OnVocabulary, Counted, FromCorpus,
         StagesCompose, Chain!StagesCompose
<1> QED
  BY <1>1, <1>2, <1>3, PTL DEF Chain!Spec

----------------------------------------------------------------------------
(***************************************************************************)
(* OnPolicy.  From a rollout to its update the samples are of the prompt   *)
(* whose turn it is and of the weights of the model; and a rollout starts  *)
(* only where steps and attempts are left.                                 *)
(***************************************************************************)

Generation == [prompt : Nat, version : Nat]

Scored == [sample : Generation, reward : Int, of : Nat]

Underway == {"rollout", "score", "update", "sync"}

TrainerTypeOK ==
    /\ pc \in Underway \cup {"done", "raised"}
    /\ prompt \in 1 .. Prompts
    /\ {step, attempts, model, engine} \subseteq Nat

VersionsAgree ==
    /\ model = step + (IF pc = "sync" THEN 1 ELSE 0)
    /\ pc \in {"rollout", "score", "update"} => engine = model
    /\ reference = 0

\* The samples and what is scored of them.
GroupIsOfPrompt ==
    /\ pc \in {"score", "update"} =>
          /\ \A i \in 1 .. GroupSize : samples[i] = [prompt |-> prompt, version |-> model]
          /\ buffer \in Seq(Scored)
          /\ \A i \in 1 .. Len(buffer) :
                /\ buffer[i].sample = [prompt |-> prompt, version |-> model]
                /\ buffer[i].of = prompt
    /\ pc = "score" => Len(buffer) < GroupSize
    /\ pc = "update" => Len(buffer) = GroupSize

\* A distillation enters a pass over the prompts with an attempt left, and every other
\* trainer makes an update of every attempt.
AttemptsLeft ==
    /\ pc \in Underway => step < PolicySteps
    /\ attempts <= MaxAttempts - 1 + Prompts
    /\ algo = "distill" =>
          /\ pc = "rollout" => attempts <= MaxAttempts - 1 + (prompt - 1)
          /\ pc \in {"score", "update", "sync"} => attempts <= MaxAttempts - 1 + prompt
    /\ algo # "distill" =>
          /\ pc = "rollout" => attempts = step
          /\ pc \in {"score", "update", "sync"} => attempts = step + 1
    /\ (pc = "done" /\ step < PolicySteps) => (algo = "distill" /\ attempts >= MaxAttempts)

TrainerInv == TrainerTypeOK /\ VersionsAgree /\ GroupIsOfPrompt /\ AttemptsLeft

LEMMA TrainerFacts ==
    ASSUME Trainer!OnPolicyAssumption
    PROVE  /\ Prompts \in Nat /\ Prompts > 0 /\ PolicySteps \in Nat /\ PolicySteps > 0
           /\ MaxAttempts \in Nat /\ MaxAttempts > 0 /\ MaxAttempts >= PolicySteps
           /\ GroupSize \in Nat /\ GroupSize > 0 /\ Rewards \subseteq Int
BY DEF Trainer!OnPolicyAssumption

LEMMA TrainerStart == Trainer!OnPolicyAssumption /\ Trainer!Init => TrainerInv
BY TrainerFacts DEF Trainer!Init, TrainerInv, TrainerTypeOK, VersionsAgree, GroupIsOfPrompt,
                    AttemptsLeft, Underway

LEMMA NextPromptTyped ==
    ASSUME Trainer!OnPolicyAssumption, prompt \in 1 .. Prompts
    PROVE  /\ Trainer!NextPrompt \in 1 .. Prompts
           /\ Trainer!NextPrompt = 1 \/ Trainer!NextPrompt - 1 = prompt
           /\ Trainer!NextPrompt # 1 => prompt # Prompts
BY TrainerFacts DEF Trainer!NextPrompt

LEMMA TrainerRollout ==
    ASSUME Trainer!OnPolicyAssumption, TrainerInv, Trainer!Rollout PROVE TrainerInv'
<1>1. /\ pc = "rollout" /\ pc' = "score" /\ attempts' = attempts + 1 /\ buffer' = <<>>
      /\ samples' = [i \in 1 .. GroupSize |-> [prompt |-> prompt, version |-> engine]]
      /\ algo' = algo /\ prompt' = prompt /\ step' = step /\ model' = model
      /\ engine' = engine /\ reference' = reference
  BY DEF Trainer!Rollout, Trainer!Group
<1>2. TrainerTypeOK' /\ VersionsAgree'
  BY <1>1 DEF TrainerInv, TrainerTypeOK, VersionsAgree, Underway
<1>3. GroupIsOfPrompt'
  <2>1. engine = model
    BY <1>1 DEF TrainerInv, VersionsAgree
  <2>2. \A i \in 1 .. GroupSize : samples'[i] = [prompt |-> prompt, version |-> model]
    BY <1>1, <2>1
  <2>3. buffer' \in Seq(Scored) /\ Len(buffer') = 0
    BY <1>1
  <2> QED
    BY <1>1, <2>2, <2>3, TrainerFacts DEF GroupIsOfPrompt
<1>4. AttemptsLeft'
  BY <1>1, TrainerFacts, SMTT(30) DEF TrainerInv, TrainerTypeOK, AttemptsLeft, Underway
<1> QED
  BY <1>2, <1>3, <1>4 DEF TrainerInv

LEMMA TrainerScore ==
    ASSUME Trainer!OnPolicyAssumption, TrainerInv, NEW reward_ \in Rewards,
           Trainer!Score(reward_)
    PROVE  TrainerInv'
<1> DEFINE sample == samples[Len(buffer) + 1]
           entry == [sample |-> sample, reward |-> reward_, of |-> sample.prompt]
           whole == [prompt |-> prompt, version |-> model]
<1>1. /\ pc = "score" /\ pc' = (IF Len(buffer') = GroupSize THEN "update" ELSE "score")
      /\ buffer' = Append(buffer, entry)
      /\ algo' = algo /\ prompt' = prompt /\ step' = step /\ model' = model
      /\ engine' = engine /\ reference' = reference /\ samples' = samples
      /\ attempts' = attempts
  BY DEF Trainer!Score
<1>2. /\ \A i \in 1 .. GroupSize : samples[i] = whole
      /\ buffer \in Seq(Scored) /\ Len(buffer) < GroupSize
      /\ \A i \in 1 .. Len(buffer) : buffer[i].sample = whole /\ buffer[i].of = prompt
  BY <1>1 DEF TrainerInv, GroupIsOfPrompt
<1>3. /\ prompt \in Nat /\ model \in Nat /\ pc' \in {"update", "score"}
      /\ whole \in Generation /\ whole.prompt = prompt
  BY <1>1 DEF TrainerInv, TrainerTypeOK, Generation
<1> HIDE DEF whole
<1>4. sample = whole
  BY <1>2, TrainerFacts
<1>5. entry \in Scored /\ entry.sample = whole /\ entry.of = prompt
  BY <1>3, <1>4, TrainerFacts DEF Scored
<1> HIDE DEF entry
<1>6. /\ buffer' \in Seq(Scored) /\ Len(buffer') = Len(buffer) + 1 /\ Len(buffer) \in Nat
      /\ buffer'[Len(buffer) + 1] = entry
      /\ \A i \in 1 .. Len(buffer) : buffer'[i] = buffer[i]
  BY <1>1, <1>2, <1>5, Longer
<1>7. ASSUME NEW i \in 1 .. Len(buffer')
      PROVE  buffer'[i].sample = whole /\ buffer'[i].of = prompt
  <2>1. CASE i = Len(buffer) + 1
    BY <1>5, <1>6, <2>1
  <2>2. CASE i # Len(buffer) + 1
    <3>1. i \in 1 .. Len(buffer)
      BY <1>6, <2>2
    <3> QED
      BY <1>2, <1>6, <3>1
  <2> QED
    BY <2>1, <2>2
<1>8. pc' = "score" => Len(buffer') < GroupSize
  BY <1>1, <1>2, <1>6, TrainerFacts
<1>9. GroupIsOfPrompt'
  BY <1>1, <1>2, <1>6, <1>7, <1>8 DEF GroupIsOfPrompt, whole
<1>10. TrainerTypeOK' /\ VersionsAgree' /\ AttemptsLeft'
  BY <1>1, <1>3 DEF TrainerInv, TrainerTypeOK, VersionsAgree, AttemptsLeft, Underway
<1> QED
  BY <1>9, <1>10 DEF TrainerInv

LEMMA TrainerApply ==
    ASSUME TrainerInv, pc = "update", NEW coefficients, Trainer!Apply(coefficients)
    PROVE  TrainerInv'
<1>1. /\ pc' = "sync" /\ model' = model + 1
      /\ algo' = algo /\ prompt' = prompt /\ step' = step /\ attempts' = attempts
      /\ engine' = engine /\ reference' = reference
  BY DEF Trainer!Apply
<1> QED
  BY <1>1 DEF TrainerInv, TrainerTypeOK, VersionsAgree, GroupIsOfPrompt, AttemptsLeft, Underway

\* A prompt none of whose samples is accepted.
LEMMA TrainerNoneAccepted ==
    ASSUME Trainer!OnPolicyAssumption, TrainerInv, pc = "update", algo = "distill",
           pc' = (IF attempts >= MaxAttempts THEN "done" ELSE "rollout"),
           prompt' = Trainer!NextPrompt,
           UNCHANGED <<algo, step, attempts, model, engine, reference, samples, buffer>>
    PROVE  TrainerInv'
<1>1. pc' \in {"done", "rollout"} /\ prompt' \in 1 .. Prompts
  BY NextPromptTyped DEF TrainerInv, TrainerTypeOK
<1>2. TrainerTypeOK' /\ GroupIsOfPrompt'
  BY <1>1 DEF TrainerInv, TrainerTypeOK, GroupIsOfPrompt, Underway
<1>3. AttemptsLeft'
  BY <1>1, TrainerFacts DEF TrainerInv, TrainerTypeOK, AttemptsLeft, Underway
<1>4. VersionsAgree'
  BY <1>1 DEF TrainerInv, VersionsAgree
<1> QED
  BY <1>2, <1>3, <1>4 DEF TrainerInv

LEMMA TrainerSync ==
    ASSUME Trainer!OnPolicyAssumption, TrainerInv, Trainer!Sync PROVE TrainerInv'
<1>1. /\ pc = "sync" /\ engine' = model /\ step' = step + 1 /\ prompt' = Trainer!NextPrompt
      /\ pc' = (IF \/ step' >= PolicySteps
                   \/ algo = "distill" /\ prompt = Prompts /\ attempts >= MaxAttempts
                THEN "done" ELSE "rollout")
      /\ algo' = algo /\ attempts' = attempts /\ model' = model /\ reference' = reference
  BY DEF Trainer!Sync
<1>2. /\ pc' \in {"done", "rollout"} /\ prompt' \in 1 .. Prompts /\ model = step + 1
      /\ prompt' = 1 \/ prompt' - 1 = prompt
      /\ prompt' # 1 => prompt # Prompts
      /\ prompt' = 1 => prompt = Prompts
      /\ {step, attempts, model, engine} \subseteq Nat
  BY <1>1, NextPromptTyped, TrainerFacts
  DEF TrainerInv, TrainerTypeOK, VersionsAgree, Trainer!NextPrompt
<1>3. TrainerTypeOK' /\ VersionsAgree' /\ GroupIsOfPrompt'
  BY <1>1, <1>2 DEF TrainerInv, TrainerTypeOK, VersionsAgree, GroupIsOfPrompt, Underway
<1>4. AttemptsLeft'
  BY <1>1, <1>2, TrainerFacts DEF TrainerInv, TrainerTypeOK, AttemptsLeft, Underway
<1> QED
  BY <1>3, <1>4 DEF TrainerInv

LEMMA TrainerNextStep ==
    ASSUME Trainer!OnPolicyAssumption, TrainerInv, [Trainer!Next]_(Trainer!vars)
    PROVE  TrainerInv'
<1>1. CASE Trainer!Rollout
  BY <1>1, TrainerRollout
<1>2. CASE \E r \in Rewards : Trainer!Score(r)
  BY <1>2, TrainerScore
<1>3. CASE Trainer!ScoreRaises
  <2>1. /\ pc = "score" /\ pc' = "raised"
        /\ UNCHANGED <<algo, prompt, step, attempts, model, engine, reference, samples, buffer>>
    BY <1>3 DEF Trainer!ScoreRaises
  <2> QED
    BY <2>1 DEF TrainerInv, TrainerTypeOK, VersionsAgree, GroupIsOfPrompt, AttemptsLeft, Underway
<1>4. CASE Trainer!GrpoUpdate \/ Trainer!PpoUpdate \/ Trainer!RlooUpdate
  <2>1. pc = "update" /\ \E c : Trainer!Apply(c)
    BY <1>4 DEF Trainer!GrpoUpdate, Trainer!PpoUpdate, Trainer!RlooUpdate
  <2> QED
    BY <2>1, TrainerApply
<1>5. CASE Trainer!DistillUpdate
  <2>1. CASE \E c : Trainer!Apply(c)
    BY <1>5, <2>1, TrainerApply DEF Trainer!DistillUpdate
  <2>2. CASE ~\E c : Trainer!Apply(c)
    <3>1. /\ pc = "update" /\ algo = "distill" /\ prompt' = Trainer!NextPrompt
          /\ pc' = (IF attempts >= MaxAttempts THEN "done" ELSE "rollout")
          /\ UNCHANGED <<algo, step, attempts, model, engine, reference, samples, buffer>>
      BY <1>5, <2>2 DEF Trainer!DistillUpdate
    <3> QED
      BY <3>1, TrainerNoneAccepted
  <2> QED
    BY <2>1, <2>2
<1>6. CASE Trainer!Sync
  BY <1>6, TrainerSync
<1>7. CASE UNCHANGED Trainer!vars
  BY <1>7 DEF Trainer!vars, TrainerInv, TrainerTypeOK, VersionsAgree, GroupIsOfPrompt,
              AttemptsLeft
<1> QED
  BY <1>1, <1>2, <1>3, <1>4, <1>5, <1>6, <1>7 DEF Trainer!Next

\* Whatever the prompts, the group and the rewards: an update is made from one full group of
\* the prompt whose turn it is, sampled from the very weights it updates and scored for that
\* prompt, every update reaches the engine, and steps are missing only where a distillation
\* has used up its attempts (grpo.py, ppo.py, rloo.py, distill.py).
THEOREM UpdatesStayOnPolicy == Trainer!Spec => []UpdatesExact
<1>1. Trainer!Init => TrainerInv
  BY PolicyParameters, TrainerStart
<1>2. TrainerInv /\ [Trainer!Next]_(Trainer!vars) => TrainerInv'
  BY PolicyParameters, TrainerNextStep
<1>3. TrainerInv => UpdatesExact
  <2> SUFFICES ASSUME TrainerInv PROVE UpdatesExact
    OBVIOUS
  <2>1. Trainer!UpdatesOnPolicy
    BY DEF TrainerInv, VersionsAgree, GroupIsOfPrompt, Trainer!UpdatesOnPolicy, Trainer!Group
  <2>2. Trainer!StopsHonestly
    BY PolicyParameters, TrainerFacts DEF TrainerInv, TrainerTypeOK, AttemptsLeft,
                                          Trainer!StopsHonestly
  <2> QED
    BY <2>1, <2>2 DEF UpdatesExact, Trainer!UpdatesExact
<1> QED
  BY <1>1, <1>2, <1>3, PTL DEF Trainer!Spec

(* The coefficients: the three trainers with a baseline come to the same ones. *)

GroupIsScored == buffer \in Seq(Scored) /\ Len(buffer) = GroupSize

CoefficientsKnown ==
    pc = "sync" =>
        /\ GroupIsScored
        /\ algo = "distill" => gradient = Trainer!DistillCoefficients
        /\ algo # "distill" => gradient = Trainer!Centred

LEMMA TrainerTotal == \A s : Trainer!Total(s) = Total(s)
BY DEF Trainer!Total, Trainer!Totals, Total, Totals

LEMMA RewardsOfGroup ==
    ASSUME Trainer!OnPolicyAssumption, GroupIsScored
    PROVE  /\ Trainer!GroupRewards \in Seq(Int) /\ Len(Trainer!GroupRewards) = GroupSize
           /\ \A i \in 1 .. GroupSize : /\ Trainer!GroupRewards[i] \in Int
                                        /\ Trainer!GroupRewards[i] = buffer[i].reward
           /\ Total(Trainer!GroupRewards) \in Int
<1>1. \A i \in 1 .. GroupSize : buffer[i] \in Scored
  BY TrainerFacts DEF GroupIsScored
<1>2. \A i \in 1 .. GroupSize : buffer[i].reward \in Int
  BY <1>1 DEF Scored
<1>3. Trainer!GroupRewards = [i \in 1 .. GroupSize |-> buffer[i].reward]
  BY DEF Trainer!GroupRewards, Trainer!Group
<1>4. Trainer!GroupRewards \in Seq(Int) /\ Len(Trainer!GroupRewards) = GroupSize
  BY <1>2, <1>3, TrainerFacts
<1>5. Total(Trainer!GroupRewards) \in Int
  BY <1>4, TotalsAre
<1> QED
  BY <1>2, <1>3, <1>4, <1>5

LEMMA CentredFacts ==
    ASSUME Trainer!OnPolicyAssumption, GroupIsScored
    PROVE  /\ Trainer!Centred \in Seq(Int) /\ Len(Trainer!Centred) = GroupSize
           /\ \A i \in 1 .. GroupSize :
                Trainer!Centred[i] = GroupSize * Trainer!GroupRewards[i] - Total(Trainer!GroupRewards)
           /\ Total(Trainer!Centred) = 0
<1> DEFINE r == Trainer!GroupRewards
           total == Total(r)
           c == Trainer!Centred
<1>1. /\ r \in Seq(Int) /\ Len(r) = GroupSize /\ total \in Int
      /\ \A i \in 1 .. GroupSize : r[i] \in Int
  BY RewardsOfGroup
<1>2. c = [i \in 1 .. GroupSize |-> GroupSize * r[i] - total]
  BY TrainerTotal DEF Trainer!Centred, Trainer!Group
<1>3. GroupSize \in Nat /\ GroupSize \in Int /\ 0 - total \in Int
  BY <1>1, TrainerFacts
<1> HIDE DEF r, total, c
<1>4. \A i \in 1 .. GroupSize : GroupSize * r[i] - total \in Int
  BY <1>1, <1>3
<1>5. c \in Seq(Int) /\ Len(c) = GroupSize
  BY <1>2, <1>3, <1>4
<1>6. \A i \in 1 .. GroupSize : c[i] = GroupSize * r[i] + (0 - total)
  BY <1>1, <1>2, <1>3
<1>7. Total(c) = GroupSize * total + GroupSize * (0 - total)
  <2> DEFINE shift == 0 - total
  <2>1. shift \in Int /\ Len(c) = Len(r) /\ \A i \in 1 .. Len(r) : c[i] = GroupSize * r[i] + shift
    BY <1>1, <1>3, <1>5, <1>6
  <2> HIDE DEF shift
  <2>2. Total(c) = GroupSize * Total(r) + Len(r) * shift
    BY <1>1, <1>3, <1>5, <2>1, TotalOfScaled, Zenon
  <2> QED
    BY <1>1, <2>2 DEF total, shift
<1>8. GroupSize * (0 - total) = 0 - GroupSize * total /\ GroupSize * total \in Int
  BY <1>1, <1>3
<1>9. Total(c) = 0
  BY <1>7, <1>8
<1> QED
  BY <1>2, <1>5, <1>9 DEF r, total, c

LEMMA CoefficientsStep ==
    ASSUME Trainer!OnPolicyAssumption, TrainerInv, CoefficientsKnown,
           [Trainer!Next]_(Trainer!vars)
    PROVE  CoefficientsKnown'
<1>1. CASE UNCHANGED Trainer!vars
  BY <1>1 DEF Trainer!vars, CoefficientsKnown, GroupIsScored, Trainer!DistillCoefficients,
              Trainer!Accepted, Trainer!Centred, Trainer!GroupRewards, Trainer!Group
<1>2. ASSUME NEW c, pc = "update", Trainer!Apply(c),
             algo = "distill" => c = Trainer!DistillCoefficients,
             algo # "distill" => c = Trainer!Centred
      PROVE  CoefficientsKnown'
  <2>1. gradient' = c /\ algo' = algo /\ buffer' = buffer
    BY <1>2 DEF Trainer!Apply
  <2>2. GroupIsScored
    BY <1>2 DEF TrainerInv, GroupIsOfPrompt, GroupIsScored
  <2>3. /\ Trainer!DistillCoefficients' = Trainer!DistillCoefficients
        /\ Trainer!Centred' = Trainer!Centred /\ GroupIsScored'
    BY <2>1, <2>2 DEF GroupIsScored, Trainer!DistillCoefficients, Trainer!Accepted,
                      Trainer!Centred, Trainer!GroupRewards, Trainer!Group
  <2> QED
    BY <1>2, <2>1, <2>3 DEF CoefficientsKnown
<1>3. CASE Trainer!GrpoUpdate
  BY <1>2, <1>3 DEF Trainer!GrpoUpdate, Trainer!GrpoCoefficients
<1>4. CASE Trainer!PpoUpdate
  <2>1. pc = "update" /\ algo = "ppo" /\ Trainer!Apply(Trainer!PpoCoefficients)
    BY <1>4 DEF Trainer!PpoUpdate
  <2>2. \A i \in 1 .. GroupSize : buffer[i].sample.version = model
    BY <2>1, TrainerFacts DEF TrainerInv, GroupIsOfPrompt
  <2>3. Trainer!PpoCoefficients = Trainer!Centred
    BY <2>2 DEF Trainer!PpoCoefficients, Trainer!Centred, Trainer!Group
  <2> QED
    BY <1>2, <2>1, <2>3
<1>5. CASE Trainer!RlooUpdate
  <2>1. pc = "update" /\ algo = "rloo" /\ Trainer!Apply(Trainer!RlooCoefficients)
    BY <1>5 DEF Trainer!RlooUpdate
  <2> DEFINE r == Trainer!GroupRewards
             total == Total(r)
  <2>2. total \in Int /\ \A i \in 1 .. GroupSize : r[i] \in Int
    <3>1. GroupIsScored
      BY <2>1 DEF TrainerInv, GroupIsOfPrompt, GroupIsScored
    <3> QED
      BY <3>1, RewardsOfGroup
  <2>3. /\ Trainer!RlooCoefficients =
             [i \in 1 .. GroupSize |-> (GroupSize - 1) * r[i] - (total - r[i])]
        /\ Trainer!Centred = [i \in 1 .. GroupSize |-> GroupSize * r[i] - total]
    BY TrainerTotal DEF Trainer!RlooCoefficients, Trainer!Centred, Trainer!Group
  <2> HIDE DEF r, total
  <2>4. ASSUME NEW i \in 1 .. GroupSize
        PROVE  (GroupSize - 1) * r[i] - (total - r[i]) = GroupSize * r[i] - total
    <3>1. r[i] \in Int /\ GroupSize \in Int /\ GroupSize * r[i] \in Int
      BY <2>2, TrainerFacts
    <3>2. (GroupSize - 1) * r[i] = GroupSize * r[i] - r[i]
      BY <3>1
    <3> QED
      BY <2>2, <3>1, <3>2
  <2>5. Trainer!RlooCoefficients = Trainer!Centred
    BY <2>3, <2>4
  <2> QED
    BY <1>2, <2>1, <2>5
<1>6. CASE Trainer!DistillUpdate
  <2>1. CASE Trainer!Apply(Trainer!DistillCoefficients)
    BY <1>2, <1>6, <2>1 DEF Trainer!DistillUpdate
  <2>2. CASE ~Trainer!Apply(Trainer!DistillCoefficients)
    <3>1. pc' = (IF attempts >= MaxAttempts THEN "done" ELSE "rollout")
      BY <1>6, <2>2 DEF Trainer!DistillUpdate
    <3> QED
      BY <3>1 DEF CoefficientsKnown
  <2> QED
    BY <2>1, <2>2
<1>7. CASE Trainer!Rollout \/ Trainer!ScoreRaises \/ Trainer!Sync \/ \E r \in Rewards : Trainer!Score(r)
  <2>1. pc' # "sync"
    BY <1>7 DEF Trainer!Rollout, Trainer!ScoreRaises, Trainer!Sync, Trainer!Score
  <2> QED
    BY <2>1 DEF CoefficientsKnown
<1> QED
  BY <1>1, <1>3, <1>4, <1>5, <1>6, <1>7 DEF Trainer!Next

LEMMA Scales ==
    ASSUME NEW n \in Nat, n > 0, NEW x \in Int, NEW y \in Int, NEW t \in Int
    PROVE  x < y <=> n * x - t < n * y - t
<1>1. n * (y - x) = n * y - n * x /\ n * x \in Int /\ n * y \in Int
  OBVIOUS
<1>2. CASE x < y
  <2>1. n * (y - x) > 0
    BY <1>2
  <2> QED
    BY <1>1, <1>2, <2>1
<1>3. CASE ~(x < y)
  <2>1. n * (x - y) >= 0 /\ n * (x - y) = n * x - n * y
    BY <1>3
  <2> QED
    BY <1>1, <1>3, <2>1
<1> QED
  BY <1>2, <1>3

\* Whatever the rewards of a group, of any size: the coefficients of GRPO, PPO and RLOO are
\* the same up to a factor, sum to zero and order the samples as their rewards do, and a
\* distillation counts exactly the samples it accepts (grpo.py, ppo.py, rloo.py, distill.py).
THEOREM AdvantagesAreFair == Trainer!Spec => []AdvantagesFair
<1> DEFINE Inv == TrainerInv /\ CoefficientsKnown
<1>1. Trainer!Init => Inv
  BY PolicyParameters, TrainerStart DEF Trainer!Init, CoefficientsKnown
<1>2. Inv /\ [Trainer!Next]_(Trainer!vars) => Inv'
  BY PolicyParameters, TrainerNextStep, CoefficientsStep
<1>3. Inv => AdvantagesFair
  <2> SUFFICES ASSUME CoefficientsKnown, pc = "sync"
               PROVE  IF algo = "distill"
                      THEN \A i \in Trainer!Group :
                             gradient[i] = 1 <=> Trainer!GroupRewards[i] >= Threshold
                      ELSE /\ Trainer!Total(gradient) = 0
                           /\ \A i, j \in Trainer!Group :
                                Trainer!GroupRewards[i] < Trainer!GroupRewards[j]
                                  <=> gradient[i] < gradient[j]
                           /\ \A i, j \in Trainer!Group :
                                gradient[i] * Trainer!Centred[j] = gradient[j] * Trainer!Centred[i]
    BY DEF AdvantagesFair, Trainer!AdvantagesFair
  <2>1. CASE algo = "distill"
    BY <2>1 DEF CoefficientsKnown, Trainer!DistillCoefficients, Trainer!Accepted
  <2>2. CASE algo # "distill"
    <3>1. GroupIsScored /\ gradient = Trainer!Centred
      BY <2>2 DEF CoefficientsKnown
    <3> DEFINE r == Trainer!GroupRewards
               total == Total(r)
    <3>2. /\ Total(gradient) = 0 /\ total \in Int /\ GroupSize \in Nat /\ GroupSize > 0
          /\ \A i \in 1 .. GroupSize : r[i] \in Int /\ gradient[i] = GroupSize * r[i] - total
      BY <3>1, PolicyParameters, CentredFacts, RewardsOfGroup, TrainerFacts
    <3>3. Trainer!Group = 1 .. GroupSize
      BY DEF Trainer!Group
    <3>4. Trainer!Total(gradient) = 0
      BY <3>2, TrainerTotal
    <3> HIDE DEF r, total
    <3>5. \A i, j \in 1 .. GroupSize : r[i] < r[j] <=> gradient[i] < gradient[j]
      BY <3>2, Scales
    <3>6. \A i, j \in 1 .. GroupSize : gradient[i] * gradient[j] = gradient[j] * gradient[i]
      BY <3>2
    <3> QED
      BY <2>2, <3>1, <3>3, <3>4, <3>5, <3>6 DEF r
  <2> QED
    BY <2>1, <2>2
<1> QED
  BY <1>1, <1>2, <1>3, PTL DEF Trainer!Spec

----------------------------------------------------------------------------
(***************************************************************************)
(* FineTuning.  The pass over the reference has met every pair, and taken  *)
(* its ratio under the first version, before the first update.             *)
(***************************************************************************)

RatioOf(i) == [pair |-> i, version |-> 0]

\* The pairs are in memory.
Read ==
    /\ Len(pairs) > 0
    /\ examples = [i \in 1 .. Len(pairs) |-> Tuning!Truncated(pairs[i])]
    /\ start \in 1 .. Len(pairs)

\* The reference has been asked about all of them.
Asked ==
    /\ ratios = [i \in 1 .. Len(pairs) |-> RatioOf(i)]
    /\ \A i \in 1 .. Len(pairs) : Tuning!Fits(examples[i])

TuneInv ==
    /\ pairs \in Seq(TunePairs) /\ tuned \in Nat
    /\ tunePc \in {"load", "reference", "train", "done", "raised"}
    /\ tunePc = "load" => start = 1 /\ tuned = 0
    /\ tunePc \in {"reference", "train", "done"} => Read
    /\ tunePc = "reference" => tuned = 0
    /\ method = "dpo" /\ tunePc \in {"train", "done"} => Asked
    /\ method = "dpo" /\ tunePc = "raised" => tuned = 0
    /\ Tuning!RatiosAligned

LEMMA TuneFacts ==
    Tuning!FineTuningAssumption => BatchSize \in Nat /\ BatchSize > 0 /\ MaxPairs \in Nat
BY DEF Tuning!FineTuningAssumption

LEMMA TuneStart == Tuning!FineTuningAssumption /\ Tuning!Init => TuneInv
<1> SUFFICES ASSUME Tuning!FineTuningAssumption, Tuning!Init PROVE TuneInv
  OBVIOUS
<1>1. PICK n \in 0 .. MaxPairs : pairs \in [1 .. n -> TunePairs]
  BY DEF Tuning!Init
<1>2. n \in Nat
  BY <1>1, TuneFacts
<1>3. pairs \in Seq(TunePairs)
  BY <1>1, <1>2
<1>4. DOMAIN used = {}
  BY DEF Tuning!Init
<1> QED
  BY <1>3, <1>4 DEF Tuning!Init, TuneInv, Tuning!RatiosAligned

LEMMA LoadStep ==
    ASSUME TuneInv, Tuning!Load PROVE TuneInv'
<1>1. /\ tunePc = "load" /\ start = 1 /\ tuned = 0 /\ pairs \in Seq(TunePairs)
      /\ examples' = [i \in 1 .. Len(pairs) |-> Tuning!Truncated(pairs[i])]
      /\ tunePc' = IF pairs = <<>> THEN "raised"
                   ELSE IF method = "dpo" THEN "reference" ELSE "train"
      /\ UNCHANGED <<method, pairs, ratios, start, tuneStep, tuned, used>>
  BY DEF TuneInv, Tuning!Load
<1>2. pairs # <<>> => Read'
  <2>1. pairs # <<>> => Len(pairs) > 0 /\ 1 \in 1 .. Len(pairs)
    BY <1>1
  <2> QED
    BY <1>1, <2>1 DEF Read, Tuning!Truncated, Tuning!Shorter
<1>3. Tuning!RatiosAligned'
  BY <1>1 DEF TuneInv, Tuning!RatiosAligned
<1>4. pairs' \in Seq(TunePairs) /\ tuned' = 0
  BY <1>1
<1> QED
  BY <1>1, <1>2, <1>3, <1>4 DEF TuneInv

LEMMA PrecomputeStep ==
    ASSUME TuneInv, Tuning!Precompute PROVE TuneInv'
<1>1. /\ tunePc = "reference" /\ tuned = 0 /\ Read /\ pairs \in Seq(TunePairs)
      /\ UNCHANGED <<method, pairs, examples, start, tuneStep, tuned, used>>
      /\ \/ /\ \A i \in 1 .. Len(examples) : Tuning!Fits(examples[i])
            /\ ratios' = [i \in 1 .. Len(examples) |-> [pair |-> i, version |-> tuned]]
            /\ tunePc' = "train"
         \/ tunePc' = "raised"
  BY DEF TuneInv, Tuning!Precompute
<1>2. Len(examples) = Len(pairs)
  BY <1>1 DEF Read
<1>3. Read' /\ Tuning!RatiosAligned'
  BY <1>1 DEF TuneInv, Read, Tuning!RatiosAligned, Tuning!Truncated, Tuning!Shorter
<1>4. tunePc' = "train" => Asked'
  BY <1>1, <1>2 DEF Asked, RatioOf, Tuning!Fits
<1> QED
  BY <1>1, <1>3, <1>4 DEF TuneInv

\* A batch and its slice of the ratios are the same pairs.
LEMMA SliceOfBatch ==
    ASSUME Tuning!FineTuningAssumption, pairs \in Seq(TunePairs), Read, Asked
    PROVE  /\ Len(Tuning!Batch) = Len(Tuning!BatchRatios)
           /\ \A i \in DOMAIN Tuning!Batch :
                 /\ Tuning!Batch[i] \in 1 .. Len(pairs)
                 /\ Tuning!BatchRatios[i] = RatioOf(Tuning!Batch[i])
<1> DEFINE n == Len(pairs)
           k == Tuning!Shorter(BatchSize, n - start + 1)
           m == Tuning!Shorter(start + BatchSize - 1, n)
           R == {RatioOf(i) : i \in 1 .. n}
<1>1. n \in Nat /\ start \in 1 .. n /\ Len(examples) = n /\ BatchSize \in Nat /\ BatchSize > 0
  BY TuneFacts DEF Read
<1>2. ratios \in Seq(R) /\ Len(ratios) = n /\ \A i \in 1 .. n : ratios[i] = RatioOf(i)
  BY <1>1 DEF Asked
<1> HIDE DEF R
<1>3. k \in Nat /\ m \in Nat /\ m \in start .. n /\ k = m - start + 1
  BY <1>1 DEF Tuning!Shorter
<1>4. Tuning!Batch = [i \in 1 .. k |-> start + i - 1]
  BY <1>1 DEF Tuning!Batch
<1>5. Tuning!BatchRatios = SubSeq(ratios, start, m)
  BY <1>2 DEF Tuning!BatchRatios
<1> HIDE DEF n, k, m
<1>6. /\ Len(SubSeq(ratios, start, m)) = k
      /\ \A i \in 1 .. k : SubSeq(ratios, start, m)[i] = ratios[start + i - 1]
  BY <1>1, <1>2, <1>3
<1>7. Len(Tuning!Batch) = k /\ DOMAIN Tuning!Batch = 1 .. k
  BY <1>3, <1>4
<1>8. \A i \in 1 .. k : /\ Tuning!Batch[i] = start + i - 1
                        /\ start + i - 1 \in 1 .. n
  BY <1>1, <1>3, <1>4
<1> QED
  BY <1>2, <1>5, <1>6, <1>7, <1>8 DEF n

LEMMA PairsStep ==
    ASSUME Tuning!FineTuningAssumption, TuneInv, Tuning!DpoStep PROVE TuneInv'
<1>1. /\ tunePc = "train" /\ method = "dpo" /\ Read /\ Asked
      /\ pairs \in Seq(TunePairs) /\ tuned \in Nat
      /\ UNCHANGED <<method, pairs, examples, ratios>>
  BY DEF TuneInv, Tuning!DpoStep
<1>2. /\ Len(Tuning!Batch) = Len(Tuning!BatchRatios)
      /\ \A i \in DOMAIN Tuning!Batch :
            /\ Tuning!Batch[i] \in 1 .. Len(pairs)
            /\ Tuning!BatchRatios[i] = RatioOf(Tuning!Batch[i])
  BY <1>1, SliceOfBatch
<1>3. \A i \in DOMAIN Tuning!Batch : Tuning!Fits(examples[Tuning!Batch[i]])
  BY <1>1, <1>2 DEF Asked
<1>4. /\ used' = [i \in DOMAIN Tuning!Batch |->
                    [pair |-> Tuning!Batch[i], ratio |-> Tuning!BatchRatios[i]]]
      /\ tuned' = tuned + 1
      /\ start' = IF start + BatchSize > Len(examples) THEN 1 ELSE start + BatchSize
      /\ tunePc' \in {"train", "done"}
  BY <1>2, <1>3 DEF Tuning!DpoStep
<1>5. Tuning!RatiosAligned'
  BY <1>2, <1>4 DEF Tuning!RatiosAligned, RatioOf
<1>6. Read'
  <2>1. Len(examples) = Len(pairs) /\ Len(pairs) \in Nat /\ Len(pairs) > 0
        /\ start \in 1 .. Len(pairs) /\ BatchSize \in Nat
    BY <1>1, TuneFacts DEF Read
  <2>2. start' \in 1 .. Len(pairs)
    BY <1>4, <2>1
  <2> QED
    BY <1>1, <2>2 DEF Read, Tuning!Truncated, Tuning!Shorter
<1>7. Asked'
  BY <1>1 DEF Asked, RatioOf, Tuning!Fits
<1> QED
  BY <1>1, <1>4, <1>5, <1>6, <1>7 DEF TuneInv

LEMMA TuneStep ==
    ASSUME Tuning!FineTuningAssumption, TuneInv, [Tuning!Next]_(Tuning!vars) PROVE TuneInv'
<1>1. CASE Tuning!Load
  BY <1>1, LoadStep
<1>2. CASE Tuning!Precompute
  BY <1>2, PrecomputeStep
<1>3. CASE Tuning!DpoStep
  BY <1>3, PairsStep
<1>4. ASSUME NEW finite \in BOOLEAN, Tuning!SftStep(finite) PROVE TuneInv'
  <2>1. /\ tunePc = "train" /\ method = "sft" /\ tunePc' \in {"train", "done", "raised"}
        /\ tuned' \in Nat
        /\ UNCHANGED <<method, pairs, examples, ratios, start, used>>
    BY <1>4 DEF Tuning!SftStep, TuneInv
  <2>2. Read' /\ Tuning!RatiosAligned'
    BY <2>1 DEF TuneInv, Read, Tuning!RatiosAligned, Tuning!Truncated, Tuning!Shorter
  <2> QED
    BY <2>1, <2>2 DEF TuneInv
<1>5. CASE UNCHANGED Tuning!vars
  <2>1. UNCHANGED <<method, tunePc, pairs, examples, ratios, start, tuneStep, tuned, used>>
    BY <1>5 DEF Tuning!vars
  <2>2. Read' = Read /\ Asked' = Asked /\ Tuning!RatiosAligned' = Tuning!RatiosAligned
    BY <2>1 DEF Read, Asked, RatioOf, Tuning!RatiosAligned, Tuning!Truncated, Tuning!Shorter,
                Tuning!Fits
  <2> QED
    BY <2>1, <2>2 DEF TuneInv
<1> QED
  BY <1>1, <1>2, <1>3, <1>4, <1>5 DEF Tuning!Next

\* For any file of pairs, batch size, limits and number of steps: a pair of a DPO batch is
\* trained against its own log-ratio, taken under the model the run started from, and a pair
\* that does not fit the context ends the run before its first update, since the pass over
\* the reference has met every pair in the form the batches use (dpo.py,
\* _precompute_ref_logratios and dpo).
THEOREM ReferencePassIsEnough == Tuning!Spec => []ReferencePassHolds
<1>1. Tuning!Init => TuneInv
  BY TuneParameters, TuneStart
<1>2. TuneInv /\ [Tuning!Next]_(Tuning!vars) => TuneInv'
  BY TuneParameters, TuneStep
<1>3. TuneInv => ReferencePassHolds
  BY DEF TuneInv, ReferencePassHolds, Tuning!ReferencePassHolds, Tuning!DpoFailsEarly
<1> QED
  BY <1>1, <1>2, <1>3, PTL DEF Tuning!Spec


----------------------------------------------------------------------------
(***************************************************************************)
(* CodeReward.  The child has results only of tests that let it go on,     *)
(* prints only all of them and exits cleanly only after that; where it     *)
(* failed, the code, a test or what the code left for the exit ended it.   *)
(***************************************************************************)

\* What the loop of the template has recorded.
Recorded ==
    /\ results \in Seq(BOOLEAN) /\ Len(results) <= NTests
    /\ \A i \in 1 .. Len(results) :
          /\ problem.tests[i] \in {"passes", "fails"}
          /\ results[i] = (problem.tests[i] = "passes" /\ response.solution = "right")

\* Something other than the tests' own verdicts ended the child.
Broken ==
    \/ Host!Extracted # "code" \/ response.solution # "right"
    \/ response.ending # "clean"
    \/ \E i \in 1 .. NTests : problem.tests[i] = "dies"

HostInv ==
    /\ partial \in BOOLEAN
    /\ hostPc \in {"score", "waiting", "parse", "scored"}
    /\ child \in {"none", "solution", "tests", "printed", "exited", "failed", "killed"}
    /\ hostPc = "score" => child = "none"
    /\ hostPc \in {"waiting", "parse"} => child # "none"
    /\ child # "none" => problem.known
    /\ child \in {"solution", "tests", "printed"} => hostPc = "waiting"
    /\ child \in {"tests", "printed", "exited"} => Host!Extracted = "code"
    /\ child \in {"printed", "exited"} => Len(results) = NTests
    /\ child = "exited" => response.ending = "clean"
    /\ child = "failed" => Broken
    /\ Recorded
    /\ hostPc # "scored" => reward = 0
    /\ Host!RewardEarned

LEMMA HostStart == Host!CodeRewardAssumption /\ Host!Init => HostInv
<1> SUFFICES ASSUME Host!CodeRewardAssumption, Host!Init PROVE HostInv
  OBVIOUS
<1>1. /\ partial \in BOOLEAN /\ hostPc = "score" /\ child = "none" /\ results = <<>>
      /\ reward = 0 /\ NTests \in Nat
  BY DEF Host!Init, Host!CodeRewardAssumption
<1>2. <<>> \in Seq(BOOLEAN) /\ Len(<<>>) = 0
  OBVIOUS
<1>3. Recorded
  BY <1>1, <1>2 DEF Recorded
<1> QED
  BY <1>1, <1>3 DEF HostInv, Host!RewardEarned

\* The tests that passed are all tests, or fewer.
LEMMA PassedCounts ==
    ASSUME Host!CodeRewardAssumption, Recorded, Len(results) = NTests
    PROVE  /\ Host!Passed(TRUE) \in 0 .. NTests
           /\ Host!Passed(TRUE) = NTests <=> response.solution = "right" /\ Host!Passing
<1> DEFINE all == 1 .. NTests
           passed == Host!PassedTests
<1>1. NTests \in Nat /\ NTests > 0 /\ DOMAIN results = all
  BY DEF Host!CodeRewardAssumption, Recorded
<1>2. IsFiniteSet(all) /\ Cardinality(all) = NTests
  BY <1>1, FS_Interval
<1>3. passed \in SUBSET all
  BY <1>1 DEF Host!PassedTests
<1> HIDE DEF all, passed
<1>4. /\ IsFiniteSet(passed) /\ Cardinality(passed) <= NTests
      /\ NTests = Cardinality(passed) => all = passed
  BY <1>2, <1>3, FS_Subset
<1>5. Cardinality(passed) \in Nat
  BY <1>4, FS_CardinalityType
<1>6. Cardinality(passed) = NTests <=> passed = all
  BY <1>2, <1>4
<1>7. passed = all <=> \A i \in 1 .. NTests : results[i]
  BY <1>1 DEF passed, all, Host!PassedTests
<1>8. (\A i \in 1 .. NTests : results[i]) <=> response.solution = "right" /\ Host!Passing
  <2>1. \A i \in 1 .. NTests :
           results[i] = (problem.tests[i] = "passes" /\ response.solution = "right")
    BY DEF Recorded
  <2>2. 1 \in 1 .. NTests
    BY <1>1
  <2> QED
    BY <2>1, <2>2 DEF Host!Passing
<1> DEFINE right == response.solution = "right" /\ Host!Passing
           count == Host!Passed(TRUE)
<1>9. count = Cardinality(passed)
  BY DEF Host!Passed, passed, Host!Cardinality, Cardinality
<1> HIDE DEF count
<1>10. count = NTests <=> right
  BY <1>6, <1>7, <1>8, <1>9
<1>11. count \in 0 .. NTests
  BY <1>1, <1>4, <1>5, <1>9
<1> QED
  BY <1>10, <1>11 DEF count

LEMMA ScoreStep ==
    ASSUME Host!CodeRewardAssumption, HostInv, Host!Score PROVE HostInv'
<1>1. /\ hostPc = "score" /\ child = "none" /\ reward = 0 /\ NTests \in Nat /\ NTests > 0
      /\ UNCHANGED <<problem, response, partial, results, reward>>
      /\ IF problem.known /\ Host!Extracted # "nothing"
         THEN hostPc' = "waiting" /\ child' = "solution"
         ELSE hostPc' = "scored" /\ child' = child
  BY DEF HostInv, Host!Score, Host!CodeRewardAssumption
<1>2. Recorded' /\ Host!Extracted' = Host!Extracted
  BY <1>1 DEF HostInv, Recorded, Host!Extracted
<1>3. Host!RewardEarned'
  BY <1>1, <1>2 DEF Host!RewardEarned
<1> QED
  BY <1>1, <1>2, <1>3 DEF HostInv

LEMMA SolutionStep ==
    ASSUME Host!CodeRewardAssumption, HostInv, Host!RunSolution PROVE HostInv'
<1>1. /\ child = "solution" /\ hostPc = "waiting" /\ problem.known
      /\ UNCHANGED <<problem, response, partial, hostPc, results, reward>>
      /\ \/ Host!Extracted = "code" /\ child' = "tests"
         \/ response.solution \in {"raises", "exits"} /\ child' = "failed"
         \/ Host!Extracted = "code and a fence" /\ child' = "failed"
  BY DEF HostInv, Host!RunSolution
<1>2. Recorded' /\ Host!Extracted' = Host!Extracted /\ Broken' = Broken
  BY <1>1 DEF HostInv, Recorded, Host!Extracted, Broken
<1>3. child' = "failed" => Broken
  BY <1>1 DEF Broken
<1>4. Host!RewardEarned'
  BY <1>1 DEF Host!RewardEarned
<1> QED
  BY <1>1, <1>2, <1>3, <1>4 DEF HostInv

LEMMA TestStep ==
    ASSUME Host!CodeRewardAssumption, HostInv, Host!RunTest PROVE HostInv'
<1> DEFINE n == Len(results)
           test == problem.tests[n + 1]
           ok == (test = "passes" /\ response.solution = "right")
<1>1. /\ child = "tests" /\ hostPc = "waiting" /\ problem.known /\ n < NTests
      /\ Host!Extracted = "code" /\ NTests \in Nat /\ n \in Nat /\ results \in Seq(BOOLEAN)
      /\ UNCHANGED <<problem, response, partial, hostPc, reward>>
      /\ \/ test \in {"passes", "fails"} /\ results' = Append(results, ok) /\ child' = child
         \/ test = "dies" /\ child' = "failed" /\ results' = results
  BY DEF HostInv, Recorded, Host!RunTest, Host!CodeRewardAssumption
<1>2. Host!Extracted' = Host!Extracted /\ Broken' = Broken /\ Host!RewardEarned'
  BY <1>1 DEF Host!Extracted, Broken, Host!RewardEarned
<1>3. Recorded'
  <2>1. CASE results' = results
    BY <1>1, <2>1 DEF HostInv, Recorded
  <2>2. CASE test \in {"passes", "fails"} /\ results' = Append(results, ok)
    <3>1. ok \in BOOLEAN
      OBVIOUS
    <3> DEFINE b == ok
    <3>2. b \in BOOLEAN /\ results' = Append(results, b)
      BY <2>2, <3>1
    <3> HIDE DEF b
    <3>3. /\ results' \in Seq(BOOLEAN) /\ Len(results') = n + 1 /\ results'[n + 1] = b
          /\ \A i \in 1 .. n : results'[i] = results[i]
      BY <1>1, <3>2, Longer
    <3>4. ASSUME NEW i \in 1 .. n + 1
          PROVE  /\ problem.tests[i] \in {"passes", "fails"}
                 /\ results'[i] = (problem.tests[i] = "passes" /\ response.solution = "right")
      <4>1. CASE i = n + 1
        BY <2>2, <3>3, <4>1 DEF b
      <4>2. CASE i # n + 1
        <5>1. i \in 1 .. n
          BY <1>1, <4>2
        <5> QED
          BY <3>3, <5>1 DEF HostInv, Recorded
      <4> QED
        BY <4>1, <4>2
    <3>5. Len(results') <= NTests
      BY <1>1, <3>3
    <3> QED
      BY <1>1, <3>3, <3>4, <3>5 DEF Recorded
  <2> QED
    BY <1>1, <2>1, <2>2
<1>4. child' = "failed" => Broken
  <2> SUFFICES ASSUME child' = "failed" PROVE Broken
    OBVIOUS
  <2>1. problem.tests[n + 1] = "dies" /\ n + 1 \in 1 .. NTests
    BY <1>1
  <2> QED
    BY <2>1 DEF Broken
<1> HIDE DEF ok, test, n
<1> QED
  BY <1>1, <1>2, <1>3, <1>4 DEF HostInv

LEMMA RewardStep ==
    ASSUME Host!CodeRewardAssumption, HostInv, Host!Reward PROVE HostInv'
<1> DEFINE passed == Host!Passed(child = "exited")
<1>1. /\ hostPc = "parse" /\ hostPc' = "scored"
      /\ reward' = IF partial \/ passed = NTests THEN passed ELSE 0
      /\ UNCHANGED <<problem, response, partial, child, results>>
      /\ child \in {"exited", "failed", "killed"} /\ problem.known
      /\ NTests \in Nat /\ NTests > 0
  BY DEF HostInv, Host!Reward, Host!CodeRewardAssumption
<1>2. /\ Recorded' /\ Host!Extracted' = Host!Extracted /\ Broken' = Broken
      /\ Host!Passing' = Host!Passing /\ Host!InTime' = Host!InTime
  BY <1>1 DEF HostInv, Recorded, Host!Extracted, Broken, Host!Passing, Host!InTime
<1>3. ASSUME child = "exited" PROVE Host!RewardEarned'
  <2>1. passed = Host!Passed(TRUE)
    BY <1>3 DEF Host!Passed
  <2>2. /\ passed \in 0 .. NTests
        /\ passed = NTests <=> response.solution = "right" /\ Host!Passing
    BY <1>3, <2>1, PassedCounts DEF HostInv
  <2> HIDE DEF passed
  <2>3. /\ Host!Extracted = "code" /\ response.ending = "clean" /\ Host!InTime
        /\ \A i \in 1 .. NTests : problem.tests[i] \in {"passes", "fails"}
    BY <1>3 DEF HostInv, Recorded, Host!InTime
  <2>4. reward' = NTests <=> passed = NTests
    BY <1>1, <2>2
  <2>5. reward' \notin {0, NTests} => partial
    BY <1>1, <2>2
  <2> QED
    BY <1>1, <1>2, <2>2, <2>3, <2>4, <2>5 DEF Host!RewardEarned
<1>4. ASSUME child # "exited" PROVE Host!RewardEarned'
  <2>1. passed = 0
    BY <1>4 DEF Host!Passed
  <2>2. reward' = 0
    BY <1>1, <2>1
  <2>3. ~(/\ Host!Extracted = "code" /\ response.solution = "right"
          /\ Host!Passing /\ response.ending = "clean" /\ Host!InTime)
    BY <1>1, <1>4 DEF HostInv, Broken, Host!Passing, Host!InTime
  <2> QED
    BY <1>1, <1>2, <2>2, <2>3 DEF Host!RewardEarned
<1>5. Host!RewardEarned'
  BY <1>3, <1>4
<1> HIDE DEF passed
<1> QED
  BY <1>1, <1>2, <1>5 DEF HostInv

LEMMA ExitStep ==
    ASSUME Host!CodeRewardAssumption, HostInv, Host!Exit PROVE HostInv'
<1>1. /\ child = "printed" /\ hostPc = "waiting" /\ Host!Extracted = "code"
      /\ Len(results) = NTests /\ problem.known /\ reward = 0
      /\ UNCHANGED <<problem, response, partial, hostPc, results, reward>>
      /\ \/ response.ending = "clean" /\ child' = "exited"
         \/ response.ending = "fails" /\ child' = "failed"
  BY DEF HostInv, Host!Exit
<1>2. Recorded' /\ Host!Extracted' = Host!Extracted /\ Broken' = Broken
  BY <1>1 DEF HostInv, Recorded, Host!Extracted, Broken
<1>3. child' = "failed" => Broken
  BY <1>1 DEF Broken
<1>4. Host!RewardEarned'
  BY <1>1 DEF Host!RewardEarned
<1> QED
  BY <1>1, <1>2, <1>3, <1>4 DEF HostInv

LEMMA WaitingStep ==
    ASSUME Host!CodeRewardAssumption, HostInv,
           Host!PrintResults \/ Host!TimeOut \/ Host!ChildGone
    PROVE  HostInv'
<1>1. /\ hostPc = "waiting" /\ hostPc' \in {"waiting", "parse"} /\ problem.known
      /\ UNCHANGED <<problem, response, partial, results, reward>>
      /\ \/ /\ child = "tests" /\ Len(results) = NTests
            /\ child' = "printed" /\ hostPc' = hostPc
         \/ child' = "killed" /\ hostPc' = hostPc
         \/ child \in {"exited", "failed", "killed"} /\ child' = child
  BY DEF HostInv, Host!PrintResults, Host!TimeOut, Host!ChildGone
<1>2. Recorded' /\ Host!Extracted' = Host!Extracted /\ Broken' = Broken
  BY <1>1 DEF HostInv, Recorded, Host!Extracted, Broken
<1>3. Host!RewardEarned'
  BY <1>1 DEF Host!RewardEarned
<1> QED
  BY <1>1, <1>2, <1>3 DEF HostInv

LEMMA HostStep ==
    ASSUME Host!CodeRewardAssumption, HostInv, [Host!Next]_(Host!vars) PROVE HostInv'
<1>1. CASE Host!Score
  BY <1>1, ScoreStep
<1>2. CASE Host!RunSolution
  BY <1>2, SolutionStep
<1>3. CASE Host!RunTest
  BY <1>3, TestStep
<1>4. CASE Host!Reward
  BY <1>4, RewardStep
<1>5. CASE Host!Exit
  BY <1>5, ExitStep
<1>6. CASE Host!PrintResults \/ Host!TimeOut \/ Host!ChildGone
  BY <1>6, WaitingStep
<1>7. CASE UNCHANGED Host!vars
  <2>1. UNCHANGED <<problem, response, partial, hostPc, child, results, reward>>
    BY <1>7 DEF Host!vars
  <2>2. /\ Recorded' /\ Host!Extracted' = Host!Extracted /\ Broken' = Broken
        /\ Host!Passing' = Host!Passing
    BY <2>1 DEF HostInv, Recorded, Host!Extracted, Broken, Host!Passing
  <2>3. Host!RewardEarned' = Host!RewardEarned
    BY <2>1, <2>2 DEF Host!RewardEarned, Host!InTime
  <2> QED
    BY <2>1, <2>2, <2>3 DEF HostInv
<1> QED
  BY <1>1, <1>2, <1>3, <1>4, <1>5, <1>6, <1>7 DEF Host!Next

\* For any number of tests, whatever the code and the tests do to the child and whenever the
\* clock strikes, as long as the code does not itself print the marker of the runner: the
\* whole reward is for right code of a known problem whose tests all passed and whose process
\* exited with 0 in time, what is between is for partial credit of such a process, and
\* no failure of the child, before its results are printed or after, is worth anything
\* (code_exec.py, execute_python_with_tests; code_reward.py, score).
THEOREM RewardsAreEarned == Host!Spec => []RewardEarned
<1>1. Host!Init => HostInv
  BY CodeParameters, HostStart
<1>2. HostInv /\ [Host!Next]_(Host!vars) => HostInv'
  BY CodeParameters, HostStep
<1>3. HostInv => RewardEarned
  BY DEF HostInv, RewardEarned
<1> QED
  BY <1>1, <1>2, <1>3, PTL DEF Host!Spec

=============================================================================
