------------------------ MODULE InferenceParts_proofs ------------------------
(***************************************************************************)
(* Proofs about the five parts of InferenceParts, for every value of their *)
(* constants: a batch of branches (Branches), a rollout with tools         *)
(* (ToolRollout), the offload of a request (KVOffload), the weights of the *)
(* model (Weights) and the attention layers (Attention).  The parts share  *)
(* no state; a theorem is about the specification of one of them.          *)
(***************************************************************************)
EXTENDS InferenceParts, FiniteSetTheorems, SequenceTheorems, WellFoundedInduction,
        NaturalsInduction, TLAPS

----------------------------------------------------------------------------
(* Sequences. *)

\* What one more element changes of the parts of a sequence.
LEMMA OneMore ==
    ASSUME NEW S, NEW s \in Seq(S), NEW x \in S
    PROVE  /\ Append(s, x) \in Seq(S) /\ Append(s, x) # <<>>
           /\ Len(Append(s, x)) = Len(s) + 1
           /\ Append(s, x)[Len(s) + 1] = x
           /\ \A i \in 1 .. Len(s) : Append(s, x)[i] = s[i]
OBVIOUS

LEMMA EarlierPart ==
    ASSUME NEW S, NEW s \in Seq(S), NEW x \in S, NEW n \in 0 .. Len(s)
    PROVE  SubSeq(Append(s, x), 1, n) = SubSeq(s, 1, n)
<1>1. /\ Append(s, x) \in Seq(S) /\ Len(Append(s, x)) = Len(s) + 1 /\ Len(s) \in Nat
      /\ n \in Nat /\ n <= Len(s)
      /\ \A i \in 1 .. Len(s) : Append(s, x)[i] = s[i]
  BY OneMore
<1> DEFINE l == SubSeq(Append(s, x), 1, n)
           m == SubSeq(s, 1, n)
<1>2. l \in Seq(S) /\ Len(l) = n /\ \A i \in 1 .. n : l[i] = Append(s, x)[i]
  BY <1>1
<1>3. m \in Seq(S) /\ Len(m) = n /\ \A i \in 1 .. n : m[i] = s[i]
  BY <1>1
<1>4. \A i \in 1 .. n : i \in 1 .. Len(s)
  BY <1>1
<1>5. \A i \in 1 .. n : l[i] = m[i]
  BY <1>1, <1>2, <1>3, <1>4
<1> HIDE DEF l, m
<1>6. l = m
  BY <1>2, <1>3, <1>5
<1> QED
  BY <1>6 DEF l, m

LEMMA Whole ==
    ASSUME NEW S, NEW s \in Seq(S)
    PROVE  SubSeq(s, 1, Len(s)) = s
OBVIOUS

LEMMA Extend ==
    ASSUME NEW S, NEW s \in Seq(S), NEW t \in Seq(S), NEW x \in S
    PROVE  /\ Append(s \o t, x) = s \o Append(t, x)
           /\ s \o t \in Seq(S) /\ Len(s \o t) = Len(s) + Len(t)
OBVIOUS

----------------------------------------------------------------------------
(***************************************************************************)
(* Branches.  A branch that has not ended has emitted a token in every     *)
(* round, and its row holds the prompt and these tokens.                   *)
(***************************************************************************)

BranchesTypeOK ==
    /\ branchPc \in {"fork", "decode", "returned", "raised"}
    /\ options \in [budget : BranchBudgets, eos : BOOLEAN]
    /\ branchKv \in [Branch -> Seq(BranchVocab)] /\ branchLogits \in [Branch -> Seq(BranchVocab)]
    /\ generated \in [Branch -> Seq(BranchVocab)]
    /\ scored \in [Branch -> Seq(Seq(BranchVocab))]
    /\ branchEnded \in [Branch -> BOOLEAN]
    /\ rounds \in Nat

\* Every token of a branch was scored after what came before it.
ScoredAfter(b) ==
    /\ Len(scored[b]) = Len(generated[b])
    /\ \A i \in 1 .. Len(generated[b]) :
          scored[b][i] = BranchPrompt \o SubSeq(generated[b], 1, i - 1)

\* A branch that goes on.
Going(b) ==
    /\ branchKv[b] = BranchPrompt \o generated[b] /\ branchLogits[b] = branchKv[b]
    /\ Len(generated[b]) = rounds
    /\ \A i \in 1 .. Len(generated[b]) : ~Batched!Ends(generated[b][i], i)

Row(b) ==
    /\ IF branchEnded[b] THEN generated[b] # <<>> /\ Batched!Complete(generated[b]) ELSE Going(b)
    /\ ScoredAfter(b)
    /\ Len(branchKv[b]) <= BranchContext
    /\ options.budget > 0 => Len(generated[b]) <= options.budget

\* The anchor has not been prefilled, or was refused.
Unforked ==
    /\ branchPc \in {"fork", "raised"} /\ rounds = 0
    /\ \A b \in Branch : /\ generated[b] = <<>> /\ scored[b] = <<>> /\ branchKv[b] = <<>>
                          /\ ~branchEnded[b]

Forked ==
    /\ branchPc # "fork" /\ Len(BranchPrompt) + options.budget <= BranchContext
    /\ \A b \in Branch : Row(b)
    /\ ~Batched!AllFinished => \A b \in Branch : Len(branchKv[b]) = Len(BranchPrompt) + rounds
    /\ branchPc = "returned" => Batched!AllFinished
    /\ branchPc = "raised" /\ rounds > 0 => options.budget > MaxRounds

BranchesInv == BranchesTypeOK /\ (Unforked \/ Forked)

LEMMA BranchesFacts ==
    ASSUME Batched!BranchesAssumption
    PROVE  /\ Branch # {} /\ BranchPrompt \in Seq(BranchVocab) /\ BranchPrompt # <<>>
           /\ BranchBudgets \subseteq Nat /\ MaxRounds \in Nat /\ BranchContext \in Nat
           /\ Len(BranchPrompt) \in Nat
BY DEF Batched!BranchesAssumption

LEMMA BranchesStart == Batched!BranchesAssumption /\ Batched!Init => BranchesInv
<1> SUFFICES ASSUME Batched!BranchesAssumption, Batched!Init PROVE BranchesInv
  OBVIOUS
<1>1. <<>> \in Seq(BranchVocab) /\ <<>> \in Seq(Seq(BranchVocab))
  OBVIOUS
<1>2. BranchesTypeOK
  BY <1>1 DEF Batched!Init, BranchesTypeOK
<1>3. Unforked
  BY DEF Batched!Init, Unforked
<1> QED
  BY <1>2, <1>3 DEF BranchesInv

LEMMA ForkStep ==
    ASSUME Batched!BranchesAssumption, BranchesInv, Batched!ForkBatched
    PROVE  BranchesInv'
<1>0. /\ BranchesTypeOK /\ Unforked /\ branchPc = "fork"
      /\ UNCHANGED <<options, generated, scored, branchEnded, rounds>>
  BY DEF BranchesInv, Forked, Batched!ForkBatched
<1>1. CASE Len(BranchPrompt) + options.budget <= BranchContext
  <2>1. /\ branchKv' = [b \in Branch |-> BranchPrompt]
        /\ branchLogits' = [b \in Branch |-> BranchPrompt]
        /\ branchPc' = "decode"
    BY <1>1 DEF Batched!ForkBatched
  <2>2. BranchesTypeOK'
    BY <1>0, <2>1, BranchesFacts DEF BranchesTypeOK
  <2>3. options.budget \in Nat /\ Len(BranchPrompt) <= BranchContext
    BY <1>0, <1>1, BranchesFacts DEF BranchesTypeOK
  <2>4. ASSUME NEW b \in Branch PROVE Row(b)'
    <3>1. /\ generated'[b] = <<>> /\ scored'[b] = <<>>
          /\ branchKv'[b] = BranchPrompt /\ branchLogits'[b] = BranchPrompt
          /\ ~branchEnded'[b] /\ rounds' = 0
      BY <1>0, <2>1 DEF Unforked
    <3>2. BranchPrompt \o <<>> = BranchPrompt /\ Len(<<>>) = 0
      BY BranchesFacts
    <3>3. Going(b)'
      BY <3>1, <3>2 DEF Going
    <3>4. ScoredAfter(b)'
      BY <3>1, <3>2 DEF ScoredAfter
    <3> QED
      BY <1>0, <2>3, <3>1, <3>2, <3>3, <3>4 DEF Row
  <2>5. \A b \in Branch : Len(branchKv'[b]) = Len(BranchPrompt) + rounds'
    BY <1>0, <2>1, BranchesFacts DEF Unforked
  <2> QED
    BY <1>0, <1>1, <2>1, <2>2, <2>4, <2>5 DEF BranchesInv, Forked, Unforked
<1>2. CASE ~(Len(BranchPrompt) + options.budget <= BranchContext)
  <2>1. UNCHANGED <<branchKv, branchLogits>> /\ branchPc' = "raised"
    BY <1>2 DEF Batched!ForkBatched
  <2> QED
    BY <1>0, <2>1 DEF BranchesInv, BranchesTypeOK, Unforked
<1> QED
  BY <1>1, <1>2

\* A token of a branch that goes on, with the text it was scored after.
LEMMA OneMoreScored ==
    ASSUME Batched!BranchesAssumption, BranchesTypeOK, NEW b \in Branch, NEW t \in BranchVocab,
           ScoredAfter(b), branchLogits[b] = BranchPrompt \o generated[b],
           generated'[b] = Append(generated[b], t), scored'[b] = Append(scored[b], branchLogits[b])
    PROVE  ScoredAfter(b)'
<1> DEFINE g == generated[b]
           s == scored[b]
<1>1. g \in Seq(BranchVocab) /\ s \in Seq(Seq(BranchVocab)) /\ branchLogits[b] \in Seq(BranchVocab)
  BY DEF BranchesTypeOK
<1>2. Len(s) = Len(g) /\ Len(g) \in Nat
      /\ \A i \in 1 .. Len(g) : s[i] = BranchPrompt \o SubSeq(g, 1, i - 1)
  BY <1>1, SMTT(30) DEF ScoredAfter
<1>3. Len(generated'[b]) = Len(g) + 1 /\ generated'[b] = Append(g, t)
  BY <1>1, OneMore
<1>4. /\ Len(scored'[b]) = Len(s) + 1 /\ scored'[b][Len(s) + 1] = branchLogits[b]
      /\ \A i \in 1 .. Len(s) : scored'[b][i] = s[i]
  BY <1>1, OneMore
<1>5. ASSUME NEW i \in 1 .. Len(g) + 1
      PROVE  scored'[b][i] = BranchPrompt \o SubSeq(generated'[b], 1, i - 1)
  <2>1. i - 1 \in 0 .. Len(g)
    BY <1>2
  <2>2. SubSeq(generated'[b], 1, i - 1) = SubSeq(g, 1, i - 1)
    BY <1>1, <1>3, <2>1, EarlierPart
  <2>3. CASE i = Len(g) + 1
    <3>1. SubSeq(g, 1, i - 1) = g
      BY <1>1, <1>2, <2>3, Whole
    <3> QED
      BY <1>2, <1>4, <2>2, <2>3, <3>1
  <2>4. CASE i # Len(g) + 1
    <3>1. i \in 1 .. Len(g)
      BY <1>2, <2>4
    <3> QED
      BY <1>2, <1>4, <2>2, <3>1
  <2> QED
    BY <2>3, <2>4
<1> HIDE DEF g, s
<1> QED
  BY <1>2, <1>3, <1>4, <1>5 DEF ScoredAfter

\* A branch that goes on has not used up its budget.
LEMMA StillInBudget ==
    ASSUME Batched!BranchesAssumption, BranchesTypeOK, NEW b \in Branch, Going(b), rounds > 0
    PROVE  rounds < options.budget
<1>1. rounds \in Nat /\ options.budget \in Nat /\ rounds \in 1 .. Len(generated[b])
  BY BranchesFacts DEF BranchesTypeOK, Going
<1>2. ~Batched!Ends(generated[b][rounds], rounds)
  BY <1>1 DEF Going
<1> QED
  BY <1>1, <1>2 DEF Batched!Ends

LEMMA DecodedRow ==
    ASSUME Batched!BranchesAssumption, BranchesTypeOK, Forked, branchPc = "decode",
           NEW tokens \in [Branch -> BranchVocab], Batched!DecodeStep(tokens), NEW b \in Branch
    PROVE  /\ generated'[b] \in Seq(BranchVocab) /\ scored'[b] \in Seq(Seq(BranchVocab))
           /\ IF branchEnded'[b]
                 THEN generated'[b] # <<>> /\ Batched!Complete(generated[b])'
                 ELSE /\ ~branchEnded[b] /\ Len(generated'[b]) = rounds'
                      /\ generated'[b] = Append(generated[b], tokens[b])
                      /\ \A i \in 1 .. Len(generated'[b]) : ~Batched!Ends(generated'[b][i], i)
           /\ ScoredAfter(b)'
           /\ options.budget > 0 => Len(generated'[b]) <= options.budget
<1>1. /\ options' = options /\ rounds' = rounds + 1
      /\ generated'[b] = IF ~branchEnded[b] THEN Append(generated[b], tokens[b]) ELSE generated[b]
      /\ scored'[b] = IF ~branchEnded[b] THEN Append(scored[b], branchLogits[b]) ELSE scored[b]
      /\ branchEnded'[b] = (branchEnded[b] \/ Batched!Ends(tokens[b], Len(generated'[b])))
  BY DEF Batched!DecodeStep, Batched!Emits
<1>2. /\ tokens[b] \in BranchVocab /\ generated[b] \in Seq(BranchVocab)
      /\ scored[b] \in Seq(Seq(BranchVocab)) /\ branchLogits[b] \in Seq(BranchVocab)
      /\ options.budget \in Nat /\ rounds \in Nat
  BY BranchesFacts DEF BranchesTypeOK
<1>3. Row(b)
  BY DEF Forked
<1>4. CASE branchEnded[b]
  <2>1. generated'[b] = generated[b] /\ scored'[b] = scored[b] /\ branchEnded'[b]
    BY <1>1, <1>4
  <2>2. ScoredAfter(b)'
    BY <1>3, <2>1 DEF Row, ScoredAfter
  <2>3. Batched!Complete(generated[b])'
    BY <1>1, <1>3, <1>4, <2>1 DEF Row, Batched!Complete, Batched!Ends
  <2> QED
    BY <1>2, <1>3, <1>4, <2>1, <2>2, <2>3 DEF Row
<1>5. CASE ~branchEnded[b]
  <2> DEFINE g == generated[b]
             h == generated'[b]
  <2>1. Going(b) /\ ScoredAfter(b)
    BY <1>3, <1>5 DEF Row
  <2>2. /\ h = Append(g, tokens[b]) /\ scored'[b] = Append(scored[b], branchLogits[b])
        /\ branchLogits[b] = BranchPrompt \o g /\ Len(g) = rounds
        /\ \A i \in 1 .. Len(g) : ~Batched!Ends(g[i], i)
    BY <1>1, <1>5, <2>1 DEF Going
  <2>3. /\ h \in Seq(BranchVocab) /\ h # <<>> /\ Len(h) = rounds + 1 /\ h[rounds + 1] = tokens[b]
        /\ \A i \in 1 .. rounds : h[i] = g[i]
    <3>1. g \in Seq(BranchVocab) /\ tokens[b] \in BranchVocab
      BY <1>2
    <3> HIDE DEF g, h
    <3>2. Append(g, tokens[b]) \in Seq(BranchVocab) /\ Append(g, tokens[b]) # <<>>
          /\ Len(Append(g, tokens[b])) = Len(g) + 1
          /\ Append(g, tokens[b])[Len(g) + 1] = tokens[b]
          /\ \A i \in 1 .. Len(g) : Append(g, tokens[b])[i] = g[i]
      BY <3>1, OneMore
    <3> QED
      BY <2>2, <3>2
  <2>4. scored'[b] \in Seq(Seq(BranchVocab))
    BY <1>2, <2>2, OneMore
  <2>5. ScoredAfter(b)'
    BY <1>2, <2>1, <2>2, OneMoreScored
  <2>6. \A i \in 1 .. rounds : ~Batched!Ends(h[i], i)
    BY <2>2, <2>3
  <2>7. options.budget > 0 => Len(h) <= options.budget
    <3>1. CASE rounds = 0
      BY <1>2, <2>3, <3>1
    <3>2. CASE rounds > 0
      BY <1>2, <2>1, <2>3, <3>2, StillInBudget
    <3> QED
      BY <1>2, <3>1, <3>2
  <2>8. branchEnded'[b] <=> Batched!Ends(h[rounds + 1], rounds + 1)
    BY <1>1, <1>5, <2>3 DEF Batched!Ends
  <2> HIDE DEF g, h
  <2>9. CASE branchEnded'[b]
    <3>1. Len(h) - 1 = rounds /\ Len(h) = rounds + 1
      BY <1>2, <2>3
    <3>2. Batched!Complete(h)
      BY <2>6, <2>8, <2>9, <3>1 DEF Batched!Complete
    <3>3. Batched!Complete(generated[b])'
      BY <1>1, <3>2 DEF Batched!Complete, Batched!Ends, h
    <3> QED
      BY <2>3, <2>4, <2>5, <2>7, <2>9, <3>3 DEF h
  <2>10. CASE ~branchEnded'[b]
    <3>1. \A i \in 1 .. Len(h) : ~Batched!Ends(h[i], i)
      <4>1. \A i \in 1 .. Len(h) : i \in 1 .. rounds \/ i = rounds + 1
        BY <1>2, <2>3
      <4> QED
        BY <2>6, <2>8, <2>10, <4>1
    <3> QED
      BY <1>1, <1>5, <2>2, <2>3, <2>4, <2>5, <2>7, <2>10, <3>1 DEF h, g
  <2> QED
    BY <2>9, <2>10
<1> QED
  BY <1>4, <1>5

LEMMA BatchStep ==
    ASSUME Batched!BranchesAssumption, BranchesInv,
           NEW tokens \in [Branch -> BranchVocab], Batched!DecodeStep(tokens)
    PROVE  BranchesInv'
<1>0. /\ BranchesTypeOK /\ Forked /\ branchPc = "decode" /\ ~Batched!AllFinished
      /\ branchPc' = branchPc /\ options' = options /\ rounds' = rounds + 1
  BY DEF BranchesInv, Unforked, Batched!DecodeStep
<1>1. /\ rounds \in Nat /\ options.budget \in Nat
      /\ Len(BranchPrompt) \in Nat /\ BranchContext \in Nat
      /\ \A b \in Branch : /\ branchKv[b] \in Seq(BranchVocab)
                           /\ branchLogits[b] \in Seq(BranchVocab)
                           /\ Len(branchKv[b]) = Len(BranchPrompt) + rounds
  BY <1>0, BranchesFacts DEF BranchesTypeOK, Forked
<1>2. \A b \in Branch :
        /\ generated'[b] \in Seq(BranchVocab) /\ scored'[b] \in Seq(Seq(BranchVocab))
        /\ IF branchEnded'[b]
              THEN generated'[b] # <<>> /\ Batched!Complete(generated[b])'
              ELSE /\ ~branchEnded[b] /\ Len(generated'[b]) = rounds'
                   /\ generated'[b] = Append(generated[b], tokens[b])
                   /\ \A i \in 1 .. Len(generated'[b]) : ~Batched!Ends(generated'[b][i], i)
        /\ ScoredAfter(b)'
        /\ options.budget > 0 => Len(generated'[b]) <= options.budget
  BY <1>0, DecodedRow
<1>3. /\ DOMAIN generated' = Branch /\ DOMAIN scored' = Branch
      /\ generated' = [b \in Branch |-> generated'[b]] /\ scored' = [b \in Branch |-> scored'[b]]
  BY DEF Batched!DecodeStep
<1>4. branchEnded' \in [Branch -> BOOLEAN]
  BY <1>0 DEF Batched!DecodeStep, BranchesTypeOK, Batched!Ends
<1>5. generated' \in [Branch -> Seq(BranchVocab)] /\ scored' \in [Branch -> Seq(Seq(BranchVocab))]
  BY <1>2, <1>3
<1>6. CASE \A b \in Branch : branchEnded'[b]
  <2>1. UNCHANGED <<branchKv, branchLogits>>
    BY <1>6 DEF Batched!DecodeStep
  <2>2. BranchesTypeOK'
    BY <1>0, <1>4, <1>5, <2>1 DEF BranchesTypeOK
  <2>3. \A b \in Branch : Len(branchKv'[b]) <= BranchContext
    BY <1>0, <2>1 DEF Forked, Row
  <2>4. \A b \in Branch : Row(b)'
    BY <1>0, <1>2, <1>6, <2>3 DEF Row
  <2>5. Forked'
    BY <1>0, <1>6, <2>4 DEF Forked, Batched!AllFinished
  <2> QED
    BY <2>2, <2>5 DEF BranchesInv
<1>7. CASE ~(\A b \in Branch : branchEnded'[b])
  <2>1. /\ branchKv' = [b \in Branch |-> Append(branchKv[b], tokens[b])]
        /\ branchLogits' = [b \in Branch |-> Append(branchKv[b], tokens[b])]
    BY <1>7 DEF Batched!DecodeStep
  <2>2. PICK a \in Branch : ~branchEnded'[a]
    BY <1>7
  <2>3. rounds + 1 < options.budget
    <3>1. Len(generated'[a]) = rounds + 1 /\ ~Batched!Ends(generated'[a][rounds + 1], rounds + 1)
      <4>1. /\ Len(generated'[a]) = rounds + 1
            /\ \A i \in 1 .. Len(generated'[a]) : ~Batched!Ends(generated'[a][i], i)
        BY <1>0, <1>2, <2>2
      <4>2. rounds + 1 \in 1 .. rounds + 1
        BY <1>1
      <4> QED
        BY <4>1, <4>2
    <3> QED
      BY <1>1, <3>1 DEF Batched!Ends
  <2>4. \A b \in Branch : /\ branchKv'[b] \in Seq(BranchVocab) /\ branchLogits'[b] = branchKv'[b]
                          /\ Len(branchKv'[b]) = Len(BranchPrompt) + rounds'
    <3> TAKE b \in Branch
    <3>1. /\ branchKv'[b] = Append(branchKv[b], tokens[b])
          /\ branchLogits'[b] = Append(branchKv[b], tokens[b])
      BY <2>1
    <3>2. /\ branchKv[b] \in Seq(BranchVocab) /\ tokens[b] \in BranchVocab
          /\ Len(branchKv[b]) = Len(BranchPrompt) + rounds
      BY <1>1
    <3>3. /\ Append(branchKv[b], tokens[b]) \in Seq(BranchVocab)
          /\ Len(Append(branchKv[b], tokens[b])) = Len(branchKv[b]) + 1
      BY <3>2, OneMore
    <3> QED
      BY <1>0, <1>1, <3>1, <3>2, <3>3
  <2>5. BranchesTypeOK'
    BY <1>0, <1>1, <1>4, <1>5, <2>1, <2>4 DEF BranchesTypeOK
  <2>6. \A b \in Branch : Len(branchKv'[b]) <= BranchContext
    BY <1>0, <1>1, <2>3, <2>4 DEF Forked
  <2>7. ASSUME NEW b \in Branch, ~branchEnded'[b] PROVE Going(b)'
    <3>1. branchKv[b] = BranchPrompt \o generated[b]
      BY <1>0, <1>2, <2>7 DEF Forked, Row, Going
    <3>2. Append(BranchPrompt \o generated[b], tokens[b])
            = BranchPrompt \o Append(generated[b], tokens[b])
      <4>1. /\ BranchPrompt \in Seq(BranchVocab) /\ generated[b] \in Seq(BranchVocab)
            /\ tokens[b] \in BranchVocab
        BY <1>0, BranchesFacts DEF BranchesTypeOK
      <4> DEFINE g == generated[b]
                 t == tokens[b]
      <4>2. BranchPrompt \in Seq(BranchVocab) /\ g \in Seq(BranchVocab) /\ t \in BranchVocab
        BY <4>1
      <4> HIDE DEF g, t
      <4>3. Append(BranchPrompt \o g, t) = BranchPrompt \o Append(g, t)
        BY <4>2
      <4> QED
        BY <4>3 DEF g, t
    <3>3. branchKv'[b] = BranchPrompt \o generated'[b]
      BY <1>2, <2>1, <2>7, <3>1, <3>2
    <3>4. \A i \in 1 .. Len(generated'[b]) : ~Batched!Ends(generated[b][i], i)'
      BY <1>0, <1>2, <2>7 DEF Batched!Ends
    <3> QED
      BY <1>2, <2>4, <2>7, <3>3, <3>4 DEF Going
  <2>8. \A b \in Branch : Row(b)'
    BY <1>0, <1>2, <2>6, <2>7 DEF Row
  <2>9. Forked'
    BY <1>0, <2>4, <2>8 DEF Forked
  <2> QED
    BY <2>5, <2>9 DEF BranchesInv
<1> QED
  BY <1>6, <1>7

LEMMA BatchReturns ==
    ASSUME Batched!BranchesAssumption, BranchesInv, Batched!Return PROVE BranchesInv'
<1>1. /\ BranchesTypeOK /\ Forked /\ (Batched!AllFinished \/ rounds = MaxRounds)
      /\ branchPc' = IF Batched!AllFinished THEN "returned" ELSE "raised"
      /\ UNCHANGED <<options, branchKv, branchLogits, generated, scored, branchEnded, rounds>>
  BY DEF BranchesInv, Unforked, Batched!Return
<1>2. BranchesTypeOK'
  BY <1>1 DEF BranchesTypeOK
<1>3. \A b \in Branch : Row(b)'
  BY <1>1 DEF Forked, Row, Going, ScoredAfter, Batched!Complete, Batched!Ends
<1>4. branchPc' = "raised" /\ rounds > 0 => options.budget > MaxRounds
  <2>1. SUFFICES ASSUME ~Batched!AllFinished, rounds = MaxRounds, rounds > 0
                 PROVE  options.budget > MaxRounds
    BY <1>1
  <2>2. PICK b \in Branch : ~branchEnded[b]
    BY <2>1 DEF Batched!AllFinished
  <2>3. Going(b)
    BY <1>1, <2>2 DEF Forked, Row
  <2>4. rounds < options.budget
    BY <1>1, <2>1, <2>3, StillInBudget
  <2> QED
    BY <1>1, <2>1, <2>4, BranchesFacts DEF BranchesTypeOK
<1>5. Forked'
  BY <1>1, <1>3, <1>4 DEF Forked, Batched!AllFinished
<1> QED
  BY <1>2, <1>5 DEF BranchesInv

LEMMA BranchesStep ==
    ASSUME Batched!BranchesAssumption, BranchesInv, [Batched!Next]_(Batched!vars)
    PROVE  BranchesInv'
<1>1. CASE Batched!ForkBatched
  BY <1>1, ForkStep
<1>2. ASSUME NEW tokens \in [Branch -> BranchVocab], Batched!DecodeStep(tokens) PROVE BranchesInv'
  BY <1>2, BatchStep
<1>3. CASE Batched!Return
  BY <1>3, BatchReturns
<1>4. CASE UNCHANGED Batched!vars
  <2>1. UNCHANGED <<branchPc, options, branchKv, branchLogits, generated, scored, branchEnded,
                    rounds>>
    BY <1>4 DEF Batched!vars
  <2>2. BranchesTypeOK' /\ Unforked' = Unforked
    BY <2>1 DEF BranchesInv, BranchesTypeOK, Unforked
  <2>3. \A b \in Branch : Row(b)' = Row(b)
    BY <2>1 DEF Row, Going, ScoredAfter, Batched!Complete, Batched!Ends
  <2>4. Forked' <=> Forked
    BY <2>1, <2>3 DEF Forked, Batched!AllFinished
  <2> QED
    BY <2>2, <2>4 DEF BranchesInv
<1> QED
  BY <1>1, <1>2, <1>3, <1>4 DEF Batched!Next

LEMMA BranchesConsequence ==
    ASSUME Batched!BranchesAssumption, BranchesInv PROVE Batched!BranchesExact
<1>0. BranchesTypeOK /\ options.budget \in Nat
  BY BranchesFacts DEF BranchesInv, BranchesTypeOK
<1>1. CASE Unforked
  <2>1. ASSUME NEW b \in Branch
        PROVE  /\ generated[b] = <<>> /\ scored[b] = <<>> /\ Len(branchKv[b]) = 0
               /\ branchEnded[b] = FALSE
               /\ Len(generated[b]) = 0 /\ DOMAIN generated[b] = {}
    BY <1>0, <1>1 DEF Unforked, BranchesTypeOK
  <2> QED
    BY <1>0, <1>1, <2>1, BranchesFacts DEF Unforked, Batched!BranchesExact
<1>2. CASE Forked
  <2>1. ASSUME NEW b \in Branch
        PROVE  /\ \A i \in DOMAIN generated[b] :
                     scored[b][i] = BranchPrompt \o SubSeq(generated[b], 1, i - 1)
               /\ Len(branchKv[b]) <= BranchContext
               /\ branchEnded[b] <=> generated[b] # <<>> /\ Batched!Complete(generated[b])
               /\ options.budget > 0 => Len(generated[b]) <= options.budget
    <3>1. /\ Row(b) /\ generated[b] \in Seq(BranchVocab)
          /\ DOMAIN generated[b] = 1 .. Len(generated[b])
      BY <1>0, <1>2 DEF Forked, BranchesTypeOK
    <3>2. ASSUME ~branchEnded[b], generated[b] # <<>> PROVE ~Batched!Complete(generated[b])
      <4>1. Len(generated[b]) \in 1 .. Len(generated[b])
        BY <3>1, <3>2
      <4>2. ~Batched!Ends(generated[b][Len(generated[b])], Len(generated[b]))
        BY <3>1, <3>2, <4>1 DEF Row, Going
      <4> QED
        BY <3>2, <4>2 DEF Batched!Complete
    <3> QED
      BY <3>1, <3>2 DEF Row, ScoredAfter
  <2> QED
    BY <1>2, <2>1 DEF Forked, Batched!BranchesExact
<1> QED
  BY <1>1, <1>2 DEF BranchesInv

\* Every state of a batch is well typed and its branches are as BranchesInv says: a branch
\* that goes on has emitted one token in each round and its row holds the prompt and these,
\* and the rows all have one length until the last has ended (batched.py, fork_batched and
\* decode_step_batched).
THEOREM BranchesInvariant == Batched!Spec => []BranchesInv
<1>1. Batched!Init => BranchesInv
  BY BranchParameters, BranchesStart
<1>2. BranchesInv /\ [Batched!Next]_(Batched!vars) => BranchesInv'
  BY BranchParameters, BranchesStep
<1> QED
  BY <1>1, <1>2, PTL DEF Batched!Spec

\* Branches that end in different rounds do not disturb one another, for any number of rows,
\* any prompt, budget and number of rounds: every token was scored after its own branch's
\* text, a branch ends where it would alone, no row leaves the context, and a batch that
\* gives up had a budget above its rounds (batched.py, decode_step_batched and
\* generate_batched).
THEOREM BranchesAreIndependent == Batched!Spec => []BranchesExact
<1>1. BranchesInv => BranchesExact
  BY BranchParameters, BranchesConsequence DEF BranchesExact
<1> QED
  BY <1>1, BranchesInvariant, PTL

----------------------------------------------------------------------------
(***************************************************************************)
(* ToolRollout.  The cache lags behind the transcript only where nothing   *)
(* is sampled again: the budget is used up, or the turn ended without a    *)
(* call.                                                                   *)
(***************************************************************************)

Positions(n) == [i \in 1 .. n |-> i]

ToolTokens == {"text", "close", "eos", "result"}

ToolTypeOK ==
    /\ pc \in {"turn", "decode", "parse", "execute", "feed", "returned", "raised"}
    /\ response \in Seq(ToolTokens) /\ turnStart \in 0 .. Len(response)
    /\ sampled \in 0 .. Len(response) /\ ended \in BOOLEAN
    /\ kv \in Seq(Nat) /\ logits \in Seq(Nat)
    /\ result \in Nat

\* The turn has no closing tag, so far.
NoCall == \A i \in turnStart + 1 .. Len(response) : response[i] # "close"

InStep == kv = Positions(Len(response)) /\ logits = kv

SampledOut == Len(response) >= ToolBudget

EndedWithoutCall == ended /\ NoCall /\ pc \in {"decode", "parse", "returned"}

ToolInv ==
    /\ ToolTypeOK
    /\ pc = "decode" => NoCall
    /\ InStep \/ SampledOut \/ EndedWithoutCall

LEMMA ToolFacts ==
    ASSUME Tools!ToolRolloutAssumption
    PROVE  /\ ToolPrompt \in Nat /\ MaxTurns \in Nat /\ ToolBudget \in Nat /\ ToolContext \in Nat
           /\ \A n \in ResultLengths : n \in Nat
BY DEF Tools!ToolRolloutAssumption

\* Positions behind positions.
LEMMA PositionsExtend ==
    ASSUME NEW n \in Nat, NEW m \in Nat
    PROVE  /\ Positions(n) \in Seq(Nat) /\ Len(Positions(n)) = n
           /\ [i \in 1 .. m |-> n + i] \in Seq(Nat)
           /\ Positions(n) \o [i \in 1 .. m |-> n + i] = Positions(n + m)
<1> DEFINE l == Positions(n)
           b == [i \in 1 .. m |-> n + i]
           w == Positions(n + m)
<1>1. l \in Seq(Nat) /\ Len(l) = n /\ \A i \in 1 .. n : l[i] = i
  BY DEF Positions
<1>2. b \in Seq(Nat) /\ Len(b) = m /\ \A i \in 1 .. m : b[i] = n + i
  OBVIOUS
<1>3. w \in Seq(Nat) /\ Len(w) = n + m /\ \A i \in 1 .. n + m : w[i] = i
  BY DEF Positions
<1> HIDE DEF l, b, w
<1>4. /\ l \o b \in Seq(Nat) /\ Len(l \o b) = n + m
      /\ \A i \in 1 .. Len(l) + Len(b) :
            (l \o b)[i] = IF i <= Len(l) THEN l[i] ELSE b[i - Len(l)]
  BY <1>1, <1>2, ConcatProperties
<1>5. \A i \in 1 .. n + m : (l \o b)[i] = i
  <2> TAKE i \in 1 .. n + m
  <2>0. i \in 1 .. Len(l) + Len(b)
    BY <1>1, <1>2
  <2>1. CASE i <= n
    <3>1. i \in 1 .. n
      BY <2>1
    <3> QED
      BY <1>1, <1>4, <2>0, <2>1, <3>1
  <2>2. CASE i > n
    <3>1. i - n \in 1 .. m
      BY <2>2
    <3> QED
      BY <1>1, <1>2, <1>4, <2>0, <2>2, <3>1
  <2>3. i <= n \/ i > n
    OBVIOUS
  <2> QED
    BY <2>1, <2>2, <2>3
<1>6. l \o b = w
  BY <1>3, <1>4, <1>5, SeqEqual
<1> QED
  BY <1>1, <1>2, <1>6 DEF l, b, w

LEMMA ToolStart == Tools!ToolRolloutAssumption /\ Tools!Init => ToolInv
<1> SUFFICES ASSUME Tools!ToolRolloutAssumption, Tools!Init PROVE ToolInv
  OBVIOUS
<1>1. <<>> \in Seq(ToolTokens) /\ <<>> \in Seq(Nat) /\ Len(<<>>) = 0
  OBVIOUS
<1>2. Positions(0) = <<>>
  BY PositionsExtend DEF Positions
<1>3. ToolTypeOK
  <2>1. /\ pc = "turn" /\ response = <<>> /\ turnStart = 0 /\ sampled = 0 /\ ended = FALSE
        /\ kv = <<>> /\ logits = <<>> /\ result = 0
    BY DEF Tools!Init
  <2>2. 0 \in 0 .. Len(response)
    BY <1>1, <2>1
  <2> QED
    BY <1>1, <2>1, <2>2 DEF ToolTypeOK
<1>4. InStep
  BY <1>1, <1>2 DEF Tools!Init, InStep
<1> QED
  BY <1>3, <1>4 DEF Tools!Init, ToolInv

LEMMA BeginTurnStep ==
    ASSUME Tools!ToolRolloutAssumption, ToolInv, Tools!BeginTurn PROVE ToolInv'
<1>1. /\ pc = "turn" /\ UNCHANGED <<response, sampled, ended, kv, logits, result>>
      /\ ToolTypeOK /\ Len(response) \in Nat
      /\ \/ pc' = "decode" /\ turnStart' = Len(response)
         \/ pc' = "returned" /\ turnStart' = turnStart
  BY DEF Tools!BeginTurn, ToolInv, ToolTypeOK
<1>2. ToolTypeOK'
  BY <1>1 DEF ToolTypeOK
<1>3. pc' = "decode" => NoCall'
  BY <1>1 DEF NoCall
<1>4. InStep' \/ SampledOut'
  BY <1>1 DEF ToolInv, InStep, SampledOut, EndedWithoutCall
<1> QED
  BY <1>2, <1>3, <1>4 DEF ToolInv

LEMMA ToolDecodeStep ==
    ASSUME Tools!ToolRolloutAssumption, ToolInv, Tools!DecodeStep PROVE ToolInv'
<1> DEFINE n == Len(response)
<1>1. PICK t \in Tools!Kinds :
         /\ response' = Append(response, t) /\ sampled' = sampled + 1
         /\ ended' = (t = "eos" \/ sampled + 1 >= ToolBudget)
         /\ Tools!FeedSampled(t, ended')
         /\ logits' = IF ended' THEN logits ELSE kv'
         /\ pc' = IF t = "close" THEN "parse" ELSE "decode"
  BY DEF Tools!DecodeStep
<1>2. /\ pc = "decode" /\ ~ended /\ n < ToolBudget
      /\ turnStart' = turnStart /\ result' = result
      /\ ToolTypeOK /\ NoCall /\ n \in Nat /\ ToolBudget \in Nat
  BY ToolFacts DEF Tools!DecodeStep, Tools!Decoding, ToolInv, ToolTypeOK
<1>3. kv = Positions(n) /\ logits = kv
  BY <1>2 DEF ToolInv, InStep, SampledOut, EndedWithoutCall
<1>4. t \in ToolTokens
  BY DEF Tools!Kinds, ToolTokens
<1>5. /\ response' \in Seq(ToolTokens) /\ Len(response') = n + 1 /\ response'[n + 1] = t
      /\ \A i \in 1 .. n : response'[i] = response[i]
  BY <1>1, <1>2, <1>4, OneMore DEF ToolTypeOK
<1>6. kv \o Tools!Behind(1) = Positions(n + 1) /\ Positions(n + 1) \in Seq(Nat)
  <2>1. n \in Nat /\ 1 \in Nat /\ n + 1 \in Nat
    BY <1>2
  <2> HIDE DEF n
  <2>2. Positions(n) \o [i \in 1 .. 1 |-> n + i] = Positions(n + 1)
    BY <2>1, PositionsExtend
  <2>3. Positions(n + 1) \in Seq(Nat)
    BY <2>1, PositionsExtend
  <2> QED
    BY <1>3, <2>2, <2>3 DEF Tools!Behind, n
<1>7. ToolTypeOK'
  <2>1. kv' \in Seq(Nat) /\ logits' \in Seq(Nat)
    BY <1>1, <1>2, <1>6 DEF Tools!FeedSampled, ToolTypeOK
  <2>2. turnStart' \in 0 .. Len(response') /\ sampled' \in 0 .. Len(response')
    BY <1>1, <1>2, <1>5 DEF ToolTypeOK
  <2>3. ended' \in BOOLEAN
    BY <1>1
  <2> QED
    BY <1>1, <1>2, <1>5, <2>1, <2>2, <2>3 DEF ToolTypeOK
<1>8. t # "close" => NoCall'
  <2> SUFFICES ASSUME t # "close", NEW i \in turnStart + 1 .. n + 1 PROVE response'[i] # "close"
    BY <1>2, <1>5 DEF NoCall
  <2>1. i = n + 1 \/ (i \in turnStart + 1 .. n /\ i \in 1 .. n)
    BY <1>2 DEF ToolTypeOK
  <2> QED
    BY <1>2, <1>5, <2>1 DEF NoCall
<1>9. InStep' \/ SampledOut' \/ EndedWithoutCall'
  <2>1. CASE ~ended'
    BY <1>1, <1>5, <1>6, <2>1 DEF Tools!FeedSampled, InStep
  <2>2. CASE t = "eos"
    BY <1>1, <1>8, <2>2 DEF EndedWithoutCall
  <2>3. CASE sampled + 1 >= ToolBudget
    BY <1>2, <1>5, <2>3 DEF SampledOut, ToolTypeOK
  <2> QED
    BY <1>1, <2>1, <2>2, <2>3
<1> QED
  BY <1>1, <1>7, <1>8, <1>9 DEF ToolInv

LEMMA ParseStep ==
    ASSUME Tools!ToolRolloutAssumption, ToolInv, Tools!ParseCall PROVE ToolInv'
<1>1. /\ pc = "parse" /\ ToolTypeOK
      /\ UNCHANGED <<response, turnStart, sampled, ended, kv, logits, result>>
      /\ \/ Tools!Closes(Tools!TurnText) /\ pc' = "execute"
         \/ pc' = "returned"
  BY DEF Tools!ParseCall, ToolInv
<1>2. ToolTypeOK'
  BY <1>1 DEF ToolTypeOK
<1>3. Tools!Closes(Tools!TurnText) => ~NoCall
  <2>1. /\ response \in Seq(ToolTokens) /\ Len(response) \in Nat
        /\ turnStart \in 0 .. Len(response)
    BY <1>1 DEF ToolTypeOK
  <2>2. \A i \in DOMAIN Tools!TurnText :
           /\ turnStart + i \in turnStart + 1 .. Len(response)
           /\ Tools!TurnText[i] = response[turnStart + i]
    BY <2>1 DEF Tools!TurnText
  <2> QED
    BY <2>2 DEF Tools!Closes, NoCall
<1>4. InStep' \/ SampledOut' \/ EndedWithoutCall'
  BY <1>1, <1>3 DEF ToolInv, InStep, SampledOut, EndedWithoutCall, NoCall
<1> QED
  BY <1>1, <1>2, <1>4 DEF ToolInv

LEMMA FeedStep ==
    ASSUME Tools!ToolRolloutAssumption, ToolInv, Tools!FeedResult PROVE ToolInv'
<1> DEFINE n == Len(response)
           m == result
           r == [i \in 1 .. m |-> "result"]
<1>1. /\ pc = "feed" /\ UNCHANGED <<turnStart, sampled, result>>
      /\ ToolTypeOK /\ n \in Nat /\ m \in Nat
  BY DEF Tools!FeedResult, ToolInv, ToolTypeOK
<1>2. InStep \/ SampledOut
  BY <1>1 DEF ToolInv, EndedWithoutCall
<1>3. CASE pc' \in {"returned", "raised"} /\ UNCHANGED <<response, ended, kv, logits>>
  BY <1>1, <1>2, <1>3 DEF ToolInv, ToolTypeOK, InStep, SampledOut
<1>4. CASE /\ kv' = kv \o Tools!Behind(result) /\ logits' = kv'
           /\ response' = response \o r /\ ended' = FALSE /\ pc' = "turn"
  <2>1. r \in Seq(ToolTokens) /\ Len(r) = m
    BY <1>1 DEF ToolTokens
  <2>2. response' \in Seq(ToolTokens) /\ Len(response') = n + m
    <3>1. response \in Seq(ToolTokens)
      BY <1>1 DEF ToolTypeOK
    <3> HIDE DEF r
    <3> QED
      BY <1>4, <2>1, <3>1, ConcatProperties
  <2>3. Positions(n) \o Tools!Behind(m) = Positions(n + m) /\ Tools!Behind(m) \in Seq(Nat)
    BY <1>1, PositionsExtend DEF Tools!Behind
  <2>4. kv' \in Seq(Nat) /\ logits' \in Seq(Nat)
    BY <1>1, <1>4, <2>3 DEF ToolTypeOK
  <2>5. ToolTypeOK'
    <3>1. turnStart' \in 0 .. Len(response') /\ sampled' \in 0 .. Len(response')
      BY <1>1, <2>2 DEF ToolTypeOK
    <3>2. pc' = "turn" /\ ended' = FALSE /\ result' \in Nat
      BY <1>1, <1>4
    <3> QED
      BY <2>2, <2>4, <3>1, <3>2 DEF ToolTypeOK
  <2>6. InStep' \/ SampledOut'
    <3>1. CASE InStep
      BY <1>4, <2>2, <2>3, <3>1 DEF InStep
    <3>2. CASE SampledOut
      BY <1>1, <2>2, <3>2, ToolFacts DEF SampledOut
    <3> QED
      BY <1>2, <3>1, <3>2
  <2> QED
    BY <1>4, <2>5, <2>6 DEF ToolInv
<1> QED
  BY <1>3, <1>4 DEF Tools!FeedResult

LEMMA ToolStep ==
    ASSUME Tools!ToolRolloutAssumption, ToolInv, [Tools!Next]_(Tools!vars) PROVE ToolInv'
<1>1. CASE Tools!BeginTurn
  BY <1>1, BeginTurnStep
<1>2. CASE Tools!DecodeStep
  BY <1>2, ToolDecodeStep
<1>3. CASE Tools!DecodeEnds
  BY <1>3 DEF Tools!DecodeEnds, ToolInv, ToolTypeOK, InStep, SampledOut, EndedWithoutCall, NoCall
<1>4. CASE Tools!ParseCall
  BY <1>4, ParseStep
<1>5. CASE Tools!Execute
  <2>1. /\ pc = "execute" /\ pc' \in {"feed", "raised"} /\ result' \in Nat
        /\ UNCHANGED <<response, turnStart, sampled, ended, kv, logits>>
    BY <1>5, ToolFacts DEF Tools!Execute, ToolInv, ToolTypeOK
  <2> QED
    BY <2>1 DEF ToolInv, ToolTypeOK, InStep, SampledOut, EndedWithoutCall
<1>6. CASE Tools!FeedResult
  BY <1>6, FeedStep
<1>7. CASE UNCHANGED Tools!vars
  BY <1>7 DEF Tools!vars, ToolInv, ToolTypeOK, InStep, SampledOut, EndedWithoutCall, NoCall
<1> QED
  BY <1>1, <1>2, <1>3, <1>4, <1>5, <1>6, <1>7 DEF Tools!Next

\* Every token of a rollout with tools is sampled from logits over the prompt and the whole
\* transcript, each token once and in order, for every budget, number of turns and length of
\* the results: where decode_step leaves its last token out of the cache, either the budget is
\* used up or the turn holds no call, and nothing is sampled again (rollout.py,
\* generate_with_tools; engine.py, decode_step).
THEOREM ToolTranscriptsExact == Tools!Spec => []TranscriptExact
<1>1. Tools!Init => ToolInv
  BY ToolParameters, ToolStart
<1>2. ToolInv /\ [Tools!Next]_(Tools!vars) => ToolInv'
  BY ToolParameters, ToolStep
<1>3. ToolInv => TranscriptExact
  <2> SUFFICES ASSUME ToolInv, pc = "decode", Tools!Decoding
               PROVE  logits = [i \in DOMAIN response |-> i]
    BY DEF TranscriptExact, Tools!TranscriptExact
  <2>1. InStep /\ response \in Seq(ToolTokens)
    BY ToolParameters, ToolFacts
       DEF ToolInv, Tools!Decoding, SampledOut, EndedWithoutCall, ToolTypeOK
  <2> QED
    BY <2>1 DEF InStep, Positions
<1> QED
  BY <1>1, <1>2, <1>3, PTL DEF Tools!Spec

----------------------------------------------------------------------------
(***************************************************************************)
(* KVOffload.  The request in memory, and what the caller could rebuild    *)
(* from the files and its last report, are whole texts, except where files *)
(* of two saves have met.                                                  *)
(***************************************************************************)

\* Every layer has the rows of the prompt so far and of the tokens fed, and the logits are
\* of these rows.
WholeText(prefilled, tokens, cache, of) ==
    /\ prefilled \in 0 .. OffloadPrompt /\ tokens \in Nat
    /\ prefilled < OffloadPrompt => tokens = 0
    /\ cache = [l \in Layers |-> Positions(prefilled + tokens)]
    /\ of = Positions(prefilled + tokens)

RequestState ==
    [prefilled : Nat, generated : Nat, finished : BOOLEAN,
     cache : [Layers -> Seq(Nat)], logits : Seq(Nat)]

\* No arrays of one save have been read under the report of another.
Unmixed ==
    /\ state \in RequestState
    /\ WholeText(state.prefilled, fedTokens, state.cache, state.logits)
    /\ saving = "manifest" => arrays = state.cache
    /\ kept.valid => manifest = Offload!Manifest
    /\ kept.valid /\ mixed = "no" /\ saving # "manifest" =>
          \/ DOMAIN arrays = {}
          \/ WholeText(kept.prefilled, kept.fed, arrays, kept.logits)

OffloadInv ==
    /\ mixed \in {"no", "files", "state"} /\ saving \in {"no", "arrays", "manifest"}
    /\ saving # "no" => live
    /\ ~live => kept.valid
    /\ mixed = "state" \/ Unmixed

LEMMA OffloadFacts ==
    ASSUME Offload!OffloadAssumption
    PROVE  /\ (CHOOSE l \in Layers : TRUE) \in Layers /\ Layers # {} /\ Latent \subseteq Layers
           /\ OffloadPrompt \in Nat /\ OffloadPrompt > 0 /\ OffloadChunk \in Nat /\ OffloadChunk > 0
           /\ OffloadBudget \in Nat
BY DEF Offload!OffloadAssumption

\* What is whole is well typed.
LEMMA WholeTyped ==
    ASSUME Offload!OffloadAssumption, NEW p, NEW f, NEW c, NEW g, WholeText(p, f, c, g)
    PROVE  p \in Nat /\ f \in Nat /\ c \in [Layers -> Seq(Nat)] /\ g \in Seq(Nat)
<1>1. p \in Nat /\ f \in Nat /\ p + f \in Nat
  BY OffloadFacts DEF WholeText
<1>2. Positions(p + f) \in Seq(Nat)
  BY <1>1, PositionsExtend
<1> QED
  BY <1>1, <1>2 DEF WholeText

\* n more tokens behind a whole text.
LEMMA ForwardWhole ==
    ASSUME Offload!OffloadAssumption, Unmixed, NEW n \in Nat
    PROVE  Offload!Forward(n, state.prefilled + fedTokens + 1)
             = [l \in Layers |-> Positions(state.prefilled + fedTokens + n)]
<1> DEFINE m == state.prefilled + fedTokens
<1>1. m \in Nat /\ state.prefilled \in Nat /\ fedTokens \in Nat
      /\ \A l \in Layers : state.cache[l] = Positions(m)
  BY OffloadFacts DEF Unmixed, WholeText
<1>2. [i \in 1 .. n |-> m + 1 + i - 1] = [i \in 1 .. n |-> m + i]
  BY <1>1
<1> HIDE DEF m
<1>3. Positions(m) \o [i \in 1 .. n |-> m + i] = Positions(m + n)
  BY <1>1, PositionsExtend
<1>4. \A l \in Layers : state.cache[l] \o [i \in 1 .. n |-> m + 1 + i - 1] = Positions(m + n)
  BY <1>1, <1>2, <1>3
<1>5. Offload!Forward(n, m + 1) = [l \in Layers |-> Positions(m + n)]
  BY <1>4 DEF Offload!Forward
<1> QED
  BY <1>5 DEF m

LEMMA OffloadStart == Offload!OffloadAssumption /\ Offload!Init => OffloadInv
<1> SUFFICES ASSUME Offload!OffloadAssumption, Offload!Init PROVE OffloadInv
  OBVIOUS
<1>1. /\ state = [prefilled |-> 0, generated |-> 0, finished |-> FALSE,
                  cache |-> [l \in Layers |-> <<>>], logits |-> <<>>]
      /\ fedTokens = 0 /\ live = TRUE /\ saving = "no" /\ mixed = "no" /\ kept.valid = FALSE
  BY DEF Offload!Init
<1>2. Positions(0 + 0) = <<>> /\ <<>> \in Seq(Nat)
  BY PositionsExtend DEF Positions
<1>3. state \in RequestState
  BY <1>1, <1>2 DEF RequestState
<1>4. WholeText(state.prefilled, fedTokens, state.cache, state.logits)
  BY <1>1, <1>2, OffloadFacts DEF WholeText
<1> QED
  BY <1>1, <1>3, <1>4 DEF OffloadInv, Unmixed

LEMMA OffloadPrefillStep ==
    ASSUME Offload!OffloadAssumption, OffloadInv, Offload!Prefill PROVE OffloadInv'
<1>1. /\ live /\ saving = "no" /\ state.prefilled < OffloadPrompt
      /\ UNCHANGED <<fedTokens, live, saving, arrays, manifest, kept, mixed>>
  BY DEF Offload!Prefill, Offload!Rest
<1>2. SUFFICES ASSUME mixed # "state" PROVE Unmixed'
  BY <1>1 DEF OffloadInv
<1> DEFINE left == OffloadPrompt - state.prefilled
           n == IF OffloadChunk < left THEN OffloadChunk ELSE left
           p == state.prefilled
           cache == [l \in Layers |-> Positions(p + n)]
<1>3. /\ Unmixed /\ state \in RequestState /\ fedTokens = 0
      /\ p \in Nat /\ n \in Nat /\ p + n \in 0 .. OffloadPrompt
      /\ WholeText(p, fedTokens, state.cache, state.logits)
  BY <1>1, <1>2, OffloadFacts DEF OffloadInv, Unmixed, WholeText
<1>4. Offload!Forward(n, p + 1) = cache
  <2>1. Offload!Forward(n, p + fedTokens + 1) = [l \in Layers |-> Positions(p + fedTokens + n)]
    BY <1>3, ForwardWhole
  <2>2. p + fedTokens + 1 = p + 1 /\ p + fedTokens + n = p + n
    BY <1>3
  <2> QED
    BY <2>1, <2>2
<1>5. state' = [state EXCEPT !.prefilled = p + n, !.cache = cache,
                             !.logits = cache[CHOOSE l \in Layers : TRUE]]
  BY <1>4 DEF Offload!Prefill
<1>6. cache[CHOOSE l \in Layers : TRUE] = Positions(p + n)
  BY OffloadFacts
<1> HIDE DEF n
<1>7. WholeText(p + n, fedTokens, cache, Positions(p + n))
  <2>1. p + n + fedTokens = p + n
    BY <1>3
  <2> QED
    BY <1>3, <2>1 DEF WholeText
<1>8. cache \in [Layers -> Seq(Nat)] /\ Positions(p + n) \in Seq(Nat) /\ p + n \in Nat
  BY <1>7, WholeTyped
<1> HIDE DEF cache, p
<1>9. /\ state' \in RequestState /\ state'.prefilled = p + n /\ state'.cache = cache
      /\ state'.logits = Positions(p + n)
  BY <1>3, <1>5, <1>6, <1>8 DEF RequestState
<1> QED
  BY <1>1, <1>3, <1>7, <1>9 DEF Unmixed, WholeText, Offload!Manifest

LEMMA OffloadDecodeStep ==
    ASSUME Offload!OffloadAssumption, OffloadInv, Offload!Decode PROVE OffloadInv'
<1>1. /\ live /\ saving = "no" /\ state.prefilled = OffloadPrompt
      /\ UNCHANGED <<live, saving, arrays, manifest, kept, mixed>>
  BY DEF Offload!Decode, Offload!Rest
<1>2. SUFFICES ASSUME mixed # "state" PROVE Unmixed'
  BY <1>1 DEF OffloadInv
<1> DEFINE done == state.generated + 1 >= OffloadBudget
           cache == [l \in Layers |-> Positions(OffloadPrompt + fedTokens + 1)]
<1>3. /\ Unmixed /\ state \in RequestState /\ fedTokens \in Nat /\ OffloadPrompt \in Nat
      /\ WholeText(OffloadPrompt, fedTokens, state.cache, state.logits)
  BY <1>1, <1>2, OffloadFacts DEF OffloadInv, Unmixed, WholeText
<1>4. Offload!Forward(1, OffloadPrompt + fedTokens + 1) = cache
  <2>1. 1 \in Nat
    OBVIOUS
  <2> QED
    BY <1>1, <1>3, <2>1, ForwardWhole
<1>5. /\ state' = [state EXCEPT !.generated = @ + 1, !.finished = done,
                                !.cache = IF done THEN @ ELSE cache,
                                !.logits = IF done THEN @
                                           ELSE cache[CHOOSE l \in Layers : TRUE]]
      /\ fedTokens' = IF done THEN fedTokens ELSE fedTokens + 1
  BY <1>4 DEF Offload!Decode
<1>6. cache[CHOOSE l \in Layers : TRUE] = Positions(OffloadPrompt + fedTokens + 1)
  BY OffloadFacts
<1>7. WholeText(OffloadPrompt, fedTokens + 1, cache, Positions(OffloadPrompt + fedTokens + 1))
  <2>1. OffloadPrompt + (fedTokens + 1) = OffloadPrompt + fedTokens + 1
    BY <1>3
  <2> QED
    BY <1>3, <2>1 DEF WholeText
<1>8. cache \in [Layers -> Seq(Nat)] /\ Positions(OffloadPrompt + fedTokens + 1) \in Seq(Nat)
  BY <1>7, WholeTyped
<1> HIDE DEF cache
<1>9. /\ state' \in RequestState /\ state'.prefilled = OffloadPrompt
      /\ state'.cache = IF done THEN state.cache ELSE cache
      /\ state'.logits = IF done THEN state.logits ELSE Positions(OffloadPrompt + fedTokens + 1)
  <2> DEFINE c == IF done THEN state.cache ELSE cache
             g == IF done THEN state.logits ELSE Positions(OffloadPrompt + fedTokens + 1)
             d == done
             k == state.generated + 1
  <2>1. c \in [Layers -> Seq(Nat)] /\ g \in Seq(Nat) /\ d \in BOOLEAN /\ k \in Nat
    BY <1>3, <1>8 DEF RequestState
  <2>2. state' = [state EXCEPT !.generated = k, !.finished = d, !.cache = c, !.logits = g]
    BY <1>5, <1>6
  <2> HIDE DEF c, g, d, k
  <2>3. /\ state' \in RequestState /\ state'.prefilled = OffloadPrompt /\ state'.cache = c
        /\ state'.logits = g
    BY <1>1, <1>3, <2>1, <2>2 DEF RequestState
  <2> QED
    BY <2>3 DEF c, g
<1>10. WholeText(OffloadPrompt, fedTokens', state'.cache, state'.logits)
  BY <1>3, <1>5, <1>7, <1>9
<1> QED
  BY <1>1, <1>3, <1>9, <1>10 DEF Unmixed, WholeText, Offload!Manifest

LEMMA ManifestStep ==
    ASSUME Offload!OffloadAssumption, OffloadInv, Offload!WriteManifest PROVE OffloadInv'
<1>1. /\ saving = "manifest" /\ saving' = "no" /\ manifest' = Offload!Manifest
      /\ kept' = [valid |-> TRUE, prefilled |-> state.prefilled, logits |-> state.logits,
                  fed |-> fedTokens]
      /\ mixed' = IF mixed = "files" THEN "no" ELSE mixed
      /\ UNCHANGED <<state, live, fedTokens, arrays>>
  BY DEF Offload!WriteManifest
<1>2. /\ kept'.valid = TRUE /\ kept'.prefilled = state.prefilled /\ kept'.fed = fedTokens
      /\ kept'.logits = state.logits
  BY <1>1
<1>3. mixed # "state" => Unmixed'
  BY <1>1, <1>2 DEF OffloadInv, Unmixed, WholeText, Offload!Manifest
<1> QED
  BY <1>1, <1>2, <1>3 DEF OffloadInv

LEMMA ReloadStep ==
    ASSUME Offload!OffloadAssumption, OffloadInv, Offload!Reload PROVE OffloadInv'
<1> DEFINE cache == [l \in Layers |-> IF l \in manifest.kv \cup manifest.latent
                                      THEN arrays[l] ELSE <<>>]
<1>1. /\ ~live /\ manifest.kv \cup manifest.latent \subseteq DOMAIN arrays
      /\ state' = [prefilled |-> kept.prefilled, generated |-> 0, finished |-> FALSE,
                   cache |-> cache, logits |-> kept.logits]
      /\ fedTokens' = kept.fed /\ live' = TRUE
      /\ mixed' = IF mixed = "files" THEN "state" ELSE mixed
      /\ UNCHANGED <<saving, arrays, manifest, kept>>
  BY DEF Offload!Reload
<1>2. mixed = "no" => Unmixed'
  <2> SUFFICES ASSUME mixed = "no" PROVE Unmixed'
    OBVIOUS
  <2>1. /\ Unmixed /\ saving = "no" /\ kept.valid /\ manifest = Offload!Manifest
    BY <1>1 DEF OffloadInv, Unmixed
  <2>2. manifest.kv \cup manifest.latent = Layers
    BY <2>1, OffloadFacts DEF Offload!Manifest
  <2>3. WholeText(kept.prefilled, kept.fed, arrays, kept.logits)
    BY <1>1, <2>1, <2>2, OffloadFacts DEF Unmixed
  <2>4. cache = arrays
    BY <2>2, <2>3 DEF WholeText
  <2>5. /\ kept.prefilled \in Nat /\ arrays \in [Layers -> Seq(Nat)] /\ kept.logits \in Seq(Nat)
    BY <2>3, WholeTyped
  <2>6. /\ state' \in RequestState /\ state'.prefilled = kept.prefilled /\ state'.cache = arrays
        /\ state'.logits = kept.logits
    BY <1>1, <2>4, <2>5 DEF RequestState
  <2> QED
    BY <1>1, <2>1, <2>3, <2>6 DEF Unmixed, WholeText, Offload!Manifest
<1> QED
  BY <1>1, <1>2 DEF OffloadInv

LEMMA OffloadStep ==
    ASSUME Offload!OffloadAssumption, OffloadInv, [Offload!Next]_(Offload!vars)
    PROVE  OffloadInv'
<1>1. CASE Offload!Prefill
  BY <1>1, OffloadPrefillStep
<1>2. CASE Offload!Decode
  BY <1>2, OffloadDecodeStep
<1>3. CASE Offload!Offload
  BY <1>3 DEF Offload!Offload, OffloadInv, Unmixed, WholeText, Offload!Manifest
<1>4. CASE Offload!WriteArrays
  BY <1>4 DEF Offload!WriteArrays, OffloadInv, Unmixed, WholeText, Offload!Manifest
<1>5. CASE Offload!WriteManifest
  BY <1>5, ManifestStep
<1>6. CASE Offload!SaveFails
  <2>1. /\ saving # "no" /\ saving' = "no"
        /\ arrays' = IF saving = "arrays" THEN [l \in {} |-> <<>>] ELSE arrays
        /\ mixed' = IF mixed = "no" /\ saving = "manifest" THEN "files" ELSE mixed
        /\ UNCHANGED <<state, live, fedTokens, manifest, kept>>
    BY <1>6 DEF Offload!SaveFails
  <2>2. DOMAIN [l \in {} |-> <<>>] = {}
    OBVIOUS
  <2>3. mixed # "state" => Unmixed'
    BY <2>1, <2>2 DEF OffloadInv, Unmixed, WholeText, Offload!Manifest
  <2> QED
    BY <2>1, <2>3 DEF OffloadInv
<1>7. CASE Offload!Drop
  BY <1>7 DEF Offload!Drop, OffloadInv, Unmixed, WholeText, Offload!Manifest
<1>8. CASE Offload!Reload
  BY <1>8, ReloadStep
<1>9. CASE UNCHANGED Offload!vars
  BY <1>9 DEF Offload!vars, OffloadInv, Unmixed, WholeText, Offload!Manifest
<1> QED
  BY <1>1, <1>2, <1>3, <1>4, <1>5, <1>6, <1>7, <1>8, <1>9 DEF Offload!Next

\* For any set of layers, any prompt and any number of saves, failed saves, drops and reloads:
\* a request that is sampled has, in every layer, a row for each token of its text, and logits
\* over the whole of it, unless files of two saves have met (engine.py, offload_request and
\* reload_request; kv_offload.py).
THEOREM ReloadedRequestsWhole == Offload!Spec => []ResumesWhole
<1>1. Offload!Init => OffloadInv
  BY OffloadParameters, OffloadStart
<1>2. OffloadInv /\ [Offload!Next]_(Offload!vars) => OffloadInv'
  BY OffloadParameters, OffloadStep
<1>3. OffloadInv => ResumesWhole
  <2> SUFFICES ASSUME OffloadInv, mixed # "state", state.prefilled = OffloadPrompt
               PROVE  /\ state.logits = Offload!UpTo(OffloadPrompt + fedTokens)
                      /\ \A l \in Layers : state.cache[l] = Offload!UpTo(OffloadPrompt + fedTokens)
    BY DEF ResumesWhole, Offload!ResumesWhole
  <2> QED
    BY DEF OffloadInv, Unmixed, WholeText, Positions, Offload!UpTo
<1> QED
  BY <1>1, <1>2, <1>3, PTL DEF Offload!Spec

----------------------------------------------------------------------------
(***************************************************************************)
(* Weights.  A packed copy was made of the weight the linear holds, or of  *)
(* the one before it, whose id() no array of the next update had, or two   *)
(* updates have passed.                                                    *)
(***************************************************************************)

\* The copy a forward of the linear looks for.
CopyKind(l) == IF mode[l] = "fp4-native" THEN "fp4" ELSE "affine"

CopyOf(l) == cached[l][CopyKind(l)]

Current(l, copy) == copy.key = Model!Key(l) /\ copy.value = weight[l].value

CopyIsKnown(l) ==
    \/ mode[l] = "none" \/ CopyOf(l).key = <<>>
    \/ replaced[l] = 0 /\ Current(l, CopyOf(l))
    \/ replaced[l] = 1 /\ CopyOf(l).key # Model!Key(l)
    \/ replaced[l] > 1

WeightsInv ==
    \A l \in Linears :
        /\ mode[l] = Model!Resolved(asked, l)
        /\ replaced[l] \in Nat
        /\ cached[l] = [k \in {"affine", "fp4"} |-> cached[l][k]]
        /\ CopyIsKnown(l)

\* A layer that was never packed in a mode has no copy in it.
LEMMA NoCopies ==
    /\ Model!NoCache = [k \in {"affine", "fp4"} |-> Model!NoCache[k]]
    /\ \A k \in {"affine", "fp4"} : Model!NoCache[k].key = <<>>
BY DEF Model!NoCache, Model!Nothing

LEMMA WeightsStart == Model!Init => WeightsInv
<1> SUFFICES ASSUME Model!Init, NEW l \in Linears
             PROVE  /\ mode[l] = Model!Resolved(asked, l) /\ replaced[l] \in Nat
                    /\ cached[l] = [k \in {"affine", "fp4"} |-> cached[l][k]]
                    /\ CopyIsKnown(l)
  BY DEF WeightsInv
<1>1. mode[l] = "none" /\ asked = "none" /\ cached[l] = Model!NoCache /\ replaced[l] = 0
  BY DEF Model!Init
<1>2. CopyOf(l).key = <<>>
  BY <1>1, NoCopies DEF CopyOf, CopyKind
<1> QED
  BY <1>1, <1>2, NoCopies DEF CopyIsKnown, Model!Resolved

LEMMA QuantizeStep ==
    ASSUME WeightsInv, NEW m \in Modes, Model!Quantize(m) PROVE WeightsInv'
<1> SUFFICES ASSUME NEW l \in Linears
             PROVE  /\ mode'[l] = Model!Resolved(asked', l) /\ replaced'[l] \in Nat
                    /\ cached'[l] = [k \in {"affine", "fp4"} |-> cached'[l][k]]
                    /\ CopyIsKnown(l)'
  BY DEF WeightsInv, Model!Resolved
<1>1. /\ mode'[l] = Model!Resolved(m, l) /\ asked' = m /\ cached'[l] = Model!NoCache
      /\ replaced' = replaced /\ replaced[l] \in Nat
  BY DEF Model!Quantize, WeightsInv
<1>2. CopyOf(l)'.key = <<>>
  BY <1>1, NoCopies DEF CopyOf, CopyKind
<1> QED
  BY <1>1, <1>2, NoCopies DEF CopyIsKnown

\* What a forward multiplies by is current, unless the weight was replaced twice.
LEMMA PackedIsCurrent ==
    ASSUME WeightsInv, NEW l \in Linears, mode[l] # "none", replaced[l] <= 1
    PROVE  Current(l, Model!Packed(l, CopyKind(l)))
<1>1. CopyIsKnown(l) /\ replaced[l] \in Nat
  BY DEF WeightsInv
<1>2. Model!Key(l) # <<>>
  BY DEF Model!Key
<1> QED
  BY <1>1, <1>2 DEF CopyIsKnown, CopyOf, Current, Model!Packed

LEMMA ForwardStep ==
    ASSUME WeightsInv, Model!Forward PROVE WeightsInv'
<1> SUFFICES ASSUME NEW l \in Linears
             PROVE  /\ mode'[l] = Model!Resolved(asked', l) /\ replaced'[l] \in Nat
                    /\ cached'[l] = [k \in {"affine", "fp4"} |-> cached'[l][k]]
                    /\ CopyIsKnown(l)'
  BY DEF WeightsInv, Model!Resolved
<1> DEFINE c == CopyKind(l)
           p == Model!Packed(l, c)
<1>1. /\ cached'[l] = IF mode[l] = "none" THEN cached[l] ELSE [cached[l] EXCEPT ![c] = p]
      /\ used'[l] = IF mode[l] = "none" THEN weight[l].value ELSE p.value
      /\ replaced'[l] = IF used'[l] = weight[l].value THEN 0 ELSE replaced[l]
      /\ UNCHANGED <<weight, mode, asked>>
  BY DEF Model!Forward, CopyKind
<1>2. /\ mode[l] = Model!Resolved(asked, l) /\ replaced[l] \in Nat
      /\ cached[l] = [k \in {"affine", "fp4"} |-> cached[l][k]] /\ CopyIsKnown(l)
      /\ c \in {"affine", "fp4"}
  BY DEF WeightsInv, CopyKind
<1>3. CopyKind(l)' = c /\ Model!Key(l)' = Model!Key(l)
  BY <1>1 DEF CopyKind, Model!Key
<1>4. p.key = Model!Key(l)
  BY DEF Model!Packed
<1> HIDE DEF c, p
<1>5. CASE mode[l] = "none"
  BY <1>1, <1>2, <1>5 DEF CopyIsKnown
<1>6. CASE mode[l] # "none"
  <2>1. cached'[l] = [cached[l] EXCEPT ![c] = p] /\ used'[l] = p.value
    BY <1>1, <1>6
  <2>2. /\ cached'[l][c] = p
        /\ cached'[l] = [k \in {"affine", "fp4"} |-> cached'[l][k]]
    BY <1>2, <2>1
  <2>3. CopyOf(l)' = p
    BY <1>3, <2>2 DEF CopyOf
  <2>4. CASE replaced[l] <= 1
    <3>1. p.value = weight[l].value
      BY <1>6, <2>4, PackedIsCurrent DEF p, c, Current
    <3> QED
      BY <1>1, <1>2, <1>3, <1>4, <2>1, <2>2, <2>3, <3>1 DEF CopyIsKnown, Current
  <2>5. CASE replaced[l] > 1
    BY <1>1, <1>2, <1>3, <1>4, <2>1, <2>2, <2>3, <2>5 DEF CopyIsKnown, Current
  <2> QED
    BY <1>2, <2>4, <2>5
<1> QED
  BY <1>5, <1>6

LEMMA ReplaceStep ==
    ASSUME WeightsInv, NEW values, Model!Replace(values) PROVE WeightsInv'
<1>1. PICK ids \in [Linears -> Ids \ {weight[l].id : l \in Linears}] :
         weight' = [l \in Linears |-> [value |-> values[l], id |-> ids[l]]]
  BY DEF Model!Replace
<1>2. /\ UNCHANGED <<mode, cached, asked>>
      /\ \A l \in Linears : replaced'[l] = replaced[l] + 1
  BY DEF Model!Replace
<1> SUFFICES ASSUME NEW l \in Linears
             PROVE  /\ mode'[l] = Model!Resolved(asked', l) /\ replaced'[l] \in Nat
                    /\ cached'[l] = [k \in {"affine", "fp4"} |-> cached'[l][k]]
                    /\ CopyIsKnown(l)'
  BY DEF WeightsInv, Model!Resolved
<1>3. /\ mode[l] = Model!Resolved(asked, l) /\ replaced[l] \in Nat
      /\ cached[l] = [k \in {"affine", "fp4"} |-> cached[l][k]] /\ CopyIsKnown(l)
  BY DEF WeightsInv
<1>4. CopyOf(l)' = CopyOf(l)
  BY <1>2 DEF CopyOf, CopyKind
<1>5. weight'[l].id # weight[l].id
  BY <1>1
<1>6. Model!Key(l)' # Model!Key(l)
  BY <1>2, <1>5 DEF Model!Key
<1>7. CopyIsKnown(l)'
  <2>1. replaced'[l] = replaced[l] + 1
    BY <1>2
  <2>2. CASE mode[l] = "none" \/ CopyOf(l).key = <<>>
    BY <1>2, <1>4, <2>2 DEF CopyIsKnown
  <2>3. CASE replaced[l] = 0 /\ Current(l, CopyOf(l))
    BY <1>4, <1>6, <2>1, <2>3 DEF CopyIsKnown, Current
  <2>4. CASE replaced[l] >= 1
    BY <1>3, <2>1, <2>4 DEF CopyIsKnown
  <2> QED
    BY <1>3, <2>2, <2>3, <2>4 DEF CopyIsKnown
<1> QED
  BY <1>2, <1>3, <1>7

LEMMA WeightsStep ==
    ASSUME WeightsInv, [Model!Next]_(Model!vars) PROVE WeightsInv'
<1>1. ASSUME NEW m \in Modes, Model!Quantize(m) PROVE WeightsInv'
  BY <1>1, QuantizeStep
<1>2. CASE Model!Forward
  BY <1>2, ForwardStep
<1>3. CASE Model!Step
  BY <1>3, ReplaceStep DEF Model!Step
<1>4. CASE Model!Load
  BY <1>4, ReplaceStep DEF Model!Load
<1>5. CASE Model!QuantizeNone \/ UNCHANGED Model!vars
  <2>1. UNCHANGED <<weight, mode, cached, replaced, asked>>
    BY <1>5 DEF Model!QuantizeNone, Model!vars
  <2> QED
    BY <2>1 DEF WeightsInv, CopyIsKnown, CopyOf, CopyKind, Current, Model!Key, Model!Resolved
<1> QED
  BY <1>1, <1>2, <1>3, <1>4, <1>5 DEF Model!Next

\* For any linears, experts, modes, ids and number of updates: a forward multiplies by the
\* weight the linear holds, in the mode its placement resolves to, unless that weight was
\* replaced twice since a forward multiplied by it.  One update cannot deceive the cache,
\* since the arrays it makes are alive beside those they replace (layers.py, WhaleLinear).
THEOREM ForwardsAreCurrent == Model!Spec => ForwardIsCurrent
<1>1. Model!Init => WeightsInv
  BY WeightsStart
<1>2. WeightsInv /\ [Model!Next]_(Model!vars) => WeightsInv'
  BY WeightsStep
<1> DEFINE IsCurrent == Model!Forward =>
                          \A l \in Linears :
                             /\ mode[l] = Model!Resolved(asked, l)
                             /\ replaced[l] <= 1 => used'[l] = weight[l].value
<1>3. WeightsInv => IsCurrent
  <2> SUFFICES ASSUME WeightsInv, Model!Forward, NEW l \in Linears
               PROVE  /\ mode[l] = Model!Resolved(asked, l)
                      /\ replaced[l] <= 1 => used'[l] = weight[l].value
    OBVIOUS
  <2>1. used'[l] = IF mode[l] = "none" THEN weight[l].value
                   ELSE Model!Packed(l, CopyKind(l)).value
    BY DEF Model!Forward, CopyKind
  <2> QED
    BY <2>1, PackedIsCurrent DEF WeightsInv, Current
<1>4. WeightsInv => [IsCurrent]_(Model!vars)
  BY <1>3
<1> HIDE DEF IsCurrent
<1>5. Model!Spec => [][IsCurrent]_(Model!vars)
  BY <1>1, <1>2, <1>4, PTL DEF Model!Spec
<1> QED
  BY <1>5 DEF ForwardIsCurrent, Model!ForwardIsCurrent, IsCurrent

----------------------------------------------------------------------------
(***************************************************************************)
(* Attention.  The keys of a request are those of its text, whatever       *)
(* forwards computed them, and a query sees only keys and blocks in front  *)
(* of it: what comes later cannot change what it attends to.               *)
(***************************************************************************)

Spoken == Rows \X Nat

Keys == [token : Spoken \cup {"none"}, at : Int]

\* The keys of a text.
Keyed(t) == [i \in 1 .. Len(t) |-> AttentionLayers!Key(t[i], i - 1)]

LEMMA AttentionFacts ==
    ASSUME AttentionLayers!AttentionAssumption
    PROVE  /\ LayerKinds \subseteq {"sliding_mqa", "mla", "hca", "csa"}
           /\ Window \in Nat /\ Window > 0 /\ HcaBlock \in Nat /\ HcaBlock > 0
           /\ CsaBlock \in Nat /\ CsaBlock > 0 /\ CsaStride \in Nat /\ CsaStride > 0
           /\ AttentionContext \in Nat /\ AttentionContext > 0
BY DEF AttentionLayers!AttentionAssumption

LEMMA KeyedFacts ==
    ASSUME NEW t \in Seq(Spoken)
    PROVE  /\ Keyed(t) \in Seq(Keys) /\ Len(Keyed(t)) = Len(t) /\ Len(t) \in Nat
           /\ \A i \in 1 .. Len(t) : /\ Keyed(t)[i] = AttentionLayers!Key(t[i], i - 1)
                                     /\ Keyed(t)[i].at = i - 1
<1>1. ASSUME NEW i \in 1 .. Len(t)
      PROVE  /\ AttentionLayers!Key(t[i], i - 1) \in Keys
             /\ AttentionLayers!Key(t[i], i - 1).at = i - 1
  <2>1. t[i] \in Spoken /\ i - 1 \in Int
    OBVIOUS
  <2> QED
    BY <2>1 DEF AttentionLayers!Key, Keys
<1> QED
  BY <1>1 DEF Keyed

\* New keys go behind the old ones.
LEMMA AppendedKeyed ==
    ASSUME NEW t \in Seq(Spoken), NEW x \in Seq(Spoken)
    PROVE  AttentionLayers!Appended(Keyed(t), x, Len(t)) = Keyed(t \o x)
<1> DEFINE new == [i \in DOMAIN x |-> AttentionLayers!Key(x[i], Len(t) + i - 1)]
           k == Keyed(t)
           l == Keyed(t \o x)
<1>1. /\ k \in Seq(Keys) /\ Len(k) = Len(t) /\ Len(t) \in Nat /\ Len(x) \in Nat
      /\ \A i \in 1 .. Len(t) : k[i] = AttentionLayers!Key(t[i], i - 1)
  BY KeyedFacts
<1>2. /\ t \o x \in Seq(Spoken) /\ Len(t \o x) = Len(t) + Len(x)
      /\ \A i \in 1 .. Len(t) : (t \o x)[i] = t[i]
      /\ \A i \in 1 .. Len(x) : (t \o x)[Len(t) + i] = x[i]
  BY ConcatProperties
<1>3. /\ l \in Seq(Keys) /\ Len(l) = Len(t) + Len(x)
      /\ \A i \in 1 .. Len(t) + Len(x) : l[i] = AttentionLayers!Key((t \o x)[i], i - 1)
  BY <1>2, KeyedFacts
<1>4. /\ new \in Seq(Keys) /\ Len(new) = Len(x)
      /\ \A i \in 1 .. Len(x) : new[i] = AttentionLayers!Key(x[i], Len(t) + i - 1)
  <2>1. ASSUME NEW i \in 1 .. Len(x)
        PROVE  AttentionLayers!Key(x[i], Len(t) + i - 1) \in Keys
    <3>1. x[i] \in Spoken /\ Len(t) + i - 1 \in Int
      BY <1>1
    <3> QED
      BY <3>1 DEF AttentionLayers!Key, Keys
  <2>2. DOMAIN x = 1 .. Len(x)
    OBVIOUS
  <2>3. new = [i \in 1 .. Len(x) |-> AttentionLayers!Key(x[i], Len(t) + i - 1)]
    BY <2>2, Zenon
  <2> HIDE DEF new
  <2> QED
    BY <1>1, <2>1, <2>3
<1> HIDE DEF new, k, l
<1>5. /\ k \o new \in Seq(Keys) /\ Len(k \o new) = Len(t) + Len(x)
      /\ \A i \in 1 .. Len(t) : (k \o new)[i] = k[i]
      /\ \A i \in 1 .. Len(x) : (k \o new)[Len(t) + i] = new[i]
  <2>1. /\ k \o new \in Seq(Keys) /\ Len(k \o new) = Len(k) + Len(new)
        /\ \A i \in 1 .. Len(k) : (k \o new)[i] = k[i]
        /\ \A i \in 1 .. Len(new) : (k \o new)[Len(k) + i] = new[i]
    <3>1. k \in Seq(Keys) /\ new \in Seq(Keys)
      BY <1>1, <1>4
    <3> QED
      BY <3>1, ConcatProperties
  <2> QED
    BY <1>1, <1>4, <2>1
<1>6. ASSUME NEW i \in 1 .. Len(t) + Len(x) PROVE (k \o new)[i] = l[i]
  <2>1. CASE i \in 1 .. Len(t)
    BY <1>1, <1>2, <1>3, <1>5, <2>1
  <2>2. CASE i \notin 1 .. Len(t)
    <3>1. PICK j \in 1 .. Len(x) : i = Len(t) + j
      <4>1. i - Len(t) \in 1 .. Len(x) /\ i = Len(t) + (i - Len(t))
        BY <1>1, <2>2
      <4> QED
        BY <4>1
    <3> QED
      BY <1>2, <1>3, <1>4, <1>5, <3>1
  <2> QED
    BY <2>1, <2>2
<1>7. k \o new = l
  BY <1>3, <1>5, <1>6, SeqEqual
<1> QED
  BY <1>7 DEF AttentionLayers!Appended, k, new, l

LEMMA WholeKeyed ==
    ASSUME NEW t \in Seq(Spoken) PROVE AttentionLayers!Appended(<<>>, t, 0) = Keyed(t)
<1>1. <<>> \in Seq(Spoken) /\ Len(<<>>) = 0 /\ Keyed(<<>>) = <<>> /\ <<>> \o t = t
  BY DEF Keyed
<1>2. AttentionLayers!Appended(Keyed(<<>>), t, Len(<<>>)) = Keyed(<<>> \o t)
  BY <1>1, AppendedKeyed
<1> QED
  BY <1>1, <1>2

\* A row of keys that goes on where another ends.
Continues(k, l) ==
    k \in Seq(Keys) /\ l \in Seq(Keys) /\ Len(k) <= Len(l) /\ \A i \in 1 .. Len(k) : l[i] = k[i]

LEMMA SameBlock ==
    ASSUME NEW k, NEW l, Continues(k, l), NEW s \in Nat, NEW n \in Nat, s + n <= Len(k)
    PROVE  AttentionLayers!Block(l, s, n) = AttentionLayers!Block(k, s, n)
<1>1. k \in Seq(Keys) /\ l \in Seq(Keys) /\ Len(k) \in Nat /\ Len(l) \in Nat /\ Len(k) <= Len(l)
  BY DEF Continues
<1> DEFINE a == SubSeq(k, s + 1, s + n)
           b == SubSeq(l, s + 1, s + n)
<1>2. /\ a \in Seq(Keys) /\ Len(a) = n /\ \A i \in 1 .. n : a[i] = k[s + i]
      /\ b \in Seq(Keys) /\ Len(b) = n /\ \A i \in 1 .. n : b[i] = l[s + i]
  BY <1>1
<1> HIDE DEF a, b
<1>3. ASSUME NEW i \in 1 .. n PROVE a[i] = b[i]
  <2>1. s + i \in 1 .. Len(k)
    BY <1>1
  <2> QED
    BY <1>2, <2>1 DEF Continues
<1>4. a = b
  BY <1>2, <1>3, SeqEqual
<1> QED
  BY <1>4 DEF AttentionLayers!Block, a, b

LEMMA SameLocal ==
    ASSUME NEW k, NEW l, Continues(k, l), NEW q \in 0 .. Len(k) - 1,
           AttentionLayers!AttentionAssumption
    PROVE  /\ AttentionLayers!Local(l, q) = AttentionLayers!Local(k, q)
           /\ AttentionLayers!KeysAt(l, AttentionLayers!Local(l, q))
                = AttentionLayers!KeysAt(k, AttentionLayers!Local(k, q))
<1>1. k \in Seq(Keys) /\ l \in Seq(Keys) /\ Len(k) \in Nat /\ Len(l) \in Nat /\ Len(k) <= Len(l)
      /\ \A i \in 1 .. Len(k) : l[i] = k[i]
  BY DEF Continues
<1>2. AttentionLayers!Local(l, q) = AttentionLayers!Local(k, q)
  BY <1>1, AttentionFacts DEF AttentionLayers!Local, AttentionLayers!Positions
<1> DEFINE js == AttentionLayers!Local(k, q)
<1>3. \A j \in js : j + 1 \in 1 .. Len(k)
  BY <1>1 DEF AttentionLayers!Local, AttentionLayers!Positions
<1> HIDE DEF js
<1>4. \A j \in js : l[j + 1] = k[j + 1]
  BY <1>1, <1>3
<1>5. AttentionLayers!KeysAt(l, js) = AttentionLayers!KeysAt(k, js)
  BY <1>4 DEF AttentionLayers!KeysAt
<1> QED
  BY <1>2, <1>5 DEF js

\* Whole blocks of HcaBlock keys.
LEMMA WholeBlocks ==
    ASSUME NEW n \in Nat, NEW h \in Nat, h > 0, NEW b \in Nat
    PROVE  /\ b <= n \div h - 1 <=> b * h + h <= n
           /\ n \div h \in Nat /\ (n \div h) * h <= n /\ n < (n \div h) * h + h
<1> DEFINE d == n \div h
<1>1. d \in Nat /\ d * h <= n /\ n < d * h + h
  BY SMT
<1> HIDE DEF d
<1>2. CASE b <= d - 1
  <2>1. (b + 1) * h <= d * h
    BY <1>1, <1>2, SMT
  <2>2. (b + 1) * h = b * h + h
    BY SMT
  <2> QED
    BY <1>1, <1>2, <2>1, <2>2 DEF d
<1>3. CASE b >= d
  <2>1. d * h <= b * h
    BY <1>1, <1>3, SMT
  <2> QED
    BY <1>1, <1>3, <2>1 DEF d
<1> QED
  BY <1>1, <1>2, <1>3 DEF d

\* An HCA block that a query sees is one of HcaBlock keys in front of its window, and all
\* such blocks are there.
LEMMA HcaBlocks ==
    ASSUME AttentionLayers!AttentionAssumption, NEW k \in Seq(Keys), NEW q \in 0 .. Len(k) - 1
    PROVE  AttentionLayers!HcaAllowed(k, q)
             = {s \in Nat : /\ s + HcaBlock <= q - Window + 1
                            /\ \E b \in Nat : s = b * HcaBlock}
<1> DEFINE here == AttentionLayers!HcaAllowed(k, q)
           n == Len(k)
<1>0. n \in Nat /\ HcaBlock \in Nat /\ HcaBlock > 0 /\ Window \in Nat /\ Window > 0
  BY AttentionFacts
<1>1. ASSUME NEW s \in here
      PROVE  s \in Nat /\ s + HcaBlock <= q - Window + 1 /\ \E b \in Nat : s = b * HcaBlock
  <2>1. s + HcaBlock <= q - Window + 1 /\ \E b \in 0 .. n \div HcaBlock - 1 : s = b * HcaBlock
    BY DEF AttentionLayers!HcaAllowed, AttentionLayers!HcaStarts, AttentionLayers!Allowed
  <2>2. PICK b \in 0 .. n \div HcaBlock - 1 : s = b * HcaBlock
    BY <2>1
  <2>3. b \in Nat
    BY <1>0, <2>2, WholeBlocks
  <2>4. b * HcaBlock \in Nat
    BY <1>0, <2>3
  <2> QED
    BY <2>1, <2>2, <2>3, <2>4
<1>2. ASSUME NEW s \in Nat, NEW b \in Nat, s = b * HcaBlock, s + HcaBlock <= q - Window + 1
      PROVE  s \in here
  <2>1. b * HcaBlock + HcaBlock <= n
    BY <1>0, <1>2
  <2>2. b \in 0 .. n \div HcaBlock - 1
    BY <1>0, <2>1, WholeBlocks
  <2> QED
    BY <1>2, <2>2
    DEF AttentionLayers!HcaAllowed, AttentionLayers!HcaStarts, AttentionLayers!Allowed
<1> HIDE DEF here
<1>3. here = {s \in Nat : /\ s + HcaBlock <= q - Window + 1
                          /\ \E b \in Nat : s = b * HcaBlock}
  BY <1>1, <1>2
<1> QED
  BY <1>3 DEF here

HcaSeen(k, q) == {AttentionLayers!Block(k, s, HcaBlock) : s \in AttentionLayers!HcaAllowed(k, q)}

LEMMA SameHca ==
    ASSUME NEW k, NEW l, Continues(k, l), NEW q \in 0 .. Len(k) - 1,
           AttentionLayers!AttentionAssumption
    PROVE  HcaSeen(l, q) = HcaSeen(k, q)
<1> DEFINE here == AttentionLayers!HcaAllowed(k, q)
<1>0. /\ k \in Seq(Keys) /\ l \in Seq(Keys) /\ q \in 0 .. Len(l) - 1 /\ Len(k) \in Nat
      /\ HcaBlock \in Nat /\ Window \in Nat /\ Window > 0
  BY AttentionFacts DEF Continues
<1>1. AttentionLayers!HcaAllowed(l, q) = here
  BY <1>0, HcaBlocks
<1>2. \A s \in here : s \in Nat /\ s + HcaBlock <= Len(k)
  BY <1>0, HcaBlocks
<1> HIDE DEF here
<1>3. \A s \in here : AttentionLayers!Block(l, s, HcaBlock) = AttentionLayers!Block(k, s, HcaBlock)
  BY <1>0, <1>2, SameBlock
<1> QED
  BY <1>1, <1>3 DEF HcaSeen, here

\* The CSA blocks a query sees: the best of those in front of its window.
Chosen(k, q) ==
    {s \in AttentionLayers!TopBlocks(AttentionLayers!CsaStarts(k), q) :
        AttentionLayers!Allowed(s + CsaBlock, q)}

CsaSeen(k, q) == {AttentionLayers!Block(k, s, CsaBlock) : s \in Chosen(k, q)}

Better(k, s, q) == {t \in AttentionLayers!CsaStarts(k) : AttentionLayers!Beats(t, s, q)}

\* A block in front of the window is beaten only by blocks in front of the window.
LEMMA SameBetter ==
    ASSUME NEW k, NEW l, Continues(k, l), NEW q \in 0 .. Len(k) - 1,
           AttentionLayers!AttentionAssumption,
           NEW s \in Int, AttentionLayers!Allowed(s + CsaBlock, q)
    PROVE  /\ s \in AttentionLayers!CsaStarts(l) <=> s \in AttentionLayers!CsaStarts(k)
           /\ Better(l, s, q) = Better(k, s, q)
<1>0. /\ Len(k) \in Nat /\ Len(l) \in Nat /\ Len(k) <= Len(l)
      /\ CsaBlock \in Nat /\ Window \in Nat /\ Window > 0
  BY AttentionFacts DEF Continues
<1>1. ASSUME NEW t \in Int, AttentionLayers!Allowed(t + CsaBlock, q)
      PROVE  t \in AttentionLayers!CsaStarts(l) <=> t \in AttentionLayers!CsaStarts(k)
  <2>1. t <= Len(k) - CsaBlock /\ t <= Len(l) - CsaBlock
    BY <1>0, <1>1 DEF AttentionLayers!Allowed
  <2> QED
    BY <1>0, <2>1 DEF AttentionLayers!CsaStarts
<1>2. ASSUME NEW t, AttentionLayers!Beats(t, s, q)
      PROVE  AttentionLayers!Allowed(t + CsaBlock, q)
  BY <1>2 DEF AttentionLayers!Beats
<1>3. \A t \in AttentionLayers!CsaStarts(l) \cup AttentionLayers!CsaStarts(k) : t \in Int
  BY <1>0 DEF AttentionLayers!CsaStarts
<1>4. ASSUME NEW t PROVE t \in Better(l, s, q) <=> t \in Better(k, s, q)
  BY <1>1, <1>2, <1>3 DEF Better
<1> QED
  BY <1>1, <1>4

LEMMA SameCsa ==
    ASSUME NEW k, NEW l, Continues(k, l), NEW q \in 0 .. Len(k) - 1,
           AttentionLayers!AttentionAssumption
    PROVE  CsaSeen(l, q) = CsaSeen(k, q)
<1>0. /\ k \in Seq(Keys) /\ l \in Seq(Keys) /\ Len(k) \in Nat /\ Len(l) \in Nat
      /\ CsaBlock \in Nat /\ Window \in Nat /\ Window > 0 /\ q \in Nat
  BY AttentionFacts DEF Continues
<1>1. \A s \in Chosen(l, q) \cup Chosen(k, q) :
         s \in Nat /\ AttentionLayers!Allowed(s + CsaBlock, q)
  BY <1>0 DEF Chosen, AttentionLayers!TopBlocks, AttentionLayers!CsaStarts
<1>2. ASSUME NEW s \in Nat, AttentionLayers!Allowed(s + CsaBlock, q)
      PROVE  s \in Chosen(l, q) <=> s \in Chosen(k, q)
  <2>1. /\ s \in AttentionLayers!CsaStarts(l) <=> s \in AttentionLayers!CsaStarts(k)
        /\ Better(l, s, q) = Better(k, s, q)
    BY <1>2, SameBetter
  <2>2. s \in Chosen(k, q) <=> /\ s \in AttentionLayers!CsaStarts(k)
                               /\ AttentionLayers!Cardinality(Better(k, s, q)) < TopK
    BY <1>2, Zenon DEF Chosen, AttentionLayers!TopBlocks, Better
  <2>3. s \in Chosen(l, q) <=> /\ s \in AttentionLayers!CsaStarts(l)
                               /\ AttentionLayers!Cardinality(Better(l, s, q)) < TopK
    BY <1>2, Zenon DEF Chosen, AttentionLayers!TopBlocks, Better
  <2> QED
    BY <2>1, <2>2, <2>3
<1>3. Chosen(l, q) = Chosen(k, q)
  BY <1>1, <1>2
<1>4. \A s \in Chosen(k, q) : s \in Nat /\ s + CsaBlock <= Len(k)
  BY <1>0, <1>1 DEF AttentionLayers!Allowed
<1>5. \A s \in Chosen(k, q) :
         AttentionLayers!Block(l, s, CsaBlock) = AttentionLayers!Block(k, s, CsaBlock)
  BY <1>0, <1>4, SameBlock
<1> QED
  BY <1>3, <1>5 DEF CsaSeen

\* What a query attends to does not depend on what comes behind it.
LEMMA SameAttend ==
    ASSUME NEW k, NEW l, Continues(k, l), NEW q \in 0 .. Len(k) - 1,
           AttentionLayers!AttentionAssumption
    PROVE  AttentionLayers!Attend(l, q) = AttentionLayers!Attend(k, q)
<1>1. AttentionLayers!KeysAt(l, AttentionLayers!Local(l, q))
        = AttentionLayers!KeysAt(k, AttentionLayers!Local(k, q))
  BY SameLocal
<1>2. HcaSeen(l, q) = HcaSeen(k, q) /\ CsaSeen(l, q) = CsaSeen(k, q)
  BY SameHca, SameCsa
<1> QED
  BY <1>1, <1>2, Zenon DEF AttentionLayers!Attend, HcaSeen, CsaSeen, Chosen

----------------------------------------------------------------------------

\* What each token of a text attends to, in one forward over the whole text.
SeenOf(t) == [i \in 1 .. Len(t) |-> AttentionLayers!Attend(Keyed(t), i - 1)]

LEMMA KeyedContinues ==
    ASSUME NEW t \in Seq(Spoken), NEW x \in Seq(Spoken)
    PROVE  /\ t \o x \in Seq(Spoken) /\ Len(t \o x) = Len(t) + Len(x)
           /\ Continues(Keyed(t), Keyed(t \o x))
<1>1. /\ t \o x \in Seq(Spoken) /\ Len(t \o x) = Len(t) + Len(x)
      /\ Len(t) \in Nat /\ Len(x) \in Nat
      /\ \A i \in 1 .. Len(t) : (t \o x)[i] = t[i]
  BY ConcatProperties
<1> DEFINE k == Keyed(t)
           l == Keyed(t \o x)
<1>2. /\ k \in Seq(Keys) /\ Len(k) = Len(t)
      /\ \A i \in 1 .. Len(t) : k[i] = AttentionLayers!Key(t[i], i - 1)
  BY KeyedFacts
<1>3. /\ l \in Seq(Keys) /\ Len(l) = Len(t) + Len(x)
      /\ \A i \in 1 .. Len(t) + Len(x) : l[i] = AttentionLayers!Key((t \o x)[i], i - 1)
  BY <1>1, KeyedFacts
<1> HIDE DEF k, l
<1>4. Continues(k, l)
  <2>1. ASSUME NEW i \in 1 .. Len(k) PROVE l[i] = k[i]
    <3>1. i \in 1 .. Len(t) /\ i \in 1 .. Len(t) + Len(x)
      BY <1>1, <1>2
    <3> QED
      BY <1>1, <1>2, <1>3, <3>1
  <2> QED
    BY <1>1, <1>2, <1>3, <2>1 DEF Continues
<1> QED
  BY <1>1, <1>4 DEF k, l

\* The tokens that follow leave what the earlier ones attend to as it is.
LEMMA SeenGrows ==
    ASSUME AttentionLayers!AttentionAssumption, NEW t \in Seq(Spoken), NEW x \in Seq(Spoken)
    PROVE  SeenOf(t) \o [i \in 1 .. Len(x) |->
                           AttentionLayers!Attend(Keyed(t \o x), Len(t) + i - 1)]
             = SeenOf(t \o x)
<1> DEFINE at(j) == AttentionLayers!Attend(Keyed(t \o x), j)
           views == {at(j) : j \in Int}
           old == SeenOf(t)
           new == [i \in 1 .. Len(x) |-> at(Len(t) + i - 1)]
           all == SeenOf(t \o x)
<1>1. /\ t \o x \in Seq(Spoken) /\ Len(t \o x) = Len(t) + Len(x)
      /\ Continues(Keyed(t), Keyed(t \o x)) /\ Len(t) \in Nat /\ Len(x) \in Nat
      /\ Len(Keyed(t)) = Len(t)
  BY KeyedContinues, KeyedFacts
<1>2. ASSUME NEW j \in 0 .. Len(t) - 1 PROVE AttentionLayers!Attend(Keyed(t), j) = at(j)
  BY <1>1, SameAttend
<1>3. \A j \in Int : at(j) \in views
  OBVIOUS
<1>4. all = [i \in 1 .. Len(t) + Len(x) |-> at(i - 1)]
  BY <1>1 DEF SeenOf
<1>5. old = [i \in 1 .. Len(t) |-> at(i - 1)]
  <2>1. \A i \in 1 .. Len(t) : AttentionLayers!Attend(Keyed(t), i - 1) = at(i - 1)
    <3> TAKE i \in 1 .. Len(t)
    <3>1. i - 1 \in 0 .. Len(t) - 1
      BY <1>1
    <3> QED
      BY <1>2, <3>1
  <2> HIDE DEF at
  <2> QED
    BY <2>1 DEF SeenOf
<1> HIDE DEF at, views
<1>6. /\ all \in Seq(views) /\ Len(all) = Len(t) + Len(x)
      /\ \A i \in 1 .. Len(t) + Len(x) : all[i] = at(i - 1)
  <2>1. \A i \in 1 .. Len(t) + Len(x) : i - 1 \in Int
    BY <1>1
  <2> QED
    BY <1>1, <1>3, <1>4, <2>1
<1>7. /\ old \in Seq(views) /\ Len(old) = Len(t)
      /\ \A i \in 1 .. Len(t) : old[i] = at(i - 1)
  <2>1. \A i \in 1 .. Len(t) : i - 1 \in Int
    BY <1>1
  <2> QED
    BY <1>1, <1>3, <1>5, <2>1
<1>8. /\ new \in Seq(views) /\ Len(new) = Len(x)
      /\ \A i \in 1 .. Len(x) : new[i] = at(Len(t) + i - 1)
  <2>1. \A i \in 1 .. Len(x) : Len(t) + i - 1 \in Int
    BY <1>1
  <2> QED
    BY <1>1, <1>3, <2>1
<1> HIDE DEF old, new, all
<1>9. /\ old \o new \in Seq(views) /\ Len(old \o new) = Len(t) + Len(x)
      /\ \A i \in 1 .. Len(t) : (old \o new)[i] = old[i]
      /\ \A i \in 1 .. Len(x) : (old \o new)[Len(t) + i] = new[i]
  <2>1. /\ old \o new \in Seq(views) /\ Len(old \o new) = Len(old) + Len(new)
        /\ \A i \in 1 .. Len(old) : (old \o new)[i] = old[i]
        /\ \A i \in 1 .. Len(new) : (old \o new)[Len(old) + i] = new[i]
    <3>1. old \in Seq(views) /\ new \in Seq(views)
      BY <1>7, <1>8
    <3> QED
      BY <3>1, ConcatProperties
  <2> QED
    BY <1>7, <1>8, <2>1
<1>10. ASSUME NEW i \in 1 .. Len(t) + Len(x) PROVE (old \o new)[i] = all[i]
  <2>1. CASE i \in 1 .. Len(t)
    BY <1>1, <1>6, <1>7, <1>9, <2>1
  <2>2. CASE i \notin 1 .. Len(t)
    <3>1. PICK j \in 1 .. Len(x) : i = Len(t) + j
      <4>1. i - Len(t) \in 1 .. Len(x) /\ i = Len(t) + (i - Len(t))
        BY <1>1, <2>2
      <4> QED
        BY <4>1
    <3>2. all[i] = at(Len(t) + j - 1)
      BY <1>6, <3>1
    <3> QED
      BY <1>8, <1>9, <3>1, <3>2
  <2> QED
    BY <2>1, <2>2
<1>11. old \o new = all
  BY <1>6, <1>9, <1>10, SeqEqual
<1> QED
  BY <1>11 DEF old, new, all, at

\* One token more.
LEMMA SeenByOne ==
    ASSUME AttentionLayers!AttentionAssumption, NEW t \in Seq(Spoken), NEW x \in Seq(Spoken),
           Len(x) = 1
    PROVE  Append(SeenOf(t), AttentionLayers!Attend(Keyed(t \o x), Len(t))) = SeenOf(t \o x)
<1> DEFINE v == AttentionLayers!Attend(Keyed(t \o x), Len(t))
           old == SeenOf(t)
           n == Len(t)
<1>1. n \in Nat /\ Len(old) = n /\ old \in Seq({old[i] : i \in 1 .. n} \cup {v})
  <2>1. n \in Nat
    OBVIOUS
  <2>2. old = [i \in 1 .. n |-> old[i]]
    BY Zenon DEF SeenOf
  <2> HIDE DEF old, v, n
  <2> DEFINE T == {old[i] : i \in 1 .. n} \cup {v}
  <2>3. \A i \in 1 .. n : old[i] \in T
    OBVIOUS
  <2> HIDE DEF T
  <2>4. old \in [1 .. n -> T]
    BY <2>2, <2>3, Zenon
  <2>5. old \in Seq(T) /\ Len(old) = n
    BY <2>1, <2>4
  <2> QED
    BY <2>1, <2>5 DEF T
<1>2. [i \in 1 .. Len(x) |-> AttentionLayers!Attend(Keyed(t \o x), Len(t) + i - 1)] = <<v>>
  <2>1. \A i \in 1 .. 1 : Len(t) + i - 1 = Len(t)
    BY <1>1
  <2> QED
    BY <2>1
<1>3. old \o <<v>> = SeenOf(t \o x)
  BY <1>2, SeenGrows
<1> HIDE DEF old, v, n
<1>4. Append(old, v) = old \o <<v>>
  BY <1>1
<1> QED
  BY <1>3, <1>4 DEF old, v

AttentionInv ==
    /\ text \in [Rows -> Seq(Spoken)]
    /\ \A r \in Rows : Len(text[r]) <= AttentionContext
    /\ layerCache = [r \in Rows |-> Keyed(text[r])]
    /\ seen = [r \in Rows |-> SeenOf(text[r])]

\* The layer does not change, nor what it attends to.
LEMMA AttentionNext ==
    ASSUME UNCHANGED <<kind, order>>, text' \in [Rows -> Seq(Spoken)],
           \A r \in Rows : Len(text'[r]) <= AttentionContext,
           layerCache' = [r \in Rows |-> Keyed(text'[r])],
           seen' = [r \in Rows |-> SeenOf(text'[r])]
    PROVE  AttentionInv'
<1>1. ASSUME NEW k, NEW q PROVE AttentionLayers!TopBlocks(k, q)' = AttentionLayers!TopBlocks(k, q)
  BY DEF AttentionLayers!TopBlocks, AttentionLayers!Beats, AttentionLayers!Rank
<1>2. ASSUME NEW k, NEW q PROVE AttentionLayers!Attend(k, q)' = AttentionLayers!Attend(k, q)
  BY <1>1, Zenon DEF AttentionLayers!Attend
<1>3. ASSUME NEW t PROVE SeenOf(t)' = SeenOf(t)
  BY <1>2, Zenon DEF SeenOf
<1>4. [r \in Rows |-> SeenOf(text[r])]' = [r \in Rows |-> SeenOf(text'[r])]
  BY <1>3, Zenon
<1> QED
  BY <1>4 DEF AttentionInv

LEMMA AttentionStart ==
    ASSUME AttentionLayers!AttentionAssumption, AttentionLayers!Init PROVE AttentionInv
<1>1. /\ text = [r \in Rows |-> <<>>] /\ layerCache = [r \in Rows |-> <<>>]
      /\ seen = [r \in Rows |-> <<>>]
  BY DEF AttentionLayers!Init
<1>2. Keyed(<<>>) = <<>> /\ SeenOf(<<>>) = <<>> /\ Len(<<>>) = 0
  BY DEF Keyed, SeenOf
<1>3. text \in [Rows -> Seq(Spoken)] /\ \A r \in Rows : Len(text[r]) <= AttentionContext
  BY <1>1, <1>2, AttentionFacts
<1>4. layerCache = [r \in Rows |-> Keyed(text[r])] /\ seen = [r \in Rows |-> SeenOf(text[r])]
  BY <1>1, <1>2, Zenon
<1> QED
  BY <1>3, <1>4 DEF AttentionInv

LEMMA NewTokensFacts ==
    ASSUME AttentionInv, NEW r \in Rows, NEW n \in Nat
    PROVE  /\ AttentionLayers!NewTokens(r, n) \in Seq(Spoken)
           /\ Len(AttentionLayers!NewTokens(r, n)) = n
           /\ AttentionLayers!Length(r) = Len(text[r]) /\ Len(text[r]) \in Nat
           /\ text[r] \in Seq(Spoken) /\ layerCache[r] = Keyed(text[r]) /\ seen[r] = SeenOf(text[r])
<1>1. text[r] \in Seq(Spoken) /\ layerCache[r] = Keyed(text[r]) /\ seen[r] = SeenOf(text[r])
  BY DEF AttentionInv
<1>2. AttentionLayers!Length(r) = Len(text[r]) /\ Len(text[r]) \in Nat
  BY <1>1, KeyedFacts DEF AttentionLayers!Length
<1>3. \A i \in 1 .. n : <<r, Len(text[r]) + i - 1>> \in Spoken
  BY <1>2 DEF Spoken
<1>4. /\ AttentionLayers!NewTokens(r, n) \in Seq(Spoken)
      /\ Len(AttentionLayers!NewTokens(r, n)) = n
  <2> DEFINE x == [i \in 1 .. n |-> <<r, Len(text[r]) + i - 1>>]
  <2>1. x \in [1 .. n -> Spoken]
    BY <1>3
  <2>2. x \in Seq(Spoken) /\ Len(x) = n
    <3> HIDE DEF x
    <3> QED
      BY <2>1
  <2> QED
    BY <2>2 DEF AttentionLayers!NewTokens
<1> QED
  BY <1>1, <1>2, <1>4

LEMMA ChunkStep ==
    ASSUME AttentionInv, AttentionLayers!AttentionAssumption, NEW r \in Rows,
           NEW n \in 1 .. AttentionContext, AttentionLayers!ForwardChunk(r, n)
    PROVE  AttentionInv'
<1> DEFINE x == AttentionLayers!NewTokens(r, n)
           t == text[r]
<1>1. /\ x \in Seq(Spoken) /\ Len(x) = n /\ AttentionLayers!Length(r) = Len(t)
      /\ t \in Seq(Spoken) /\ layerCache[r] = Keyed(t) /\ seen[r] = SeenOf(t) /\ Len(t) \in Nat
  BY NewTokensFacts
<1>0. UNCHANGED <<kind, order>>
  BY DEF AttentionLayers!ForwardChunk
<1>2. AttentionLayers!Appended(layerCache[r], x, AttentionLayers!Length(r)) = Keyed(t \o x)
  BY <1>1, AppendedKeyed
<1>3. /\ Len(t) + n <= AttentionContext
      /\ text' = [text EXCEPT ![r] = t \o x]
      /\ layerCache' = [layerCache EXCEPT ![r] = Keyed(t \o x)]
      /\ seen' = [seen EXCEPT ![r] =
                    SeenOf(t) \o [i \in 1 .. n |->
                                    AttentionLayers!Attend(Keyed(t \o x), Len(t) + i - 1)]]
  BY <1>1, <1>2 DEF AttentionLayers!ForwardChunk
<1>4. seen' = [seen EXCEPT ![r] = SeenOf(t \o x)]
  BY <1>1, <1>3, SeenGrows
<1>5. t \o x \in Seq(Spoken) /\ Len(t \o x) = Len(t) + n
  BY <1>1, KeyedContinues
<1> HIDE DEF x, t
<1>6. text' \in [Rows -> Seq(Spoken)] /\ \A s \in Rows : Len(text'[s]) <= AttentionContext
  BY <1>3, <1>5 DEF AttentionInv
<1>7. layerCache' = [s \in Rows |-> Keyed(text'[s])]
  BY <1>3, Zenon DEF AttentionInv
<1>8. seen' = [s \in Rows |-> SeenOf(text'[s])]
  BY <1>3, <1>4, Zenon DEF AttentionInv
<1> QED
  BY <1>0, <1>6, <1>7, <1>8, AttentionNext

LEMMA ForkedStep ==
    ASSUME AttentionInv, NEW r \in Rows, NEW s \in Rows, AttentionLayers!Fork(r, s)
    PROVE  AttentionInv'
<1>1. /\ UNCHANGED <<kind, order>>
      /\ text' = [text EXCEPT ![s] = text[r]]
      /\ layerCache' = [layerCache EXCEPT ![s] = layerCache[r]]
      /\ seen' = [seen EXCEPT ![s] = seen[r]]
  BY DEF AttentionLayers!Fork
<1>2. text' \in [Rows -> Seq(Spoken)] /\ \A o \in Rows : Len(text'[o]) <= AttentionContext
  BY <1>1 DEF AttentionInv
<1>3. layerCache[r] = Keyed(text[r]) /\ seen[r] = SeenOf(text[r])
  BY DEF AttentionInv
<1>4. layerCache' = [o \in Rows |-> Keyed(text'[o])]
  BY <1>1, <1>3, Zenon DEF AttentionInv
<1>5. seen' = [o \in Rows |-> SeenOf(text'[o])]
  BY <1>1, <1>3, Zenon DEF AttentionInv
<1> QED
  BY <1>1, <1>2, <1>4, <1>5, AttentionNext

\* A step of a cohort, if it gives every request of it the keys and the view it has alone.
LEMMA CohortInv ==
    ASSUME AttentionInv, AttentionLayers!AttentionAssumption, NEW cohort \in SUBSET Rows,
           NEW keys, NEW mask, NEW length, AttentionLayers!CohortStep(cohort, keys, mask, length),
           \A r \in cohort :
              LET grown == text[r] \o AttentionLayers!NewTokens(r, 1)
              IN  /\ Len(text[r]) < AttentionContext
                  /\ SubSeq(keys[r], Len(keys[r]) - length[r] + 1, Len(keys[r])) = Keyed(grown)
                  /\ mask[r] = AttentionLayers!Attend(Keyed(grown), Len(text[r]))
    PROVE  AttentionInv'
<1> DEFINE grown(r) == text[r] \o AttentionLayers!NewTokens(r, 1)
<1>1. ASSUME NEW r \in cohort
      PROVE  /\ grown(r) \in Seq(Spoken) /\ Len(grown(r)) <= AttentionContext
             /\ Append(seen[r], mask[r]) = SeenOf(grown(r))
  <2>1. /\ AttentionLayers!NewTokens(r, 1) \in Seq(Spoken)
        /\ Len(AttentionLayers!NewTokens(r, 1)) = 1
        /\ text[r] \in Seq(Spoken) /\ seen[r] = SeenOf(text[r]) /\ Len(text[r]) \in Nat
    BY NewTokensFacts
  <2>2. grown(r) \in Seq(Spoken) /\ Len(grown(r)) = Len(text[r]) + 1
    BY <2>1, KeyedContinues
  <2>3. Len(text[r]) < AttentionContext
    OBVIOUS
  <2>4. Append(seen[r], mask[r]) = SeenOf(grown(r))
    BY <2>1, SeenByOne
  <2> QED
    BY <2>1, <2>2, <2>3, <2>4, AttentionFacts
<1>2. \A r \in cohort :
         SubSeq(keys[r], Len(keys[r]) - length[r] + 1, Len(keys[r])) = Keyed(grown(r))
  OBVIOUS
<1>3. text' = [r \in Rows |-> IF r \in cohort THEN grown(r) ELSE text[r]]
  BY DEF AttentionLayers!CohortStep
<1>4. layerCache' = [r \in Rows |-> IF r \in cohort THEN Keyed(grown(r)) ELSE layerCache[r]]
  BY <1>2, Zenon DEF AttentionLayers!CohortStep
<1>5. seen' = [r \in Rows |-> IF r \in cohort THEN SeenOf(grown(r)) ELSE seen[r]]
  BY <1>1, Zenon DEF AttentionLayers!CohortStep
<1> HIDE DEF grown
<1>6. text' \in [Rows -> Seq(Spoken)] /\ \A r \in Rows : Len(text'[r]) <= AttentionContext
  BY <1>1, <1>3 DEF AttentionInv
<1>7. \A r \in Rows : layerCache[r] = Keyed(text[r]) /\ seen[r] = SeenOf(text[r])
  BY DEF AttentionInv
<1>8. \A r \in Rows : text'[r] = IF r \in cohort THEN grown(r) ELSE text[r]
  BY <1>3
<1>9. layerCache' = [r \in Rows |-> Keyed(text'[r])]
  BY <1>4, <1>7, <1>8, Zenon
<1>10. seen' = [r \in Rows |-> SeenOf(text'[r])]
  BY <1>5, <1>7, <1>8, Zenon
<1>11. UNCHANGED <<kind, order>>
  BY DEF AttentionLayers!CohortStep
<1> QED
  BY <1>6, <1>9, <1>10, <1>11, AttentionNext

LEMMA GroupStep ==
    ASSUME AttentionInv, AttentionLayers!AttentionAssumption,
           NEW cohort \in SUBSET Rows, AttentionLayers!DecodeGroup(cohort)
    PROVE  AttentionInv'
<1> DEFINE past == AttentionLayers!Length(CHOOSE r \in cohort : TRUE)
           keys == [r \in cohort |->
                      AttentionLayers!Appended(layerCache[r],
                                               AttentionLayers!NewTokens(r, 1), past)]
           mask == [r \in cohort |-> AttentionLayers!Attend(keys[r], past)]
           length == [r \in cohort |-> past + 1]
<1>1. /\ \A r \in cohort : AttentionLayers!Length(r) = past
      /\ past < AttentionContext
      /\ AttentionLayers!CohortStep(cohort, keys, mask, length)
  BY Zenon DEF AttentionLayers!DecodeGroup
<1> HIDE DEF past
<1>2. ASSUME NEW r \in cohort
      PROVE  LET grown == text[r] \o AttentionLayers!NewTokens(r, 1)
             IN  /\ Len(text[r]) < AttentionContext
                 /\ SubSeq(keys[r], Len(keys[r]) - length[r] + 1, Len(keys[r])) = Keyed(grown)
                 /\ mask[r] = AttentionLayers!Attend(Keyed(grown), Len(text[r]))
  <2> DEFINE x == AttentionLayers!NewTokens(r, 1)
             grown == text[r] \o x
             k == Keyed(grown)
  <2>1. /\ x \in Seq(Spoken) /\ Len(x) = 1 /\ Len(text[r]) = past /\ past \in Nat
        /\ text[r] \in Seq(Spoken) /\ layerCache[r] = Keyed(text[r])
    BY <1>1, NewTokensFacts, ZenonT(60)
  <2>2. keys[r] = k /\ mask[r] = AttentionLayers!Attend(k, past) /\ length[r] = past + 1
    BY <2>1, AppendedKeyed
  <2>3. k \in Seq(Keys) /\ Len(k) = past + 1
    BY <2>1, KeyedContinues, KeyedFacts
  <2> HIDE DEF k, x
  <2>4. SubSeq(k, Len(k) - (past + 1) + 1, Len(k)) = k
    <3>1. Len(k) - (past + 1) + 1 = 1
      BY <2>1, <2>3
    <3>2. SubSeq(k, 1, Len(k)) = k
      BY <2>3
    <3> QED
      BY <3>1, <3>2
  <2> HIDE DEF keys, mask, length
  <2> QED
    BY <1>1, <2>1, <2>2, <2>4 DEF k, x
<1> HIDE DEF keys, mask, length
<1> QED
  BY <1>1, <1>2, CohortInv

\* A bounded set of numbers that is not empty has a greatest element.
LEMMA Greatest ==
    ASSUME NEW n \in Nat, NEW S \in SUBSET (1 .. n), S # {}
    PROVE  \E i \in S : \A j \in S : j <= i
<1> DEFINE T == {n - i : i \in S}
<1>1. T \subseteq Nat /\ T # {}
  <2>1. ASSUME NEW i \in S PROVE n - i \in Nat
    OBVIOUS
  <2> QED
    BY <2>1
<1> HIDE DEF T
<1>2. PICK x \in T : \A y \in T : ~(<<y, x>> \in OpToRel(<, Nat))
  BY <1>1, NatLessThanWellFounded, WFMin
<1>3. \A y \in T : ~(y < x)
  BY <1>1, <1>2 DEF OpToRel
<1>4. PICK i \in S : x = n - i
  BY DEF T
<1>5. ASSUME NEW j \in S PROVE j <= i
  <2>1. n - j \in T
    BY DEF T
  <2> QED
    BY <1>3, <1>4, <2>1
<1> QED
  BY <1>5


\* The width of a padded cohort is the length of its longest request.
LEMMA WidthFacts ==
    ASSUME AttentionInv, NEW cohort \in SUBSET Rows, NEW r \in cohort,
           AttentionContext \in Nat,
           \A s \in cohort : AttentionLayers!Length(s) > 0
    PROVE  LET width == CHOOSE n \in {AttentionLayers!Length(s) : s \in cohort} :
                           \A s \in cohort : AttentionLayers!Length(s) <= n
           IN  width \in Nat /\ AttentionLayers!Length(r) <= width
<1> DEFINE S == {AttentionLayers!Length(s) : s \in cohort}
<1>1. ASSUME NEW s \in cohort PROVE AttentionLayers!Length(s) \in 1 .. AttentionContext
  <2>1. AttentionLayers!Length(s) = Len(text[s]) /\ Len(text[s]) \in Nat
    BY NewTokensFacts
  <2>2. Len(text[s]) <= AttentionContext
    BY DEF AttentionInv
  <2> QED
    BY <2>1, <2>2
<1>2. S \in SUBSET (1 .. AttentionContext) /\ S # {}
  BY <1>1
<1>3. PICK n \in S : \A m \in S : m <= n
  <2> HIDE DEF S
  <2> QED
    BY <1>2, Greatest
<1>4. \A s \in cohort : AttentionLayers!Length(s) <= n
  BY <1>3
<1>5. \A m \in S : m \in Nat
  BY <1>2
<1> DEFINE width == CHOOSE m \in S : \A s \in cohort : AttentionLayers!Length(s) <= m
<1>6. width \in S /\ \A s \in cohort : AttentionLayers!Length(s) <= width
  <2> HIDE DEF S
  <2> QED
    BY <1>4, Zenon
<1>7. width \in Nat /\ AttentionLayers!Length(r) <= width
  <2> HIDE DEF width
  <2> QED
    BY <1>5, <1>6
<1> QED
  BY <1>7, Zenon

LEMMA PaddedSuffix ==
    ASSUME NEW p \in Nat, NEW g \in Seq(Keys), NEW n \in Nat, Len(g) = n + 1
    PROVE  LET k == [i \in 1 .. p |-> AttentionLayers!Pad] \o g
           IN  /\ k \in Seq(Keys) /\ Len(k) = p + n + 1
               /\ \A i \in 1 .. n + 1 : k[p + i] = g[i]
               /\ SubSeq(k, p + 1, p + n + 1) = g
<1> DEFINE pads == [i \in 1 .. p |-> AttentionLayers!Pad]
           k == pads \o g
<1>1. pads \in Seq(Keys) /\ Len(pads) = p
  <2>1. AttentionLayers!Pad \in Keys
    BY DEF AttentionLayers!Pad, Keys
  <2> QED
    BY <2>1
<1> HIDE DEF pads
<1>2. /\ k \in Seq(Keys) /\ Len(k) = p + n + 1
      /\ \A i \in 1 .. n + 1 : k[p + i] = g[i]
  <2>1. /\ pads \o g \in Seq(Keys) /\ Len(pads \o g) = Len(pads) + Len(g)
        /\ \A i \in 1 .. Len(pads) : (pads \o g)[i] = pads[i]
        /\ \A i \in 1 .. Len(g) : (pads \o g)[Len(pads) + i] = g[i]
    <3>1. pads \in Seq(Keys) /\ g \in Seq(Keys) /\ Len(pads) \in Nat /\ Len(g) \in Nat
      BY <1>1
    <3>2. /\ pads \o g \in Seq(Keys) /\ Len(pads \o g) = Len(pads) + Len(g)
          /\ \A i \in 1 .. Len(pads) + Len(g) :
                (pads \o g)[i] = IF i <= Len(pads) THEN pads[i] ELSE g[i - Len(pads)]
      BY <3>1, ConcatProperties, Zenon
    <3> QED
      BY <3>1, <3>2
  <2> QED
    BY <1>1, <2>1
<1> HIDE DEF k
<1> DEFINE s == SubSeq(k, p + 1, p + n + 1)
<1>3. s \in Seq(Keys) /\ Len(s) = n + 1 /\ \A i \in 1 .. n + 1 : s[i] = k[p + i]
  BY <1>2
<1> HIDE DEF s
<1>4. s = g
  BY <1>2, <1>3, SeqEqual
<1> QED
  BY <1>2, <1>4 DEF s, k, pads

LEMMA RaggedFrom ==
    ASSUME NEW r, NEW columns \in Int, AttentionLayers!Length(r) \in Int, Window \in Int
    PROVE  AttentionLayers!RaggedStart(r, columns)
             = columns - IF AttentionLayers!Length(r) + 1 < Window
                         THEN AttentionLayers!Length(r) + 1 ELSE Window
BY DEF AttentionLayers!RaggedStart

LEMMA RaggedStep ==
    ASSUME AttentionInv, AttentionLayers!AttentionAssumption,
           NEW cohort \in SUBSET Rows, AttentionLayers!DecodeRagged(cohort)
    PROVE  AttentionInv'
<1> DEFINE width == CHOOSE n \in {AttentionLayers!Length(r) : r \in cohort} :
                       \A r \in cohort : AttentionLayers!Length(r) <= n
           keys == [r \in cohort |->
                      AttentionLayers!Appended(AttentionLayers!LeftPadded(r, width),
                                               AttentionLayers!NewTokens(r, 1),
                                               AttentionLayers!Length(r))]
           mask == [r \in cohort |->
                      [raw |-> AttentionLayers!KeysAt(keys[r],
                                  AttentionLayers!RaggedStart(r, width + 1) .. width),
                       pooled |-> {}]]
           length == [r \in cohort |-> AttentionLayers!Length(r) + 1]
<1>1. /\ kind = "sliding_mqa" /\ width < AttentionContext
      /\ \A r \in cohort : AttentionLayers!Length(r) > 0
      /\ AttentionLayers!CohortStep(cohort, keys, mask, length)
  BY Zenon DEF AttentionLayers!DecodeRagged
<1>2. \A r \in cohort : width \in Nat /\ AttentionLayers!Length(r) <= width
  BY <1>1, AttentionFacts, WidthFacts
<1> HIDE DEF width
<1>3. ASSUME NEW r \in cohort
      PROVE  LET grown == text[r] \o AttentionLayers!NewTokens(r, 1)
             IN  /\ Len(text[r]) < AttentionContext
                 /\ SubSeq(keys[r], Len(keys[r]) - length[r] + 1, Len(keys[r])) = Keyed(grown)
                 /\ mask[r] = AttentionLayers!Attend(Keyed(grown), Len(text[r]))
  <2> DEFINE x == AttentionLayers!NewTokens(r, 1)
             g == Keyed(text[r] \o x)
             n == Len(text[r])
             p == width - n
             k == [i \in 1 .. p |-> AttentionLayers!Pad] \o g
  <2>1. /\ x \in Seq(Spoken) /\ Len(x) = 1 /\ AttentionLayers!Length(r) = n /\ n \in Nat
        /\ text[r] \in Seq(Spoken) /\ layerCache[r] = Keyed(text[r])
    BY NewTokensFacts
  <2>2. width \in Nat /\ p \in Nat /\ n < AttentionContext /\ width = p + n
    <3>1. width \in Nat /\ n <= width /\ width < AttentionContext
      BY <1>1, <1>2, <2>1
    <3> HIDE DEF n
    <3> QED
      BY <2>1, <3>1, AttentionFacts
  <2>3. g \in Seq(Keys) /\ Len(g) = n + 1
    <3>1. text[r] \o x \in Seq(Spoken) /\ Len(text[r] \o x) = n + 1
      BY <2>1, KeyedContinues
    <3> HIDE DEF x, n
    <3> QED
      BY <3>1, KeyedFacts
  <2>4. keys[r] = k
    <3> DEFINE pads == [i \in 1 .. p |-> AttentionLayers!Pad]
               old == Keyed(text[r])
               new == [i \in DOMAIN x |-> AttentionLayers!Key(x[i], n + i - 1)]
    <3>1. old \o new = g
      BY <2>1, AppendedKeyed DEF AttentionLayers!Appended
    <3>2. keys[r] = (pads \o old) \o new
      BY <2>1 DEF AttentionLayers!Appended, AttentionLayers!LeftPadded
    <3>3. pads \in Seq(Keys) /\ old \in Seq(Keys) /\ new \in Seq(Keys)
      <4>1. AttentionLayers!Pad \in Keys
        BY DEF AttentionLayers!Pad, Keys
      <4>2. DOMAIN x = 1 .. 1 /\ x[1] \in Spoken
        BY <2>1
      <4>3. \A i \in 1 .. 1 : AttentionLayers!Key(x[i], n + i - 1) \in Keys
        BY <2>1, <4>2 DEF AttentionLayers!Key, Keys
      <4>4. new = [i \in 1 .. 1 |-> AttentionLayers!Key(x[i], n + i - 1)]
        BY <4>2, Zenon
      <4>5. new \in Seq(Keys)
        <5> HIDE DEF new
        <5> QED
          BY <4>3, <4>4
      <4>6. pads \in Seq(Keys)
        BY <2>2, <4>1
      <4> QED
        BY <2>1, <4>5, <4>6, KeyedFacts
    <3> HIDE DEF pads, old, new, keys
    <3>4. (pads \o old) \o new = pads \o (old \o new)
      BY <3>3, ConcatAssociative
    <3> QED
      BY <3>1, <3>2, <3>4 DEF pads
  <2>5. /\ k \in Seq(Keys) /\ Len(k) = p + n + 1
        /\ \A i \in 1 .. n + 1 : k[p + i] = g[i]
        /\ SubSeq(k, p + 1, p + n + 1) = g
    <3> HIDE DEF g, n, p
    <3> QED
      BY <2>1, <2>2, <2>3, PaddedSuffix, ZenonT(60)
  <2> DEFINE from == AttentionLayers!RaggedStart(r, width + 1)
  <2>6. /\ length[r] = n + 1
        /\ mask[r] = [raw |-> AttentionLayers!KeysAt(k, from .. width), pooled |-> {}]
    BY <2>1, <2>4
  <2> HIDE DEF k, g, x, p, keys, mask, length
  <2>7. /\ from \in Int /\ from >= p
        /\ \A j \in Int : j + p >= from <=> j >= 0 /\ j >= n - Window + 1
    <3>0. AttentionLayers!Length(r) = n
      BY <2>1
    <3>1. AttentionLayers!RaggedStart(r, width + 1)
            = (width + 1) - IF AttentionLayers!Length(r) + 1 < Window
                          THEN AttentionLayers!Length(r) + 1 ELSE Window
      <4>1. width + 1 \in Int /\ AttentionLayers!Length(r) \in Int /\ Window \in Int
        BY <2>2, <3>0, AttentionFacts, NewTokensFacts
      <4> QED
        BY <4>1, RaggedFrom
    <3> HIDE DEF n
    <3>4. from = (width + 1) - IF n + 1 < Window THEN n + 1 ELSE Window
      BY <3>0, <3>1, Zenon
    <3> HIDE DEF from
    <3>2. CASE n + 1 < Window
      <4>1. from = p
        BY <2>1, <2>2, <3>4, <3>2
      <4> QED
        BY <2>1, <2>2, <3>2, <4>1, AttentionFacts
    <3>3. CASE n + 1 >= Window
      <4>1. from = p + n + 1 - Window
        BY <2>1, <2>2, <3>4, <3>3, AttentionFacts
      <4> QED
        BY <2>1, <2>2, <3>3, <4>1, AttentionFacts, SMTT(30)
    <3> QED
      BY <2>1, <3>2, <3>3, AttentionFacts
  <2>8. AttentionLayers!Local(g, n) = {j \in 0 .. n : j + p >= from}
    <3>1. AttentionLayers!Positions(g) = 0 .. n
      BY <2>1, <2>3 DEF AttentionLayers!Positions
    <3> HIDE DEF from, n
    <3> QED
      BY <2>1, <2>7, <3>1, AttentionFacts DEF AttentionLayers!Local
  <2> HIDE DEF from, n
  <2>9. AttentionLayers!KeysAt(k, from .. width)
          = AttentionLayers!KeysAt(g, AttentionLayers!Local(g, n))
    <3>1. ASSUME NEW j \in from .. width
          PROVE  \E i \in AttentionLayers!Local(g, n) : k[j + 1] = g[i + 1]
      <4>1. PICK i \in Int : i = j - p
        BY <2>2, <2>7
      <4>2. i \in 0 .. n /\ i + p >= from /\ i + 1 \in 1 .. n + 1 /\ p + (i + 1) = j + 1
        BY <2>1, <2>2, <2>7, <4>1
      <4>3. k[p + (i + 1)] = g[i + 1]
        BY <2>5, <4>2
      <4> QED
        BY <2>8, <4>2, <4>3
    <3>2. ASSUME NEW i \in AttentionLayers!Local(g, n)
          PROVE  \E j \in from .. width : k[j + 1] = g[i + 1]
      <4>0. i \in 0 .. n /\ i + p >= from
        BY <2>8
      <4>1. i \in 0 .. n /\ i + p \in from .. width /\ i + 1 \in 1 .. n + 1
        BY <2>1, <2>2, <2>7, <4>0
      <4>2. k[p + (i + 1)] = g[i + 1] /\ p + (i + 1) = (i + p) + 1
        BY <2>2, <2>5, <4>1
      <4> QED
        BY <4>1, <4>2
    <3> QED
      BY <3>1, <3>2 DEF AttentionLayers!KeysAt
  <2>10. AttentionLayers!Attend(g, n)
           = [raw |-> AttentionLayers!KeysAt(g, AttentionLayers!Local(g, n)), pooled |-> {}]
    BY <1>1 DEF AttentionLayers!Attend
  <2>11. SubSeq(k, Len(k) - (n + 1) + 1, Len(k)) = g
    <3>1. Len(k) - (n + 1) + 1 = p + 1
      BY <2>1, <2>2, <2>5
    <3> QED
      BY <2>5, <3>1
  <2>12. mask[r] = AttentionLayers!Attend(g, n)
    BY <2>6, <2>9, <2>10
  <2>13. SubSeq(keys[r], Len(keys[r]) - length[r] + 1, Len(keys[r])) = g
    BY <2>4, <2>6, <2>11
  <2> QED
    BY <2>2, <2>12, <2>13 DEF g, x, n
<1> HIDE DEF keys, mask, length
<1> QED
  BY <1>1, <1>3, CohortInv

LEMMA AttentionStep ==
    ASSUME AttentionInv, AttentionLayers!AttentionAssumption,
           [AttentionLayers!Next]_(AttentionLayers!vars)
    PROVE  AttentionInv'
<1>1. ASSUME NEW r \in Rows, NEW n \in 1 .. AttentionContext,
             AttentionLayers!ForwardChunk(r, n)
      PROVE  AttentionInv'
  BY <1>1, ChunkStep
<1>2. ASSUME NEW r \in Rows, NEW s \in Rows, AttentionLayers!Fork(r, s) PROVE AttentionInv'
  BY <1>2, ForkedStep
<1>3. ASSUME NEW cohort \in AttentionLayers!Cohorts, AttentionLayers!DecodeGroup(cohort)
      PROVE  AttentionInv'
  BY <1>3, GroupStep DEF AttentionLayers!Cohorts
<1>4. ASSUME NEW cohort \in AttentionLayers!Cohorts, AttentionLayers!DecodeRagged(cohort)
      PROVE  AttentionInv'
  BY <1>4, RaggedStep DEF AttentionLayers!Cohorts
<1>5. CASE UNCHANGED AttentionLayers!vars
  <2>1. UNCHANGED <<kind, order, text, layerCache, seen>>
    BY <1>5 DEF AttentionLayers!vars
  <2> QED
    BY <2>1, AttentionNext DEF AttentionInv
<1> QED
  BY <1>1, <1>2, <1>3, <1>4, <1>5 DEF AttentionLayers!Next

----------------------------------------------------------------------------
(* Far and near: the keys of a text stand at the positions of its tokens.  *)

\* The keys at the positions js.
LEMMA KeysAtFacts ==
    ASSUME NEW t \in Seq(Spoken), NEW js \in SUBSET (0 .. Len(t) - 1)
    PROVE  /\ \A x \in AttentionLayers!KeysAt(Keyed(t), js) :
                 x.at \in js /\ x = Keyed(t)[x.at + 1]
           /\ \A j \in js : /\ Keyed(t)[j + 1] \in AttentionLayers!KeysAt(Keyed(t), js)
                            /\ Keyed(t)[j + 1].at = j
<1>1. ASSUME NEW j \in js PROVE Keyed(t)[j + 1].at = j
  <2>1. j + 1 \in 1 .. Len(t) /\ (j + 1) - 1 = j
    <3>1. j \in 0 .. Len(t) - 1 /\ Len(t) \in Nat
      OBVIOUS
    <3> QED
      BY <3>1
  <2> QED
    BY <2>1, KeyedFacts
<1> DEFINE k == Keyed(t)
<1>2. \A j \in js : k[j + 1].at = j
  BY <1>1
<1> HIDE DEF k
<1>3. /\ \A x \in AttentionLayers!KeysAt(k, js) : x.at \in js /\ x = k[x.at + 1]
      /\ \A j \in js : k[j + 1] \in AttentionLayers!KeysAt(k, js)
  BY <1>2 DEF AttentionLayers!KeysAt
<1> QED
  BY <1>2, <1>3 DEF k

\* The keys of a block.
LEMMA BlockKeys ==
    ASSUME NEW t \in Seq(Spoken), NEW s \in Nat, NEW n \in Nat, s + n <= Len(t)
    PROVE  AttentionLayers!Range(AttentionLayers!Block(Keyed(t), s, n))
             = AttentionLayers!KeysAt(Keyed(t), s .. s + n - 1)
<1> DEFINE k == Keyed(t)
           b == SubSeq(k, s + 1, s + n)
<1>1. k \in Seq(Keys) /\ Len(k) = Len(t) /\ Len(t) \in Nat
  BY KeyedFacts
<1> HIDE DEF k
<1>2. b \in Seq(Keys) /\ Len(b) = n /\ DOMAIN b = 1 .. n /\ \A i \in 1 .. n : b[i] = k[s + i]
  BY <1>1
<1> HIDE DEF b
<1>3. ASSUME NEW i \in DOMAIN b PROVE \E j \in s .. s + n - 1 : b[i] = k[j + 1]
  <2>1. s + i - 1 \in s .. s + n - 1 /\ (s + i - 1) + 1 = s + i
    BY <1>2
  <2> QED
    BY <1>2, <2>1
<1>4. ASSUME NEW j \in s .. s + n - 1 PROVE \E i \in DOMAIN b : b[i] = k[j + 1]
  <2>1. j + 1 - s \in 1 .. n /\ s + (j + 1 - s) = j + 1
    OBVIOUS
  <2> QED
    BY <1>2, <2>1
<1>5. AttentionLayers!Range(b) = AttentionLayers!KeysAt(k, s .. s + n - 1)
  BY <1>3, <1>4 DEF AttentionLayers!Range, AttentionLayers!KeysAt
<1> QED
  BY <1>5 DEF AttentionLayers!Block, b, k

\* What a query sees in pooled form is a block that ends in front of its window.
LEMMA PooledBehind ==
    ASSUME AttentionLayers!AttentionAssumption, NEW k \in Seq(Keys), NEW q \in 0 .. Len(k) - 1,
           NEW b \in AttentionLayers!Attend(k, q).pooled
    PROVE  \E s, n \in Nat : b = AttentionLayers!Block(k, s, n) /\ s + n <= q - Window + 1
<1>0. HcaBlock \in Nat /\ CsaBlock \in Nat /\ Len(k) \in Nat
  BY AttentionFacts
<1>1. b \in HcaSeen(k, q) \/ b \in CsaSeen(k, q)
  BY Zenon DEF AttentionLayers!Attend, HcaSeen, CsaSeen, Chosen
<1>2. CASE b \in HcaSeen(k, q)
  <2>1. PICK s \in AttentionLayers!HcaAllowed(k, q) : b = AttentionLayers!Block(k, s, HcaBlock)
    BY <1>2 DEF HcaSeen
  <2>2. s \in Nat /\ s + HcaBlock <= q - Window + 1
    BY <2>1, HcaBlocks
  <2> QED
    BY <1>0, <2>1, <2>2
<1>3. CASE b \in CsaSeen(k, q)
  <2>1. PICK s \in Chosen(k, q) : b = AttentionLayers!Block(k, s, CsaBlock)
    BY <1>3 DEF CsaSeen
  <2>2. s \in Nat /\ s + CsaBlock <= q - Window + 1
    BY <1>0 DEF Chosen, AttentionLayers!TopBlocks, AttentionLayers!CsaStarts,
                AttentionLayers!Allowed
  <2> QED
    BY <1>0, <2>1, <2>2
<1> QED
  BY <1>1, <1>2, <1>3

\* Far: the keys of the pooled blocks a query sees.  Near: those of its window.
Far(k, q) == UNION {AttentionLayers!Range(b) : b \in AttentionLayers!Attend(k, q).pooled}
Near(k, q) == AttentionLayers!Attend(k, q).raw

\* The far and the near keys stand at positions up to the query's, on two sides of the
\* start of its window.
LEMMA FarNearPositions ==
    ASSUME AttentionLayers!AttentionAssumption, NEW t \in Seq(Spoken),
           NEW q \in 0 .. Len(t) - 1
    PROVE  /\ \A x \in Far(Keyed(t), q) :
                 x.at \in 0 .. q /\ x.at < q - Window + 1 /\ x = Keyed(t)[x.at + 1]
           /\ \A x \in Near(Keyed(t), q) :
                 x.at \in 0 .. q /\ x.at >= q - Window + 1 /\ x = Keyed(t)[x.at + 1]
           /\ \A j \in 0 .. q : j >= q - Window + 1 => Keyed(t)[j + 1] \in Near(Keyed(t), q)
<1> DEFINE k == Keyed(t)
<1>1. k \in Seq(Keys) /\ Len(k) = Len(t) /\ Len(t) \in Nat /\ Window \in Nat /\ Window > 0
  BY KeyedFacts, AttentionFacts
<1>2. ASSUME NEW x \in Far(k, q)
      PROVE  x.at \in 0 .. q /\ x.at < q - Window + 1 /\ x = k[x.at + 1]
  <2>1. PICK b \in AttentionLayers!Attend(k, q).pooled : x \in AttentionLayers!Range(b)
    BY DEF Far
  <2>2. PICK s, n \in Nat : b = AttentionLayers!Block(k, s, n) /\ s + n <= q - Window + 1
    <3>1. q \in 0 .. Len(k) - 1
      BY <1>1
    <3> HIDE DEF k
    <3> QED
      BY <1>1, <3>1, PooledBehind
  <2>3. s + n <= Len(t) /\ (s .. s + n - 1) \in SUBSET (0 .. Len(t) - 1)
    <3>1. s + n <= Len(t)
      BY <1>1, <2>2
    <3> QED
      BY <1>1, <3>1
  <2>4. x \in AttentionLayers!KeysAt(k, s .. s + n - 1)
    BY <2>1, <2>2, <2>3, BlockKeys
  <2>5. x.at \in s .. s + n - 1 /\ x = k[x.at + 1]
    BY <2>3, <2>4, KeysAtFacts
  <2> HIDE DEF k
  <2> QED
    BY <1>1, <2>2, <2>5
<1> DEFINE js == AttentionLayers!Local(k, q)
<1>3. js = {j \in 0 .. Len(t) - 1 : j <= q /\ j >= q - Window + 1}
  BY <1>1, Zenon DEF AttentionLayers!Local, AttentionLayers!Positions
<1>4. Near(k, q) = AttentionLayers!KeysAt(k, js)
  BY DEF Near, AttentionLayers!Attend
<1>5. js \in SUBSET (0 .. Len(t) - 1)
  BY <1>3
<1>6. /\ \A x \in AttentionLayers!KeysAt(k, js) : x.at \in js /\ x = k[x.at + 1]
      /\ \A j \in js : k[j + 1] \in AttentionLayers!KeysAt(k, js)
  <2> HIDE DEF js
  <2> QED
    BY <1>5, KeysAtFacts
<1> HIDE DEF k, js
<1>7. ASSUME NEW x \in Near(k, q)
      PROVE  x.at \in 0 .. q /\ x.at >= q - Window + 1 /\ x = k[x.at + 1]
  <2>1. x.at \in js /\ x = k[x.at + 1]
    BY <1>4, <1>6
  <2>2. \A j \in js : j \in 0 .. q /\ j >= q - Window + 1
    BY <1>1, <1>3
  <2> QED
    BY <2>1, <2>2
<1>8. ASSUME NEW j \in 0 .. q, j >= q - Window + 1 PROVE k[j + 1] \in Near(k, q)
  <2>1. j \in js
    BY <1>1, <1>3, <1>8
  <2> QED
    BY <1>4, <1>6, <2>1
<1> QED
  BY <1>2, <1>7, <1>8 DEF k

\* HCA blocks are equal or have no position in common.
LEMMA BlocksApart ==
    ASSUME NEW h \in Nat, h > 0, NEW b \in Nat, NEW c \in Nat, NEW j \in Int,
           j \in b * h .. b * h + h - 1, j \in c * h .. c * h + h - 1
    PROVE  b = c
<1>1. ASSUME NEW x \in Nat, NEW y \in Nat, x < y PROVE x * h + h <= y * h
  <2>1. (x + 1) * h <= y * h
    BY <1>1, SMT
  <2>2. (x + 1) * h = x * h + h
    BY SMT
  <2> QED
    BY <2>1, <2>2
<1>2. b * h \in Nat /\ c * h \in Nat
  BY SMT
<1>3. ~(b < c)
  <2> SUFFICES ASSUME b < c PROVE FALSE
    OBVIOUS
  <2>1. b * h + h <= c * h
    BY <1>1
  <2> QED
    BY <1>2, <2>1
<1>4. ~(c < b)
  <2> SUFFICES ASSUME c < b PROVE FALSE
    OBVIOUS
  <2>1. c * h + h <= b * h
    BY <1>1
  <2> QED
    BY <1>2, <2>1
<1> QED
  BY <1>3, <1>4

LEMMA HcaApart ==
    ASSUME AttentionLayers!AttentionAssumption, kind = "hca", NEW t \in Seq(Spoken),
           NEW q \in 0 .. Len(t) - 1,
           NEW b \in AttentionLayers!Attend(Keyed(t), q).pooled,
           NEW c \in AttentionLayers!Attend(Keyed(t), q).pooled,
           AttentionLayers!Range(b) # AttentionLayers!Range(c)
    PROVE  AttentionLayers!Range(b) \cap AttentionLayers!Range(c) = {}
<1> DEFINE k == Keyed(t)
           at(m) == AttentionLayers!Block(k, m * HcaBlock, HcaBlock)
<1>1. k \in Seq(Keys) /\ q \in 0 .. Len(k) - 1 /\ Len(k) = Len(t) /\ Len(t) \in Nat
      /\ HcaBlock \in Nat /\ HcaBlock > 0 /\ Window \in Nat /\ Window > 0
  BY KeyedFacts, AttentionFacts
<1>2. ASSUME NEW x \in AttentionLayers!Attend(k, q).pooled
      PROVE  \E m \in Nat : /\ x = at(m)
                            /\ m * HcaBlock \in Nat /\ m * HcaBlock + HcaBlock <= Len(t)
  <2>1. x \in HcaSeen(k, q)
    BY Zenon DEF AttentionLayers!Attend, HcaSeen
  <2>2. PICK s \in AttentionLayers!HcaAllowed(k, q) : x = AttentionLayers!Block(k, s, HcaBlock)
    BY <2>1 DEF HcaSeen
  <2>3. s \in Nat /\ s + HcaBlock <= q - Window + 1 /\ \E m \in Nat : s = m * HcaBlock
    <3> HIDE DEF k
    <3> QED
      BY <1>1, <2>2, HcaBlocks
  <2>4. s + HcaBlock <= Len(t)
    BY <1>1, <2>3
  <2> QED
    BY <2>2, <2>3, <2>4
<1>3. PICK m \in Nat : b = at(m) /\ m * HcaBlock \in Nat /\ m * HcaBlock + HcaBlock <= Len(t)
  BY <1>2
<1>4. PICK n \in Nat : c = at(n) /\ n * HcaBlock \in Nat /\ n * HcaBlock + HcaBlock <= Len(t)
  BY <1>2
<1>5. ASSUME NEW l \in Nat, l * HcaBlock \in Nat, l * HcaBlock + HcaBlock <= Len(t),
             NEW x \in AttentionLayers!Range(at(l))
      PROVE  x.at \in l * HcaBlock .. l * HcaBlock + HcaBlock - 1
  <2> DEFINE s == l * HcaBlock
  <2>1. s \in Nat /\ s + HcaBlock <= Len(t)
    BY <1>5
  <2> HIDE DEF s
  <2>2. AttentionLayers!Range(AttentionLayers!Block(k, s, HcaBlock))
          = AttentionLayers!KeysAt(k, s .. s + HcaBlock - 1)
    BY <1>1, <2>1, BlockKeys
  <2>3. (s .. s + HcaBlock - 1) \in SUBSET (0 .. Len(t) - 1)
    BY <1>1, <2>1
  <2>4. \A y \in AttentionLayers!KeysAt(k, s .. s + HcaBlock - 1) : y.at \in s .. s + HcaBlock - 1
    BY <2>3, KeysAtFacts
  <2> QED
    BY <2>2, <2>4 DEF s
<1> SUFFICES ASSUME NEW x \in AttentionLayers!Range(b), x \in AttentionLayers!Range(c)
             PROVE  FALSE
  OBVIOUS
<1>6. /\ x.at \in m * HcaBlock .. m * HcaBlock + HcaBlock - 1
      /\ x.at \in n * HcaBlock .. n * HcaBlock + HcaBlock - 1
  <2> HIDE DEF at
  <2> QED
    BY <1>3, <1>4, <1>5
<1>7. x.at \in Int
  BY <1>3, <1>6, <1>1
<1>8. m = n
  BY <1>1, <1>6, <1>7, BlocksApart
<1> QED
  BY <1>3, <1>4, <1>8

\* A query sees all positions in front of its window but the last few.
LEMMA HcaCovers ==
    ASSUME AttentionLayers!AttentionAssumption, kind = "hca", NEW t \in Seq(Spoken),
           NEW q \in 0 .. Len(t) - 1
    PROVE  \E e \in Nat : /\ e = 0 \/ e <= q - Window + 1
                          /\ (q - Window + 1) - e < HcaBlock
                          /\ \A j \in 0 .. q : j < e => Keyed(t)[j + 1] \in Far(Keyed(t), q)
<1> DEFINE k == Keyed(t)
           n == q - Window + 1
<1>1. k \in Seq(Keys) /\ q \in 0 .. Len(k) - 1 /\ Len(k) = Len(t) /\ Len(t) \in Nat
      /\ HcaBlock \in Nat /\ HcaBlock > 0 /\ Window \in Nat /\ Window > 0 /\ n \in Int /\ q \in Nat
  BY KeyedFacts, AttentionFacts
<1>2. CASE n <= 0
  <2>1. n - 0 < HcaBlock /\ \A j \in 0 .. q : j < 0 => k[j + 1] \in Far(k, q)
    <3> HIDE DEF n
    <3> QED
      BY <1>1, <1>2
  <2> QED
    BY <2>1
<1>3. CASE n > 0
  <2> DEFINE d == n \div HcaBlock
             e == d * HcaBlock
  <2>1. d \in Nat /\ e <= n /\ n < e + HcaBlock
    BY <1>1, <1>3, WholeBlocks
  <2>2. e \in Nat
    <3> HIDE DEF d
    <3> QED
      BY <1>1, <2>1
  <2>3. ASSUME NEW j \in 0 .. q, j < e PROVE k[j + 1] \in Far(k, q)
    <3> DEFINE b == j \div HcaBlock
               s == b * HcaBlock
    <3>1. b \in Nat /\ s <= j /\ j < s + HcaBlock
      BY <1>1, WholeBlocks
    <3>2. s \in Nat
      <4> HIDE DEF b
      <4> QED
        BY <1>1, <3>1
    <3> HIDE DEF b
    <3>3. b <= d - 1
      <4> SUFFICES ASSUME d <= b PROVE FALSE
        <5> HIDE DEF d
        <5> QED
          BY <2>1, <3>1
      <4>1. d * HcaBlock <= b * HcaBlock
        <5> HIDE DEF d
        <5> QED
          BY <1>1, <2>1, <3>1, SMT
      <4> HIDE DEF d
      <4> QED
        BY <2>2, <2>3, <3>1, <3>2, <4>1
    <3>4. s + HcaBlock <= n
      BY <1>1, <1>3, <3>1, <3>3, WholeBlocks
    <3>5. s \in AttentionLayers!HcaAllowed(k, q)
      <4> HIDE DEF k, s
      <4> QED
        BY <1>1, <3>1, <3>2, <3>4, HcaBlocks DEF s
    <3> DEFINE x == AttentionLayers!Block(k, s, HcaBlock)
    <3>6. x \in AttentionLayers!Attend(k, q).pooled
      <4>1. x \in HcaSeen(k, q)
        BY <3>5 DEF HcaSeen
      <4>2. AttentionLayers!Attend(k, q).pooled = HcaSeen(k, q)
        BY DEF AttentionLayers!Attend, HcaSeen
      <4> QED
        BY <4>1, <4>2
    <3> HIDE DEF s
    <3>7. k[j + 1] \in AttentionLayers!Range(x)
      <4>1. s + HcaBlock <= Len(t)
        BY <1>1, <3>2, <3>4
      <4>2. AttentionLayers!Range(x) = AttentionLayers!KeysAt(k, s .. s + HcaBlock - 1)
        BY <1>1, <3>2, <4>1, BlockKeys
      <4>3. j \in s .. s + HcaBlock - 1
        BY <1>1, <3>1, <3>2
      <4> QED
        BY <4>2, <4>3 DEF AttentionLayers!KeysAt
    <3> QED
      BY <3>6, <3>7 DEF Far
  <2> HIDE DEF e, k
  <2>4. e <= n /\ n - e < HcaBlock
    BY <1>1, <2>1, <2>2
  <2> QED
    BY <2>2, <2>3, <2>4 DEF k
<1> QED
  BY <1>1, <1>2, <1>3

LEMMA HcaFew ==
    ASSUME AttentionLayers!AttentionAssumption, kind = "hca", NEW t \in Seq(Spoken),
           NEW q \in 0 .. Len(t) - 1
    PROVE  (q + 1) - AttentionLayers!Cardinality(Far(Keyed(t), q) \cup Near(Keyed(t), q))
             < HcaBlock
<1> DEFINE k == Keyed(t)
           n == q - Window + 1
           all == Far(k, q) \cup Near(k, q)
<1>1. q \in Nat /\ HcaBlock \in Nat /\ HcaBlock > 0 /\ Window \in Nat /\ Window > 0 /\ n \in Int
      /\ n <= q
  BY KeyedFacts, AttentionFacts
<1>2. PICK e \in Nat : /\ e = 0 \/ e <= n
                       /\ n - e < HcaBlock
                       /\ \A j \in 0 .. q : j < e => k[j + 1] \in Far(k, q)
  BY HcaCovers
<1>3. /\ \A x \in all : x.at \in 0 .. q /\ x = k[x.at + 1]
      /\ \A j \in 0 .. q : j >= n => k[j + 1] \in Near(k, q)
      /\ \A j \in 0 .. q : k[j + 1].at = j
  <2>1. \A j \in 0 .. q : k[j + 1].at = j
    <3> TAKE j \in 0 .. q
    <3>1. j + 1 \in 1 .. Len(t) /\ (j + 1) - 1 = j
      <4>1. Len(t) \in Nat
        OBVIOUS
      <4> QED
        BY <4>1
    <3> QED
      BY <3>1, KeyedFacts
  <2> QED
    BY <2>1, FarNearPositions
<1> DEFINE js == (0 .. q) \ (e .. n - 1)
           there == [j \in js |-> k[j + 1]]
           back == [x \in all |-> x.at]
<1>4. IsFiniteSet(all)
  <2> HIDE DEF all, k
  <2>1. back \in Injection(all, 0 .. q)
    <3>1. back \in [all -> 0 .. q]
      BY <1>3
    <3>2. ASSUME NEW x \in all, NEW y \in all, back[x] = back[y] PROVE x = y
      BY <1>3, <3>2
    <3> HIDE DEF back
    <3> QED
      BY <3>1, <3>2 DEF Injection, IsInjective
  <2>2. IsFiniteSet(0 .. q)
    BY <1>1, FS_Interval
  <2> HIDE DEF back
  <2> QED
    BY <2>1, <2>2, FS_Injection
<1>5. ASSUME NEW j \in js PROVE k[j + 1] \in all /\ k[j + 1].at = j
  <2>1. j \in 0 .. q /\ (j < e \/ j >= n)
    BY <1>1
  <2> QED
    BY <1>2, <1>3, <2>1
<1>6. Cardinality(js) <= Cardinality(all)
  <2> HIDE DEF all, k, js
  <2>1. there \in Injection(js, all)
    <3>1. there \in [js -> all]
      BY <1>5
    <3>2. ASSUME NEW i \in js, NEW j \in js, there[i] = there[j] PROVE i = j
      BY <1>5, <3>2
    <3> HIDE DEF there
    <3> QED
      BY <3>1, <3>2 DEF Injection, IsInjective
  <2> HIDE DEF there
  <2> QED
    BY <1>4, <2>1, FS_Injection
<1> HIDE DEF all, n
<1>7. IsFiniteSet(0 .. q) /\ Cardinality(0 .. q) = q + 1
  BY <1>1, FS_Interval
<1>8. Cardinality(js) \in Nat /\ (q + 1) - Cardinality(js) < HcaBlock
  <2>1. CASE e <= n
    <3>1. IsFiniteSet(e .. n - 1) /\ Cardinality(e .. n - 1) = n - e
      <4>1. n - 1 \in Int /\ e \in Int /\ (n - 1) - e + 1 = n - e /\ (e > n - 1 => n - e = 0)
        BY <1>1, <2>1
      <4> QED
        BY <4>1, FS_Interval
    <3>2. (0 .. q) \cap (e .. n - 1) = e .. n - 1
      BY <1>1
    <3>3. Cardinality(js) = (q + 1) - (n - e)
      <4>1. Cardinality(js) = Cardinality(0 .. q) - Cardinality((0 .. q) \cap (e .. n - 1))
        BY <1>7, FS_Difference
      <4> QED
        BY <1>7, <3>1, <3>2, <4>1, Zenon
    <3>4. Cardinality(js) \in Nat
      BY <1>7, FS_Difference, FS_CardinalityType
    <3> HIDE DEF js
    <3> QED
      BY <1>1, <1>2, <3>3, <3>4
  <2>2. CASE ~(e <= n)
    <3>1. js = 0 .. q
      BY <1>1, <2>2
    <3> HIDE DEF js
    <3> QED
      BY <1>1, <1>7, <3>1
  <2> QED
    BY <2>1, <2>2
<1>9. Cardinality(all) \in Nat
  BY <1>4, FS_CardinalityType
<1>10. (q + 1) - Cardinality(all) < HcaBlock
  <2> HIDE DEF js
  <2> QED
    BY <1>1, <1>6, <1>8, <1>9
<1>11. AttentionLayers!Cardinality(all) = Cardinality(all)
  BY Zenon DEF AttentionLayers!Cardinality, Cardinality
<1> QED
  BY <1>10, <1>11 DEF all, k

\* For any rows, kinds of layer, windows, blocks, top-k and contexts, and any order of the
\* scores: however a request was fed to the model, in chunks, alone or in cohorts, padded or
\* not, forked or not, each of its tokens attended to exactly what it attends to in one
\* forward over the whole text; what it sees in pooled blocks lies in front of what it sees
\* token by token; and HCA shows it every token once, but for fewer than a block
\* (attention.py, batched.py, cache.py).
THEOREM TokensAttendAsAlone == AttentionLayers!Spec => []AttentionExact
<1>0. AttentionLayers!AttentionAssumption
  BY AttentionParameters
<1>1. AttentionLayers!Init => AttentionInv
  BY <1>0, AttentionStart
<1>2. AttentionInv /\ [AttentionLayers!Next]_(AttentionLayers!vars) => AttentionInv'
  BY <1>0, AttentionStep
<1>3. AttentionInv => AttentionExact
  <2> SUFFICES ASSUME AttentionInv PROVE AttentionExact
    OBVIOUS
  <2>1. ASSUME NEW r \in Rows, NEW i \in DOMAIN seen[r]
        PROVE  /\ text[r] \in Seq(Spoken) /\ i - 1 \in 0 .. Len(text[r]) - 1 /\ i \in Nat
               /\ seen[r][i] = AttentionLayers!Attend(Keyed(text[r]), i - 1)
    <3>1. text[r] \in Seq(Spoken) /\ seen[r] = SeenOf(text[r]) /\ Len(text[r]) \in Nat
      BY NewTokensFacts
    <3>2. i \in 1 .. Len(text[r]) /\ seen[r][i] = AttentionLayers!Attend(Keyed(text[r]), i - 1)
      BY <3>1, Zenon DEF SeenOf
    <3> QED
      BY <3>1, <3>2
  <2>2. AttentionLayers!AttendsAsAlone
    <3> SUFFICES ASSUME NEW r \in Rows, NEW i \in DOMAIN seen[r]
                 PROVE  seen[r][i] = AttentionLayers!Attend(
                                       AttentionLayers!Appended(<<>>, text[r], 0), i - 1)
      BY Zenon DEF AttentionLayers!AttendsAsAlone
    <3> QED
      BY <2>1, WholeKeyed
  <2>3. AttentionLayers!FarAndNear
    <3> SUFFICES ASSUME NEW r \in Rows, NEW i \in DOMAIN seen[r]
                 PROVE  LET pooled == {AttentionLayers!Range(b) : b \in seen[r][i].pooled}
                            far == UNION pooled
                        IN  /\ far \cap seen[r][i].raw = {}
                            /\ kind = "hca" =>
                                 /\ \A b, c \in pooled : b = c \/ b \cap c = {}
                                 /\ i - AttentionLayers!Cardinality(far \cup seen[r][i].raw)
                                      < HcaBlock
      BY Zenon DEF AttentionLayers!FarAndNear
    <3> DEFINE t == text[r]
               q == i - 1
               view == AttentionLayers!Attend(Keyed(t), q)
    <3>1. t \in Seq(Spoken) /\ q \in 0 .. Len(t) - 1 /\ i \in Nat /\ seen[r][i] = view
      BY <2>1
    <3>2. q + 1 = i /\ q \in Int /\ Window \in Int
      <4>1. i \in Nat /\ Window \in Nat
        BY <1>0, <2>1, AttentionFacts
      <4> QED
        BY <4>1
    <3>3. /\ UNION {AttentionLayers!Range(b) : b \in view.pooled} = Far(Keyed(t), q)
          /\ view.raw = Near(Keyed(t), q)
      BY DEF Far, Near
    <3> HIDE DEF t, q
    <3>4. Far(Keyed(t), q) \cap Near(Keyed(t), q) = {}
      <4> SUFFICES ASSUME NEW x \in Far(Keyed(t), q), x \in Near(Keyed(t), q) PROVE FALSE
        OBVIOUS
      <4>1. x.at \in 0 .. q /\ x.at < q - Window + 1 /\ x.at >= q - Window + 1
        BY <1>0, <3>1, FarNearPositions
      <4> QED
        BY <3>2, <4>1
    <3>5. ASSUME kind = "hca", NEW b \in view.pooled, NEW c \in view.pooled
          PROVE  \/ AttentionLayers!Range(b) = AttentionLayers!Range(c)
                 \/ AttentionLayers!Range(b) \cap AttentionLayers!Range(c) = {}
      BY <1>0, <3>1, <3>5, HcaApart
    <3>6. kind = "hca" =>
            i - AttentionLayers!Cardinality(Far(Keyed(t), q) \cup Near(Keyed(t), q)) < HcaBlock
      BY <1>0, <3>1, <3>2, HcaFew
    <3> HIDE DEF view
    <3> QED
      BY <3>1, <3>3, <3>4, <3>5, <3>6, Zenon
  <2> QED
    BY <2>2, <2>3 DEF AttentionExact, AttentionLayers!AttentionExact
<1> QED
  BY <1>1, <1>2, <1>3, PTL DEF AttentionLayers!Spec
=============================================================================
