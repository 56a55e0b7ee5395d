-------------------------- MODULE SmallParts_proofs --------------------------
(***************************************************************************)
(* Proofs about three small components that share nothing.                 *)
(*                                                                         *)
(* SpecDecode, for every vocabulary, budget, context and number of draft   *)
(* heads: the answer is greedy decoding's, and a verified round gains.     *)
(*                                                                         *)
(* RolloutBuffer, for every max_size, every length of the callable, every  *)
(* number of starts and every min_count: the samples are conserved across  *)
(* waits, timeouts, failures and restarts, the buffer never exceeds        *)
(* max_size, and no drain comes back short of its min_count while a        *)
(* producer is at work.                                                    *)
(*                                                                         *)
(* PagedKV, for every number of requests, layers and blocks and every      *)
(* block size: no block is lost or shared, and no row overwritten.         *)
(***************************************************************************)
EXTENDS SpecDecode, RolloutBuffer, PagedKV, SequenceTheorems, TLAPS

----------------------------------------------------------------------------
(* SpecDecode. *)

\* What a round has so far: a continuation of greedy decoding, at most one token
\* longer than the drafts, and at least two tokens once it is taken.
Round ==
    step \in {"verify", "take"} =>
        /\ Len(out) + 1 < MaxNew
        /\ MtpHeads > 0
        /\ Agrees(out \o accepted)
        /\ Len(drafts) = MtpHeads
        /\ Len(accepted) \in 1 .. MtpHeads + 1
        /\ step = "verify" => Len(accepted) <= MtpHeads
        /\ step = "take" => Len(accepted) >= 2

CallInv ==
    /\ SpecTypeOK
    /\ Agrees(out) /\ Len(out) <= MaxNew
    /\ Round
    /\ AnswerIsGreedy

----------------------------------------------------------------------------

USE SpecAssumption

\* A greedy sequence shorter than the horizon has one next prediction, and stays
\* greedy with it.
LEMMA NextPrediction ==
    ASSUME SpecTypeOK, NEW s \in Seq(Vocab), Agrees(s), Len(s) < MaxNew + MtpHeads,
           NEW token \in Predictions(s)
    PROVE  /\ token \in Vocab
           /\ token = greedy[Len(s) + 1]
           /\ Agrees(Append(s, token))
<1>1. token = greedy[Len(s) + 1]
  BY DEF Predictions
<1>2. Len(s) + 1 \in Horizon
  BY DEF Horizon
<1> QED
  BY <1>1, <1>2 DEF SpecTypeOK, Agrees

\* A prefix of a greedy sequence is greedy.
LEMMA PrefixAgrees ==
    ASSUME NEW s \in Seq(Vocab), Agrees(s), NEW n \in 0 .. Len(s)
    PROVE  /\ SubSeq(s, 1, n) \in Seq(Vocab)
           /\ Len(SubSeq(s, 1, n)) = n
           /\ \A i \in 1 .. n : SubSeq(s, 1, n)[i] = s[i]
           /\ Agrees(SubSeq(s, 1, n))
BY DEF Agrees

LEMMA InitCall == CallInit => CallInv
BY DEF CallInit, CallInv, SpecTypeOK, Agrees, Round, AnswerIsGreedy

LEMMA DraftOneInv == CallInv /\ DraftOne => CallInv'
<1> SUFFICES ASSUME CallInv, DraftOne PROVE CallInv'
  OBVIOUS
<1>1. PICK token \in Predictions(out) : out' = Append(out, token)
  BY DEF DraftOne
<1>2. /\ out \in Seq(Vocab) /\ Agrees(out) /\ Len(out) < MaxNew
      /\ step = "draft" /\ step' = "draft"
      /\ UNCHANGED <<greedy, drafts, accepted, answer>>
  BY DEF DraftOne, CallInv, SpecTypeOK
<1>3. token \in Vocab /\ Agrees(Append(out, token))
  BY <1>2, NextPrediction DEF CallInv
<1>4. out' \in Seq(Vocab) /\ Len(out') <= MaxNew
  BY <1>1, <1>2, <1>3
<1>5. Agrees(out)'
  BY <1>1, <1>2, <1>3 DEF Agrees
<1>6. SpecTypeOK'
  BY <1>2, <1>4 DEF CallInv, SpecTypeOK
<1> QED
  BY <1>2, <1>4, <1>5, <1>6 DEF CallInv, Round, AnswerIsGreedy

LEMMA DraftInv == CallInv /\ Draft => CallInv'
<1> SUFFICES ASSUME CallInv, Draft PROVE CallInv'
  OBVIOUS
<1>1. PICK token \in Predictions(out) : accepted' = <<token>>
  BY DEF Draft
<1>2. /\ out \in Seq(Vocab) /\ Agrees(out) /\ Len(out) + 1 < MaxNew /\ MtpHeads > 0
      /\ step' \in {"verify", "raised"}
      /\ drafts' \in [1 .. MtpHeads -> Vocab]
      /\ UNCHANGED <<greedy, out, answer>>
  BY DEF Draft, CallInv, SpecTypeOK
<1>3. token \in Vocab /\ Agrees(Append(out, token))
  BY <1>2, NextPrediction DEF CallInv
<1>4. accepted' \in Seq(Vocab) /\ Len(accepted') = 1 /\ out \o accepted' = Append(out, token)
  BY <1>1, <1>2, <1>3
<1>5. Agrees(out \o accepted)'
  BY <1>2, <1>3, <1>4 DEF Agrees
<1>6. drafts' \in Seq(Vocab) /\ Len(drafts') = MtpHeads
  BY <1>2
<1>7. SpecTypeOK'
  BY <1>2, <1>4, <1>6 DEF CallInv, SpecTypeOK
<1>8. Agrees(out)'
  BY <1>2 DEF Agrees
<1> QED
  BY <1>2, <1>4, <1>5, <1>6, <1>7, <1>8 DEF CallInv, Round, AnswerIsGreedy

LEMMA VerifyInv == CallInv /\ Verify => CallInv'
<1> SUFFICES ASSUME CallInv, Verify PROVE CallInv'
  OBVIOUS
<1> DEFINE draft == drafts[Len(accepted)]
<1>1. PICK verified \in Predictions(out \o accepted) :
        /\ accepted' = Append(accepted, Kept(draft, verified))
        /\ step' = IF draft = verified /\ Len(accepted) < MtpHeads THEN "verify" ELSE "take"
  BY DEF Verify
<1>2. /\ out \in Seq(Vocab) /\ accepted \in Seq(Vocab)
      /\ Len(out) + 1 < MaxNew /\ MtpHeads > 0
      /\ Len(accepted) \in 1 .. MtpHeads
      /\ Agrees(out \o accepted)
      /\ UNCHANGED <<greedy, out, drafts, answer>>
  BY DEF Verify, CallInv, SpecTypeOK, Round
<1>3. accepted' = Append(accepted, verified)
  BY <1>1 DEF Kept
<1>4. /\ out \o accepted \in Seq(Vocab)
      /\ Len(out \o accepted) < MaxNew + MtpHeads
  BY <1>2
<1>5. verified \in Vocab /\ Agrees(Append(out \o accepted, verified))
  BY <1>2, <1>4, NextPrediction DEF CallInv
<1>6. /\ accepted' \in Seq(Vocab) /\ Len(accepted') = Len(accepted) + 1
      /\ out \o accepted' = Append(out \o accepted, verified)
  BY <1>2, <1>3, <1>5
<1>7. Agrees(out \o accepted)'
  BY <1>2, <1>5, <1>6 DEF Agrees
<1>8. SpecTypeOK' /\ Agrees(out)'
  BY <1>1, <1>2, <1>6 DEF CallInv, SpecTypeOK, Agrees
<1> QED
  BY <1>1, <1>2, <1>6, <1>7, <1>8 DEF CallInv, Round, AnswerIsGreedy, Verify

LEMMA TakeInv == CallInv /\ Take => CallInv' /\ Len(out') - Len(out) \in 2 .. MtpHeads + 1
<1> SUFFICES ASSUME CallInv, Take PROVE CallInv' /\ Len(out') - Len(out) \in 2 .. MtpHeads + 1
  OBVIOUS
<1> DEFINE n == IF Len(accepted) < Room THEN Len(accepted) ELSE Room
<1>1. /\ out' = out \o SubSeq(accepted, 1, n)
      /\ step' = "draft" /\ accepted' = <<>> /\ drafts' = <<>>
      /\ UNCHANGED <<greedy, answer>>
  BY DEF Take
<1>2. /\ out \in Seq(Vocab) /\ accepted \in Seq(Vocab)
      /\ Len(out) + 1 < MaxNew
      /\ Len(accepted) \in 2 .. MtpHeads + 1
      /\ Agrees(out \o accepted)
  BY DEF Take, CallInv, SpecTypeOK, Round
<1>3. n \in 2 .. MtpHeads + 1 /\ n <= Len(accepted) /\ Len(out) + n <= MaxNew
  BY <1>2 DEF Room
<1> HIDE DEF n
<1>4. SubSeq(accepted, 1, n) \in Seq(Vocab) /\ Len(SubSeq(accepted, 1, n)) = n
  BY <1>2, <1>3
<1>5. out' \in Seq(Vocab) /\ Len(out') = Len(out) + n
  BY <1>1, <1>2, <1>4
<1>6. \A i \in 1 .. Len(out') : out'[i] = (out \o accepted)[i]
  <2>1. \A i \in 1 .. n : SubSeq(accepted, 1, n)[i] = accepted[i]
    BY <1>2, <1>3
  <2> DEFINE kept == SubSeq(accepted, 1, n)
  <2> HIDE DEF kept
  <2>2. kept \in Seq(Vocab) /\ Len(kept) = n /\ (\A i \in 1 .. n : kept[i] = accepted[i])
    BY <1>4, <2>1 DEF kept
  <2>3. out' = out \o kept
    BY <1>1 DEF kept
  <2>4. n \in Nat /\ Len(out') = Len(out) + n
    BY <1>3, <1>5
  <2> SUFFICES ASSUME NEW i \in 1 .. Len(out') PROVE out'[i] = (out \o accepted)[i]
    OBVIOUS
  <2>5. CASE i <= Len(out)
    BY <1>2, <2>2, <2>3, <2>4, <2>5
  <2>6. CASE i > Len(out)
    <3>1. i - Len(out) \in 1 .. n /\ i - Len(out) \in 1 .. Len(accepted)
      BY <1>2, <1>3, <2>4, <2>6
    <3>2. (out \o kept)[i] = kept[i - Len(out)]
      BY <1>2, <2>2, <2>4, <2>6, <3>1
    <3>3. (out \o accepted)[i] = accepted[i - Len(out)]
      BY <1>2, <2>4, <2>6, <3>1
    <3>4. kept[i - Len(out)] = accepted[i - Len(out)]
      BY <2>2, <3>1
    <3> QED
      BY <2>3, <3>2, <3>3, <3>4, Zenon
  <2>7. i <= Len(out) \/ i > Len(out)
    BY <1>2, <2>4
  <2> QED
    BY <2>5, <2>6, <2>7, Zenon
<1>7. Agrees(out)'
  <2>1. ASSUME NEW i \in 1 .. Len(out') PROVE out'[i] = greedy'[i]
    <3>1. i \in 1 .. Len(out \o accepted)
      BY <1>2, <1>3, <1>5
    <3>2. (out \o accepted)[i] = greedy[i]
      BY <1>2, <3>1 DEF Agrees
    <3> QED
      BY <1>1, <1>6, <3>2, Zenon
  <2> QED
    BY <2>1 DEF Agrees
<1>8. SpecTypeOK'
  BY <1>1, <1>2, <1>3, <1>5 DEF CallInv, SpecTypeOK
<1> QED
  BY <1>1, <1>3, <1>5, <1>7, <1>8 DEF CallInv, Round, AnswerIsGreedy

LEMMA PackInv == CallInv /\ Pack => CallInv'
<1> SUFFICES ASSUME CallInv, Pack PROVE CallInv'
  OBVIOUS
<1>1. /\ out \in Seq(Vocab) /\ Agrees(out) /\ Len(out) = MaxNew
      /\ step' = "done"
      /\ UNCHANGED <<greedy, out, drafts, accepted>>
  BY DEF Pack, CallInv, SpecTypeOK
<1>2. CASE StopsAtEos /\ EosAt # {}
  <2>1. PICK i \in EosAt : (\A j \in EosAt : i <= j) /\ answer' = SubSeq(out, 1, i)
    BY <1>2 DEF Pack
  <2>2. i \in 1 .. Len(out) /\ out[i] = Eos
    BY DEF EosAt
  <2>3. /\ answer' \in Seq(Vocab) /\ Len(answer') = i
        /\ \A j \in 1 .. i : answer'[j] = out[j]
        /\ Agrees(answer')
    BY <1>1, <2>1, <2>2, PrefixAgrees
  <2>4. \A j \in 1 .. i - 1 : out[j] # Eos
    BY <1>1, <2>1, <2>2 DEF EosAt
  <2>5. Agrees(answer)'
    BY <1>1, <2>3 DEF Agrees
  <2>6. answer'[Len(answer')] = Eos /\ answer' # <<>>
    BY <2>2, <2>3
  <2>7. AnswerIsGreedy'
    BY <1>1, <1>2, <2>2, <2>3, <2>4, <2>5, <2>6 DEF AnswerIsGreedy
  <2> QED
    BY <1>1, <2>3, <2>7 DEF CallInv, SpecTypeOK, Agrees, Round
<1>3. CASE ~ (StopsAtEos /\ EosAt # {})
  <2>1. answer' = out
    BY <1>3 DEF Pack
  <2>2. StopsAtEos => \A j \in 1 .. Len(out) : out[j] # Eos
    BY <1>3 DEF EosAt
  <2>3. Agrees(answer)'
    BY <1>1, <2>1 DEF Agrees
  <2>4. AnswerIsGreedy'
    BY <1>1, <2>1, <2>2, <2>3 DEF AnswerIsGreedy
  <2> QED
    BY <1>1, <2>1, <2>4 DEF CallInv, SpecTypeOK, Agrees, Round
<1> QED
  BY <1>2, <1>3

LEMMA CallInvStep == CallInv /\ [CallStep]_callVars => CallInv'
<1> SUFFICES ASSUME CallInv, [CallStep]_callVars PROVE CallInv'
  OBVIOUS
<1>1. CASE UNCHANGED callVars
  BY <1>1 DEF callVars, CallInv, SpecTypeOK, Agrees, Round, AnswerIsGreedy
<1> QED
  BY <1>1, DraftOneInv, DraftInv, VerifyInv, TakeInv, PackInv DEF CallStep

LEMMA CallInvariant == CallSpec => []CallInv
BY InitCall, CallInvStep, PTL DEF CallSpec

\* Every state is well typed; in particular drafts, accepted tokens and the output are
\* tokens, whatever the heads propose.
THEOREM SpecTypeCorrect == CallSpec => []SpecTypeOK
<1>1. CallInv => SpecTypeOK
  BY DEF CallInv
<1> QED
  BY <1>1, CallInvariant, PTL

\* The answer of speculative decoding is the answer of the stepwise decoder, for every
\* model, number of heads and budget (spec_decode and _generate_speculative).
THEOREM SpeculationIsGreedy == CallSpec => []AnswerIsGreedy
<1>1. CallInv => AnswerIsGreedy
  BY DEF CallInv
<1> QED
  BY <1>1, CallInvariant, PTL

\* A verified round gains two tokens at least and one per head and one at most.
THEOREM VerifiedRoundsGain == CallSpec => RoundsGain
<1>1. ASSUME CallInv, [CallStep]_callVars
      PROVE  [step = "take" => Len(out') - Len(out) \in 2 .. MtpHeads + 1]_callVars
  <2>1. CASE Take
    BY <1>1, <2>1, TakeInv
  <2>2. CASE step # "take"
    BY <2>2
  <2>3. CASE UNCHANGED callVars
    BY <2>3
  <2> QED
    BY <1>1, <2>1, <2>2, <2>3 DEF CallStep, DraftOne, Draft, Verify, Pack
<1> QED
  BY <1>1, CallInvariant, PTL DEF CallSpec, RoundsGain


----------------------------------------------------------------------------
(* RolloutBuffer: the inductive invariant. *)

\* A producer that waits has still to add the sample it waits with.
WaiterHolds == producer \in {"waiting", "again"} => left > 0

\* The runs of the callable so far have added and have left to add at most Batch each.
WithinRuns == made + left <= Batch * starts

\* The done event is set only between the end of one run and the start of the next.
DoneMeansEnded == finished => producer \in {"none", "ends"}

\* Between two runs of the callable nothing is left over of the last.
NothingLeft == producer = "none" => left = 0

BufferInv ==
    /\ BufferTypeOK
    /\ WaiterHolds
    /\ WithinRuns
    /\ DoneMeansEnded
    /\ NothingLeft
    /\ SamplesConserved

----------------------------------------------------------------------------
(* The numbering of the samples. *)

\* Appending the next number to the first m numbers gives the first m + 1.
LEMMA NextNumber ==
  ASSUME NEW m \in Nat
  PROVE  Append([i \in 1 .. m |-> i], m + 1) = [i \in 1 .. m + 1 |-> i]
<1> DEFINE s == [i \in 1 .. m |-> i]
<1>1. s \in Seq(Nat) /\ Len(s) = m
  OBVIOUS
<1>2. /\ Len(Append(s, m + 1)) = m + 1
      /\ \A i \in 1 .. m : Append(s, m + 1)[i] = i
      /\ Append(s, m + 1)[m + 1] = m + 1
      /\ Append(s, m + 1) \in Seq(Nat)
  BY <1>1
<1>3. DOMAIN Append(s, m + 1) = 1 .. m + 1
  BY <1>2
<1>4. \A i \in 1 .. m + 1 : Append(s, m + 1)[i] = i
  BY <1>2
<1> QED
  BY <1>2, <1>3, <1>4

\* A sample added behind those in the buffer is added behind those ever made.
LEMMA ConcatAppend ==
  ASSUME NEW S, NEW s \in Seq(S), NEW t \in Seq(S), NEW e \in S
  PROVE  s \o Append(t, e) = Append(s \o t, e)
<1>1. /\ Append(t, e) \in Seq(S) /\ s \o t \in Seq(S)
      /\ s \o Append(t, e) \in Seq(S) /\ Append(s \o t, e) \in Seq(S)
      /\ Len(s \o Append(t, e)) = Len(s) + Len(t) + 1
      /\ Len(Append(s \o t, e)) = Len(s) + Len(t) + 1
  OBVIOUS
<1>2. \A i \in 1 .. Len(s) + Len(t) + 1 : (s \o Append(t, e))[i] = Append(s \o t, e)[i]
  <2> SUFFICES ASSUME NEW i \in 1 .. Len(s) + Len(t) + 1
               PROVE  (s \o Append(t, e))[i] = Append(s \o t, e)[i]
    OBVIOUS
  <2>1. CASE i \in 1 .. Len(s)
    BY <2>1, <1>1
  <2>2. CASE i \in Len(s) + 1 .. Len(s) + Len(t)
    BY <2>2, <1>1
  <2>3. CASE i = Len(s) + Len(t) + 1
    BY <2>3, <1>1
  <2> QED
    BY <2>1, <2>2, <2>3
<1> QED
  BY <1>1, <1>2, SeqEqual

\* The runs so far never add more than all runs may.
LEMMA RunsBound ==
  ASSUME BufferAssumption, NEW n \in 0 .. MaxStarts
  PROVE  Batch * n <= Batch * MaxStarts /\ Batch * n \in Nat /\ Batch * MaxStarts \in Nat
BY DEF BufferAssumption

\* One more run may add Batch more.
LEMMA OneMoreRun ==
  ASSUME BufferAssumption, NEW n \in 0 .. MaxStarts
  PROVE  Batch * (n + 1) = Batch * n + Batch
BY DEF BufferAssumption

----------------------------------------------------------------------------
(* The steps. *)

\* The buffer of a new trainer is empty and no run has begun.
LEMMA InitBuffer ==
  ASSUME BufferAssumption, BufferInit
  PROVE  BufferInv
<1> USE DEF BufferInit, BufferAssumption
<1>1. Batch * MaxStarts \in Nat /\ Batch * starts = 0
  OBVIOUS
<1>2. BufferTypeOK
  <2>1. items \in Seq(1 .. Batch * MaxStarts) /\ taken \in Seq(1 .. Batch * MaxStarts)
    OBVIOUS
  <2>2. made \in 0 .. Batch * MaxStarts /\ left \in 0 .. Batch /\ starts \in 0 .. MaxStarts
    BY <1>1
  <2> QED
    BY <2>1, <2>2 DEF BufferTypeOK
<1>3. WaiterHolds /\ WithinRuns /\ DoneMeansEnded /\ NothingLeft
  BY <1>1 DEF WaiterHolds, WithinRuns, DoneMeansEnded, NothingLeft
<1>4. SamplesConserved
  <2>1. taken \o items = << >>
    OBVIOUS
  <2>2. [i \in 1 .. made |-> i] = << >>
    OBVIOUS
  <2> QED
    BY <2>1, <2>2 DEF SamplesConserved
<1> QED
  BY <1>2, <1>3, <1>4 DEF BufferInv

\* add() with room: the next sample is in range, and it goes behind all others.
LEMMA AddLookInv ==
  ASSUME BufferAssumption, BufferInv, AddLook
  PROVE  BufferInv'
<1> USE DEF BufferInv, BufferTypeOK
<1> DEFINE N == Batch * MaxStarts
<1>1. left > 0 /\ producer \in {"run", "again"}
  BY DEF AddLook, WaiterHolds
<1>2. N \in Nat /\ Batch * starts <= N /\ Batch * starts \in Nat
  BY RunsBound
<1>3. made + 1 \in 1 .. N
  <2>1. made \in Nat /\ left \in Nat /\ made + left <= Batch * starts
    BY <1>2 DEF WithinRuns, BufferAssumption
  <2> HIDE DEF BufferInv, BufferTypeOK, N
  <2> QED
    BY <1>1, <1>2, <2>1
<1>4. items' = Append(items, made + 1) /\ items' \in Seq(1 .. N) /\ Len(items') = Len(items) + 1
  BY <1>3 DEF AddLook
<1>5. BufferTypeOK'
  BY <1>1, <1>2, <1>3, <1>4 DEF AddLook, Woken, BufferAssumption
<1>6. WaiterHolds' /\ NothingLeft' /\ DoneMeansEnded'
  BY <1>1 DEF AddLook, WaiterHolds, NothingLeft, DoneMeansEnded
<1>7. WithinRuns'
  BY <1>1, <1>2 DEF AddLook, WithinRuns, BufferAssumption
<1>8. SamplesConserved'
  <2>1. taken \o Append(items, made + 1) = Append(taken \o items, made + 1)
    BY <1>3, ConcatAppend
  <2>2. Append(taken \o items, made + 1) = [i \in 1 .. made + 1 |-> i]
    BY NextNumber DEF SamplesConserved
  <2>3. Len(items') <= MaxSize
    BY <1>4 DEF AddLook, Full, BufferAssumption
  <2> QED
    BY <2>1, <2>2, <2>3, <1>4 DEF AddLook, SamplesConserved
<1> QED
  BY <1>5, <1>6, <1>7, <1>8

\* The producer's other steps leave the samples where they are.
LEMMA ProducerInv ==
  ASSUME BufferAssumption, BufferInv, ProducerStep
  PROVE  BufferInv'
<1> USE DEF BufferInv, BufferTypeOK
<1>1. CASE AddLook
  BY <1>1, AddLookInv
<1>2. CASE AddWait
  <2>1. left > 0 /\ producer \in {"run", "again"}
    BY <1>2 DEF AddWait, WaiterHolds
  <2> QED
    BY <2>1, <1>2 DEF AddWait, heldVars, trainerVars, WaiterHolds, WithinRuns, DoneMeansEnded,
                      NothingLeft, SamplesConserved
<1>3. CASE ProducerReturns
  BY <1>3 DEF ProducerReturns, heldVars, trainerVars, WaiterHolds, WithinRuns, DoneMeansEnded,
              NothingLeft, SamplesConserved
<1>4. CASE ProducerRaises
  BY <1>4 DEF ProducerRaises, heldVars, trainerVars, WaiterHolds, WithinRuns, DoneMeansEnded,
              NothingLeft, SamplesConserved
<1>5. CASE RecordError
  BY <1>5 DEF RecordError, trainerVars, WaiterHolds, WithinRuns, DoneMeansEnded,
              NothingLeft, SamplesConserved
<1>6. CASE ProducerDone
  BY <1>6 DEF ProducerDone, Woken, WaiterHolds, WithinRuns, DoneMeansEnded,
              NothingLeft, SamplesConserved
<1>7. CASE ProducerEnds
  <2>1. WithinRuns'
    <3>1. Batch * starts \in Nat /\ made \in Nat /\ left \in Nat /\ made + left <= Batch * starts
      BY RunsBound DEF WithinRuns, BufferAssumption
    <3>2. made' = made /\ left' = 0 /\ starts' = starts
      BY <1>7 DEF ProducerEnds, trainerVars
    <3> HIDE DEF BufferInv, BufferTypeOK
    <3> QED
      BY <3>1, <3>2 DEF WithinRuns
  <2>2. producer' = "none" /\ left' = 0 /\ failing' = FALSE
        /\ UNCHANGED <<items, error, finished, made, starts, trainer, minCount, taken>>
    BY <1>7 DEF ProducerEnds, heldVars, trainerVars
  <2>3. left' \in 0 .. Batch
    BY <2>2 DEF BufferAssumption
  <2>4. BufferTypeOK'
    BY <2>2, <2>3
  <2> QED
    BY <2>1, <2>2, <2>4 DEF WaiterHolds, DoneMeansEnded, NothingLeft, SamplesConserved
<1> QED
  BY <1>1, <1>2, <1>3, <1>4, <1>5, <1>6, <1>7 DEF ProducerStep

\* start() forgets the end and the error of the last run and no sample.
LEMMA StartInv ==
  ASSUME BufferAssumption, BufferInv, Start
  PROVE  BufferInv'
<1> USE DEF BufferInv, BufferTypeOK
<1>1. starts \in 0 .. MaxStarts /\ starts + 1 \in 0 .. MaxStarts /\ left = 0
  BY DEF Start, BufferAssumption, NothingLeft
<1>2. Batch * (starts + 1) = Batch * starts + Batch /\ Batch * starts \in Nat
  BY <1>1, OneMoreRun, RunsBound
<1>3. WithinRuns'
  BY <1>1, <1>2 DEF Start, WithinRuns, BufferAssumption
<1>4. BufferTypeOK'
  <2>1. left' \in 0 .. Batch /\ starts' \in 0 .. MaxStarts
    BY <1>1 DEF Start, BufferAssumption
  <2>2. UNCHANGED <<items, made, failing, trainer, minCount, taken>>
        /\ producer' = "run" /\ finished' = FALSE /\ error' = FALSE
    BY DEF Start
  <2> QED
    BY <2>1, <2>2
<1> QED
  BY <1>3, <1>4 DEF Start, WaiterHolds, DoneMeansEnded, NothingLeft, SamplesConserved

\* drain() returns what is in the buffer, behind what earlier drains returned.
LEMMA DrainTakesInv ==
  ASSUME BufferAssumption, BufferInv, DrainTakes
  PROVE  BufferInv'
<1> USE DEF BufferInv, BufferTypeOK
<1> DEFINE N == Batch * MaxStarts
<1>1. taken' = taken \o items /\ items' = << >> /\ taken' \in Seq(1 .. N)
  BY DEF DrainTakes, Snapshot
<1>2. taken' \o items' = taken'
  BY <1>1, ConcatEmptySeq
<1>3. SamplesConserved'
  BY <1>1, <1>2 DEF SamplesConserved, DrainTakes, BufferAssumption
<1>4. BufferTypeOK'
  BY <1>1 DEF DrainTakes, Woken
<1> QED
  BY <1>3, <1>4 DEF DrainTakes, Woken, WaiterHolds, WithinRuns, DoneMeansEnded, NothingLeft

\* The trainer's other steps move only the trainer.
LEMMA TrainerInv ==
  ASSUME BufferAssumption, BufferInv,
         \/ Start \/ \E n \in MinCounts : Drain(n)
         \/ DrainStep \/ DrainTimeout \/ Handled \/ Join
  PROVE  BufferInv'
<1> DEFINE Moves == \E place \in {"idle", "look", "waiting", "again", "raised"}, n \in Nat :
                      /\ trainer' = place /\ minCount' = n
                      /\ UNCHANGED <<heldVars, producerVars, starts, taken>>
<1>1. Start \/ DrainTakes \/ Moves
  <2>1. minCount \in Nat
    BY DEF BufferInv, BufferTypeOK
  <2>2. ASSUME NEW n \in MinCounts, Drain(n) PROVE Moves
    BY <2>2 DEF Drain, BufferAssumption
  <2>3. DrainWait \/ DrainTimeout \/ DrainRaises \/ Handled \/ Join => Moves
    BY <2>1 DEF DrainWait, DrainTimeout, DrainRaises, Handled, Join
  <2> QED
    BY <2>2, <2>3 DEF DrainStep
<1>2. CASE Moves
  BY <1>2 DEF BufferInv, BufferTypeOK, heldVars, producerVars, WaiterHolds, WithinRuns,
              DoneMeansEnded, NothingLeft, SamplesConserved
<1> QED
  BY <1>1, <1>2, StartInv, DrainTakesInv

\* Every step, and every stutter, keeps the invariant.
LEMMA NextInv ==
  ASSUME BufferAssumption, BufferInv, [BufferNext]_bufferVars
  PROVE  BufferInv'
<1>1. CASE BufferNext
  BY <1>1, ProducerInv, TrainerInv DEF BufferNext
<1>2. CASE UNCHANGED bufferVars
  BY <1>2 DEF bufferVars, heldVars, producerVars, trainerVars, BufferInv, BufferTypeOK, WaiterHolds,
              WithinRuns, DoneMeansEnded, NothingLeft, SamplesConserved
<1> QED
  BY <1>1, <1>2

----------------------------------------------------------------------------
(* The theorems. *)

\* The parts of the buffer's invariant hold in every state a producer and a trainer reach.
THEOREM BufferInvariant ==
  ASSUME BufferAssumption
  PROVE  BufferSpec => []BufferInv
<1>1. BufferInit => BufferInv
  BY InitBuffer
<1>2. BufferInv /\ [BufferNext]_bufferVars => BufferInv'
  BY NextInv
<1> QED
  BY <1>1, <1>2, PTL DEF BufferSpec

\* The entries, the flags, the counters and the places of both threads keep their types.
THEOREM BufferTypes ==
  ASSUME BufferAssumption
  PROVE  BufferSpec => []BufferTypeOK
<1>1. BufferInv => BufferTypeOK
  BY DEF BufferInv
<1> QED
  BY <1>1, BufferInvariant, PTL

\* No sample is lost, repeated or put out of order between add() and drain(), whatever waits,
\* times out, raises or is started again, and the buffer holds at most max_size of them.
THEOREM BufferConserves ==
  ASSUME BufferAssumption
  PROVE  BufferSpec => []SamplesConserved
<1>1. BufferInv => SamplesConserved
  BY DEF BufferInv
<1> QED
  BY <1>1, BufferInvariant, PTL

\* A drain that comes back with less than its min_count found the producer's run at its end:
\* start() cleared the done event of the run before.
THEOREM BufferDrainsEnough ==
  ASSUME BufferAssumption
  PROVE  BufferSpec => DrainsEnough
<1> DEFINE Enough2 ==
      (trainer \in {"look", "again"} /\ trainer' = "idle") =>
         (Len(taken') - Len(taken) >= minCount \/ producer \in {"none", "ends"})
<1>1. BufferInv /\ [BufferNext]_bufferVars => [Enough2]_bufferVars
  <2> SUFFICES ASSUME BufferInv, BufferNext, trainer \in {"look", "again"}, trainer' = "idle"
               PROVE  Enough2
    BY DEF Enough2
  <2>1. DrainTakes
    <3>1. ~ProducerStep
      BY DEF ProducerStep, AddLook, AddWait, ProducerReturns, ProducerRaises, RecordError,
             ProducerDone, ProducerEnds, Woken, trainerVars
    <3> QED
      BY <3>1 DEF BufferNext, Start, Drain, DrainStep, DrainWait, DrainRaises, DrainTimeout,
                  Handled, Join
  <2>2. Len(taken') = Len(taken) + Len(items)
    BY <2>1 DEF DrainTakes, Snapshot, BufferInv, BufferTypeOK
  <2>3. Len(items) >= minCount \/ finished
    BY <2>1 DEF DrainTakes, Enough
  <2> QED
    BY <2>2, <2>3 DEF BufferInv, BufferTypeOK, DoneMeansEnded
<1> QED
  BY <1>1, BufferInvariant, PTL DEF BufferSpec, DrainsEnough

----------------------------------------------------------------------------
(* PagedKV. *)

\* The row that holds position p of a request in a layer.
Row(l, r, p) == cells[l][blocks[r][p \div BlockSize + 1]][p % BlockSize]

\* The table of r has a block for position p.
Covers(r, p) == p \div BlockSize < Len(blocks[r])

\* What a forward or a free_table that is under way operates on.
OpOK ==
    /\ op = "none" => layer = 0 /\ at = 0
    /\ op # "none" => req \in Request
    /\ op = "append" => at <= Len(chunk)
    /\ op = "free" => layer = 0 /\ at <= Len(blocks[req])

\* Recorded rows are covered by the table and hold what the layer was fed.
Recorded ==
    \A r \in Request, l \in Layer :
        /\ Len(fed[r][l]) = lengths[r][l]
        /\ \A p \in 0 .. lengths[r][l] - 1 :
             Covers(r, p) /\ Row(l, r, p) = fed[r][l][p + 1]

\* So do the rows written by the append under way, which no length records yet.
InProgress ==
    op = "append" =>
        \A k \in 0 .. at - 1 :
            /\ Covers(req, lengths[req][layer] + k)
            /\ Row(layer, req, lengths[req][layer] + k) = chunk[k + 1]

\* PoolPartition and NoAliasing are inductive with the type invariant alone; that
\* rows are never overwritten needs both of them and the rows in progress.
PoolInv == TypeOK /\ OpOK /\ PoolPartition /\ NoAliasing

Inv == PoolInv /\ Recorded /\ InProgress

----------------------------------------------------------------------------

HIDE SpecAssumption
USE PagedAssumption

LEMMA BlockOfPosition ==
    ASSUME NEW p \in Nat
    PROVE  p \div BlockSize \in Nat /\ p % BlockSize \in Offset
BY SMT DEF Offset

LEMMA PlaceIsUnique ==
    ASSUME NEW p \in Nat, NEW q \in Nat, p # q, p \div BlockSize = q \div BlockSize
    PROVE  p % BlockSize # q % BlockSize
BY SMT

\* A position is in the block of the one before it or in the next block.
LEMMA NextBlock ==
    ASSUME NEW p \in Nat
    PROVE  /\ p = 0 => p \div BlockSize = 0
           /\ p # 0 => p \div BlockSize <= (p - 1) \div BlockSize + 1
BY SMT

LEMMA InitInv == Init => Inv
<1> SUFFICES ASSUME Init PROVE Inv
  OBVIOUS
<1>1. TypeOK
  BY DEF Init, TypeOK, Layer, Block, Offset
<1>2. OpOK /\ InProgress
  BY DEF Init, OpOK, InProgress
<1>3. PoolPartition
  BY DEF Init, PoolPartition, Block
<1>4. NoAliasing
  BY DEF Init, NoAliasing, Held
<1>5. Recorded
  BY DEF Init, Recorded
<1> QED
  BY <1>1, <1>2, <1>3, <1>4, <1>5 DEF Inv, PoolInv

\* The block a token is written to is in the pool and its place in a block.
LEMMA PositionOK ==
    ASSUME TypeOK, OpOK, op = "append"
    PROVE  /\ req \in Request
           /\ Pos \in Nat
           /\ Pos \div BlockSize \in Nat
           /\ Pos % BlockSize \in Offset
           /\ ~PastTable => /\ Pos \div BlockSize + 1 \in 1 .. Len(blocks[req])
                            /\ blocks[req][Pos \div BlockSize + 1] \in Block
<1>1. req \in Request /\ lengths[req][layer] \in Nat /\ at \in Nat
  BY DEF TypeOK, OpOK
<1>2. Pos \in Nat
  BY <1>1 DEF Pos
<1>3. Pos \div BlockSize \in Nat /\ Pos % BlockSize \in Offset
  BY <1>2, BlockOfPosition
<1>4. blocks[req] \in Seq(Block)
  BY <1>1 DEF TypeOK
<1> QED
  BY <1>1, <1>2, <1>3, <1>4 DEF PastTable

LEMMA TypeStep == TypeOK /\ OpOK /\ [Next]_vars => TypeOK' /\ OpOK'
<1> SUFFICES ASSUME TypeOK, OpOK, [Next]_vars PROVE TypeOK' /\ OpOK'
  OBVIOUS
<1>0. 0 \in Layer /\ 0 \in Nat
  BY DEF Layer
<1>1. ASSUME NEW r \in Request, NEW new \in Chunk, Forward(r, new)
      PROVE  TypeOK' /\ OpOK'
  <2>1. new \in Seq(Token)
    OBVIOUS
  <2> QED
    BY <1>1, <2>1 DEF Forward, TypeOK, OpOK
<1>2. CASE AppendToken
  <2>1. op = "append" /\ at < Len(chunk) /\ ~PastTable
    BY <1>2 DEF AppendToken, Appending
  <2> DEFINE b == blocks[req][Pos \div BlockSize + 1]
  <2>2. b \in Block /\ Pos % BlockSize \in Offset /\ req \in Request
    BY <2>1, PositionOK
  <2>3. chunk[at + 1] \in Token /\ at + 1 \in Nat /\ at + 1 <= Len(chunk)
    BY <2>1 DEF TypeOK
  <2>4. cells' \in [Layer -> [Block -> [Offset -> Token \cup {Zero}]]]
    BY <1>2, <2>2, <2>3 DEF AppendToken, Write, TypeOK
  <2> QED
    BY <1>2, <2>1, <2>2, <2>3, <2>4 DEF AppendToken, Write, TypeOK, OpOK
<1>3. CASE AppendAllocating
  <2>1. op = "append" /\ at < Len(chunk) /\ PastTable /\ free # <<>>
    BY <1>3 DEF AppendAllocating, Appending
  <2> DEFINE new == free[Len(free)]
  <2> DEFINE table == Append(blocks[req], new)
  <2>2. new \in Block /\ SubSeq(free, 1, Len(free) - 1) \in Seq(Block)
    BY <2>1 DEF TypeOK
  <2>3. req \in Request /\ Pos % BlockSize \in Offset /\ blocks[req] \in Seq(Block)
    BY <2>1, PositionOK DEF TypeOK
  <2>4. table \in Seq(Block)
    BY <2>2, <2>3
  <2>5. chunk[at + 1] \in Token /\ at + 1 \in Nat /\ at + 1 <= Len(chunk)
    BY <2>1 DEF TypeOK
  <2>6. ASSUME NEW b
        PROVE  [cells EXCEPT ![layer][b][Pos % BlockSize] = chunk[at + 1]]
                 \in [Layer -> [Block -> [Offset -> Token \cup {Zero}]]]
    <3>1. CASE b \in Block
      BY <2>3, <2>5, <3>1 DEF TypeOK
    <3>2. CASE b \notin Block
      <4>1. cells[layer] \in [Block -> [Offset -> Token \cup {Zero}]]
        BY DEF TypeOK
      <4>2. ASSUME NEW x PROVE [cells[layer] EXCEPT ![b] = x] = cells[layer]
        BY <3>2, <4>1
      <4>3. ASSUME NEW x PROVE [cells EXCEPT ![layer][b][Pos % BlockSize] = x] = cells
        <5>1. [cells EXCEPT ![layer][b][Pos % BlockSize] = x]
                = [cells EXCEPT ![layer] = cells[layer]]
          BY <4>2 DEF TypeOK
        <5> QED
          BY <5>1 DEF TypeOK
      <4> QED
        BY <4>3 DEF TypeOK
    <3> QED
      BY <3>1, <3>2
  <2>7. cells' \in [Layer -> [Block -> [Offset -> Token \cup {Zero}]]]
    BY <1>3, <2>6 DEF AppendAllocating, Write
  <2>8. blocks' \in [Request -> Seq(Block)] /\ allocated' \in SUBSET Block
        /\ free' \in Seq(Block)
    BY <1>3, <2>2, <2>4 DEF AppendAllocating, TypeOK
  <2>9. UNCHANGED <<lengths, op, req, chunk, layer, fed>> /\ at' = at + 1
    BY <1>3 DEF AppendAllocating, Write
  <2> QED
    BY <2>1, <2>3, <2>5, <2>7, <2>8, <2>9 DEF TypeOK, OpOK
<1>4. CASE Exhausted
  BY <1>0, <1>4 DEF Exhausted, OpEnds, TypeOK, OpOK
<1>5. CASE EndLayer
  <2>1. op = "append" /\ req \in Request /\ layer \in Layer
    BY <1>5 DEF EndLayer, TypeOK, OpOK
  <2>2. Len(chunk) \in Nat /\ fed[req][layer] \o chunk \in Seq(Token)
    BY <2>1 DEF TypeOK
  <2>3. lengths' \in [Request -> [Layer -> Nat]]
    BY <1>5, <2>1, <2>2 DEF EndLayer, TypeOK
  <2>4. fed' \in [Request -> [Layer -> Seq(Token)]]
    BY <1>5, <2>1, <2>2 DEF EndLayer, TypeOK
  <2>5. CASE MoreLayers
    <3>1. layer + 1 \in Layer
      BY <2>1, <2>5 DEF Layer, MoreLayers
    <3> QED
      BY <1>5, <2>1, <2>2, <2>3, <2>4, <2>5, <3>1 DEF EndLayer, TypeOK, OpOK
  <2>6. CASE ~MoreLayers
    BY <1>0, <1>5, <2>3, <2>4, <2>6 DEF EndLayer, OpEnds, TypeOK, OpOK
  <2> QED
    BY <2>5, <2>6
<1>6. ASSUME NEW r \in Request, FreeTable(r)
      PROVE  TypeOK' /\ OpOK'
  <2>1. Len(blocks[r]) \in Nat
    BY DEF TypeOK
  <2> QED
    BY <1>6, <2>1 DEF FreeTable, TypeOK, OpOK
<1>7. CASE FreeBlock
  <2>1. op = "free" /\ req \in Request /\ at < Len(blocks[req])
    BY <1>7 DEF FreeBlock, OpOK
  <2>2. blocks[req][at + 1] \in Block /\ at + 1 <= Len(blocks[req]) /\ at + 1 \in Nat
    BY <2>1 DEF TypeOK
  <2>3. free' \in Seq(Block) /\ allocated' \in SUBSET Block
    <3>1. free \in Seq(Block) /\ allocated \in SUBSET Block
      BY DEF TypeOK
    <3>2. CASE blocks[req][at + 1] \in allocated
      BY <1>7, <2>2, <3>1, <3>2 DEF FreeBlock
    <3>3. CASE blocks[req][at + 1] \notin allocated
      BY <1>7, <3>1, <3>3 DEF FreeBlock
    <3> QED
      BY <3>2, <3>3
  <2> QED
    BY <1>7, <2>1, <2>2, <2>3 DEF FreeBlock, TypeOK, OpOK
<1>8. CASE EndFree
  <2>0. <<>> \in Seq(Block) /\ <<>> \in Seq(Token)
    OBVIOUS
  <2>1. blocks' \in [Request -> Seq(Block)]
    BY <1>8, <2>0 DEF EndFree, TypeOK
  <2>2. lengths' \in [Request -> [Layer -> Nat]]
    BY <1>0, <1>8 DEF EndFree, TypeOK
  <2>3. fed' \in [Request -> [Layer -> Seq(Token)]]
    <3>1. [l \in Layer |-> <<>>] \in [Layer -> Seq(Token)]
      BY <2>0
    <3> QED
      BY <1>8, <3>1 DEF EndFree, TypeOK
  <2> QED
    BY <1>0, <1>8, <2>1, <2>2, <2>3 DEF EndFree, OpEnds, TypeOK, OpOK
<1>9. CASE UNCHANGED vars
  BY <1>9 DEF vars, opVars, TypeOK, OpOK
<1> QED
  BY <1>1, <1>2, <1>3, <1>4, <1>5, <1>6, <1>7, <1>8, <1>9 DEF Next

----------------------------------------------------------------------------
(***************************************************************************)
(* The pool: blocks are neither lost nor shared.                           *)
(***************************************************************************)

\* A step that touches neither the pool nor a table, and is not part of a
\* free_table, leaves the held entries as they are.
LEMMA QuietStep ==
    ASSUME TypeOK, PoolPartition, NoAliasing,
           UNCHANGED <<free, allocated, blocks>>,
           op # "free",
           op' = "free" => at' = 0
    PROVE  PoolPartition' /\ NoAliasing'
<1>1. \A r \in Request : Held(r)' = Held(r)
  BY DEF Held, TypeOK
<1>2. PoolPartition'
  BY DEF PoolPartition
<1> QED
  BY <1>1, <1>2 DEF NoAliasing

LEMMA AppendFacts ==
    ASSUME NEW S, NEW s \in Seq(S), NEW x \in S
    PROVE  /\ Len(Append(s, x)) = Len(s) + 1
           /\ Append(s, x)[Len(s) + 1] = x
           /\ \A i \in 1 .. Len(s) : Append(s, x)[i] = s[i]
  OBVIOUS

LEMMA ConcatFacts ==
    ASSUME NEW S, NEW s \in Seq(S), NEW t \in Seq(S)
    PROVE  /\ Len(s \o t) = Len(s) + Len(t)
           /\ \A i \in 1 .. Len(s) : (s \o t)[i] = s[i]
           /\ \A i \in 1 .. Len(t) : (s \o t)[Len(s) + i] = t[i]
<1>1. Len(s \o t) = Len(s) + Len(t)
  OBVIOUS
<1>2. ASSUME NEW i \in 1 .. Len(s) PROVE (s \o t)[i] = s[i]
  OBVIOUS
<1>3. ASSUME NEW i \in 1 .. Len(t) PROVE (s \o t)[Len(s) + i] = t[i]
  OBVIOUS
<1> QED
  BY <1>1, <1>2, <1>3

LEMMA PrefixFacts ==
    ASSUME NEW S, NEW s \in Seq(S), NEW n \in 0 .. Len(s)
    PROVE  /\ Len(SubSeq(s, 1, n)) = n
           /\ \A i \in 1 .. n : SubSeq(s, 1, n)[i] = s[i]
<1>1. Len(SubSeq(s, 1, n)) = n
  BY Z3
<1>2. ASSUME NEW i \in 1 .. n PROVE SubSeq(s, 1, n)[i] = s[i]
  BY Z3
<1> QED
  BY <1>1, <1>2

LEMMA AllocateStep ==
    ASSUME TypeOK, OpOK, PoolPartition, NoAliasing, AppendAllocating
    PROVE  PoolPartition' /\ NoAliasing'
<1> DEFINE n == Len(free)
<1> DEFINE new == free[n]
<1> DEFINE m == Len(blocks[req])
<1>1. /\ op = "append" /\ op' = op /\ req \in Request /\ req' = req
      /\ free \in Seq(Block) /\ n \in Nat /\ n > 0
      /\ blocks[req] \in Seq(Block) /\ m \in Nat
  BY DEF AppendAllocating, Appending, TypeOK, OpOK
<1>2. /\ new \in Block /\ new \notin allocated
      /\ free' = SubSeq(free, 1, n - 1)
      /\ allocated' = allocated \cup {new}
      /\ blocks' = [blocks EXCEPT ![req] = Append(blocks[req], new)]
  BY <1>1 DEF AppendAllocating, PoolPartition
<1>3. Len(free') = n - 1 /\ \A i \in 1 .. n - 1 : free'[i] = free[i]
  <2>1. n - 1 \in 0 .. n
    BY <1>1
  <2> QED
    BY <1>1, <1>2, <2>1, PrefixFacts
<1>4. /\ blocks'[req] = Append(blocks[req], new)
      /\ Len(blocks'[req]) = m + 1
      /\ \A i \in 1 .. m : blocks'[req][i] = blocks[req][i]
      /\ blocks'[req][m + 1] = new
      /\ \A r \in Request : r # req => blocks'[r] = blocks[r]
  <2>1. blocks \in [Request -> Seq(Block)]
    BY DEF TypeOK
  <2>2. blocks'[req] = Append(blocks[req], new)
    BY <1>1, <1>2, <2>1
  <2>3. \A r \in Request : r # req => blocks'[r] = blocks[r]
    BY <1>1, <1>2, <2>1
  <2>4. /\ Len(Append(blocks[req], new)) = m + 1
        /\ \A i \in 1 .. m : Append(blocks[req], new)[i] = blocks[req][i]
        /\ Append(blocks[req], new)[m + 1] = new
    BY <1>1, <1>2, AppendFacts
  <2> QED
    BY <2>2, <2>3, <2>4
<1>5. PoolPartition'
  <2>1. \A i, j \in 1 .. n - 1 : free'[i] = free'[j] => i = j
    BY <1>1, <1>3 DEF PoolPartition
  <2>2. \A i \in 1 .. n - 1 : free'[i] \notin allocated'
    BY <1>1, <1>2, <1>3 DEF PoolPartition
  <2>3. ASSUME NEW b \in Block, b \notin allocated'
        PROVE  \E i \in 1 .. n - 1 : free'[i] = b
    <3>1. PICK i \in 1 .. n : free[i] = b
      BY <1>2, <2>3 DEF PoolPartition
    <3>2. i # n
      BY <1>2, <2>3, <3>1
    <3> QED
      BY <1>1, <1>3, <3>1, <3>2
  <2> QED
    BY <1>3, <2>1, <2>2, <2>3 DEF PoolPartition
<1>6. /\ \A r \in Request : Held(r) = 1 .. Len(blocks[r])
      /\ \A r \in Request : Held(r)' = 1 .. Len(blocks'[r])
  BY <1>1 DEF Held
<1>7. \A r \in Request : \A i \in Held(r)' :
         \/ i \in Held(r) /\ blocks'[r][i] = blocks[r][i]
         \/ r = req /\ i = m + 1 /\ blocks'[r][i] = new
  <2>1. ASSUME NEW r \in Request, r = req, NEW i \in Held(r)'
        PROVE  \/ i \in Held(r) /\ blocks'[r][i] = blocks[r][i]
               \/ i = m + 1 /\ blocks'[r][i] = new
    <3>1. Held(r) = 1 .. m /\ Held(r)' = 1 .. m + 1
      BY <1>4, <1>6, <2>1
    <3>2. i \in 1 .. m \/ i = m + 1
      BY <1>1, <2>1, <3>1
    <3> QED
      BY <1>4, <2>1, <3>1, <3>2
  <2>2. \A r \in Request : r # req => Held(r)' = Held(r) /\ blocks'[r] = blocks[r]
    BY <1>4, <1>6
  <2> QED
    BY <2>1, <2>2
<1> HIDE DEF new, m
<1>bb. new \notin allocated /\ allocated' = allocated \cup {new}
  BY <1>2
<1>aa. \A r \in Request : \A i \in Held(r) :
         blocks[r][i] \in allocated /\ blocks[r][i] # new
  BY <1>bb DEF NoAliasing
<1>8. ASSUME NEW r \in Request, NEW i \in Held(r)'
      PROVE  blocks'[r][i] \in allocated'
  <2>1. CASE i \in Held(r) /\ blocks'[r][i] = blocks[r][i]
    BY <1>aa, <1>bb, <2>1
  <2>2. CASE blocks'[r][i] = new
    BY <1>bb, <2>2
  <2> QED
    BY <1>7, <2>1, <2>2
<1>9. ASSUME NEW r \in Request, NEW s \in Request,
             NEW i \in Held(r)', NEW j \in Held(s)',
             blocks'[r][i] = blocks'[s][j]
      PROVE  r = s /\ i = j
  <2>1. CASE i \in Held(r) /\ blocks'[r][i] = blocks[r][i]
    <3>1. blocks'[s][j] # new
      BY <1>9, <1>aa, <2>1
    <3>2. j \in Held(s) /\ blocks'[s][j] = blocks[s][j]
      BY <1>7, <3>1
    <3>3. blocks[r][i] = blocks[s][j]
      BY <1>9, <2>1, <3>2
    <3> QED
      BY <2>1, <3>2, <3>3 DEF NoAliasing
  <2>2. CASE r = req /\ i = m + 1 /\ blocks'[r][i] = new
    BY <1>7, <1>9, <1>aa, <2>2
  <2> QED
    BY <1>7, <2>1, <2>2
<1>10. ASSUME NEW b \in allocated'
       PROVE  \E r \in Request : \E i \in Held(r)' : blocks'[r][i] = b
  <2>1. CASE b = new
    BY <1>1, <1>4, <1>6, <2>1
  <2>2. CASE b # new
    <3>1. PICK r \in Request : \E i \in Held(r) : blocks[r][i] = b
      BY <1>2, <2>2 DEF NoAliasing
    <3>2. PICK i \in Held(r) : blocks[r][i] = b
      BY <3>1
    <3>3. i \in Held(r)' /\ blocks'[r][i] = b
      <4>1. CASE r = req
        <5>1. Held(r) = 1 .. m /\ Held(r)' = 1 .. m + 1
          BY <1>4, <1>6, <4>1 DEF m
        <5>2. i \in 1 .. m /\ i \in 1 .. m + 1
          BY <1>1, <3>2, <5>1 DEF m
        <5> QED
          BY <1>4, <3>2, <4>1, <5>1, <5>2
      <4>2. CASE r # req
        BY <1>4, <1>6, <3>2, <4>2
      <4> QED
        BY <4>1, <4>2
    <3> QED
      BY <3>3
  <2> QED
    BY <2>1, <2>2
<1> QED
  BY <1>5, <1>8, <1>9, <1>10 DEF NoAliasing

LEMMA FreeBlockStep ==
    ASSUME TypeOK, OpOK, PoolPartition, NoAliasing, FreeBlock
    PROVE  PoolPartition' /\ NoAliasing'
<1> DEFINE n == Len(free)
<1> DEFINE b == blocks[req][at + 1]
<1>1. /\ op = "free" /\ op' = op /\ req \in Request /\ req' = req
      /\ at \in Nat /\ at' = at + 1 /\ at < Len(blocks[req])
      /\ blocks' = blocks /\ blocks[req] \in Seq(Block) /\ Len(blocks[req]) \in Nat
      /\ free \in Seq(Block) /\ n \in Nat
  BY DEF FreeBlock, TypeOK, OpOK
<1>2. at + 1 \in Held(req) /\ b \in allocated /\ b \in Block
  BY <1>1 DEF Held, NoAliasing, TypeOK
<1>3. free' = Append(free, b) /\ allocated' = allocated \ {b}
  BY <1>2 DEF FreeBlock
<1>4. /\ Len(free') = n + 1 /\ free'[n + 1] = b
      /\ \A i \in 1 .. n : free'[i] = free[i]
  BY <1>1, <1>2, <1>3
<1>5. PoolPartition'
  <2>1. \A i \in 1 .. n : free[i] # b
    BY <1>2 DEF PoolPartition
  <2>2. \A i, j \in 1 .. n + 1 : free'[i] = free'[j] => i = j
    BY <1>1, <1>4, <2>1, SMTT(30) DEF PoolPartition
  <2>3. \A i \in 1 .. n + 1 : free'[i] \notin allocated'
    BY <1>1, <1>3, <1>4 DEF PoolPartition
  <2>4. ASSUME NEW c \in Block, c \notin allocated'
        PROVE  \E i \in 1 .. n + 1 : free'[i] = c
    <3>1. CASE c = b
      BY <1>1, <1>4, <3>1
    <3>2. CASE c # b
      <4>1. PICK i \in 1 .. n : free[i] = c
        BY <1>3, <2>4, <3>2 DEF PoolPartition
      <4> QED
        BY <1>1, <1>4, <4>1
    <3> QED
      BY <3>1, <3>2
  <2> QED
    BY <1>4, <2>2, <2>3, <2>4 DEF PoolPartition
<1>6. \A r \in Request : \A i :
         i \in Held(r)' <=> i \in Held(r) /\ ~(r = req /\ i = at + 1)
  BY <1>1 DEF Held
<1>7. \A r \in Request : \A i \in Held(r)' : blocks[r][i] # b
  BY <1>1, <1>2, <1>6 DEF NoAliasing
<1>8. \A r \in Request : \A i \in Held(r)' : blocks'[r][i] \in allocated'
  BY <1>1, <1>3, <1>6, <1>7 DEF NoAliasing
<1>9. \A r, s \in Request : \A i \in Held(r)', j \in Held(s)' :
         blocks'[r][i] = blocks'[s][j] => r = s /\ i = j
  BY <1>1, <1>6 DEF NoAliasing
<1>10. ASSUME NEW c \in allocated'
       PROVE  \E r \in Request : \E i \in Held(r)' : blocks'[r][i] = c
  <2>1. c \in allocated /\ c # b
    BY <1>3
  <2>2. PICK r \in Request : \E i \in Held(r) : blocks[r][i] = c
    BY <2>1 DEF NoAliasing
  <2>3. PICK i \in Held(r) : blocks[r][i] = c
    BY <2>2
  <2>4. i \in Held(r)' /\ blocks'[r][i] = c
    BY <1>1, <1>6, <2>1, <2>3
  <2> QED
    BY <2>4
<1> QED
  BY <1>5, <1>8, <1>9, <1>10 DEF NoAliasing

LEMMA EndFreeStep ==
    ASSUME TypeOK, OpOK, PoolPartition, NoAliasing, EndFree
    PROVE  PoolPartition' /\ NoAliasing'
<1>1. /\ op = "free" /\ op' = "none" /\ req \in Request
      /\ at = Len(blocks[req]) /\ Len(blocks[req]) \in Nat
      /\ blocks' = [blocks EXCEPT ![req] = <<>>]
      /\ free' = free /\ allocated' = allocated
  BY DEF EndFree, OpEnds, TypeOK, OpOK
<1>2. \A r \in Request : Held(r)' = Held(r)
  <2>0. blocks \in [Request -> Seq(Block)]
    BY DEF TypeOK
  <2>1. ASSUME NEW r \in Request, r # req PROVE Held(r)' = Held(r)
    <3>1. blocks'[r] = blocks[r]
      BY <1>1, <2>0, <2>1
    <3>2. Held(r) = 1 .. Len(blocks[r])
      BY <2>1 DEF Held
    <3>3. Held(r)' = 1 .. Len(blocks'[r])
      BY <1>1 DEF Held
    <3> QED
      BY <3>1, <3>2, <3>3
  <2>2. Held(req) = {}
    BY <1>1 DEF Held
  <2>3. ASSUME NEW r \in Request, r = req PROVE Held(r)' = {}
    <3>1. blocks'[r] = <<>> /\ Len(<<>>) = 0
      BY <1>1, <2>0, <2>3
    <3>2. Len(blocks'[r]) = 0
      BY <3>1
    <3>3. Held(r)' = 1 .. Len(blocks'[r])
      BY <1>1 DEF Held
    <3> QED
      BY <3>2, <3>3
  <2> QED
    BY <2>1, <2>2, <2>3
<1>3. \A r \in Request : \A i \in Held(r) : r # req /\ blocks'[r] = blocks[r]
  BY <1>1 DEF Held, TypeOK
<1>4. PoolPartition'
  BY <1>1 DEF PoolPartition
<1> QED
  BY <1>1, <1>2, <1>3, <1>4 DEF NoAliasing

LEMMA PoolStep == PoolInv /\ [Next]_vars => PoolInv'
<1> SUFFICES ASSUME PoolInv, [Next]_vars PROVE PoolPartition' /\ NoAliasing'
  BY TypeStep DEF PoolInv
<1> USE DEF PoolInv
<1>1. ASSUME NEW r \in Request, NEW new \in Chunk, Forward(r, new)
      PROVE  PoolPartition' /\ NoAliasing'
  BY <1>1, QuietStep DEF Forward
<1>2. CASE AppendToken
  BY <1>2, QuietStep DEF AppendToken, Appending
<1>3. CASE AppendAllocating
  BY <1>3, AllocateStep
<1>4. CASE Exhausted
  BY <1>4, QuietStep DEF Exhausted, Appending, OpEnds
<1>5. CASE EndLayer
  BY <1>5, QuietStep DEF EndLayer, OpEnds
<1>6. ASSUME NEW r \in Request, FreeTable(r)
      PROVE  PoolPartition' /\ NoAliasing'
  BY <1>6, QuietStep DEF FreeTable, OpOK
<1>7. CASE FreeBlock
  BY <1>7, FreeBlockStep
<1>8. CASE EndFree
  BY <1>8, EndFreeStep
<1>9. CASE UNCHANGED vars
  <2>1. \A r \in Request : Held(r)' = Held(r)
    BY <1>9 DEF vars, opVars, Held
  <2> QED
    BY <1>9, <2>1 DEF vars, opVars, PoolPartition, NoAliasing
<1> QED
  BY <1>1, <1>2, <1>3, <1>4, <1>5, <1>6, <1>7, <1>8, <1>9 DEF Next

\* The variables of the storage always have their types.
THEOREM PagedTypeCorrect == Spec => []TypeOK
<1>1. Init => PoolInv
  BY InitInv DEF Inv
<1>2. PoolInv => TypeOK
  BY DEF PoolInv
<1> QED
  BY <1>1, <1>2, PoolStep, PTL DEF Spec

\* For pools and page tables of any size, no block is ever lost, on the free list
\* twice or free and in use (allocate, free).
THEOREM BlocksConserved == Spec => []PoolPartition
<1>1. Init => PoolInv
  BY InitInv DEF Inv
<1>2. PoolInv => PoolPartition
  BY DEF PoolInv
<1> QED
  BY <1>1, <1>2, PoolStep, PTL DEF Spec

\* No two page-table entries ever name the same block, and every allocated block
\* is in some table, whatever appends failed half-way (append_tokens, free_table).
THEOREM TablesDisjoint == Spec => []NoAliasing
<1>1. Init => PoolInv
  BY InitInv DEF Inv
<1>2. PoolInv => NoAliasing
  BY DEF PoolInv
<1> QED
  BY <1>1, <1>2, PoolStep, PTL DEF Spec

----------------------------------------------------------------------------
(***************************************************************************)
(* The rows: nothing recorded is ever overwritten.                         *)
(***************************************************************************)

LEMMA OtherCells ==
    ASSUME NEW A, NEW B, NEW C, NEW V, NEW f \in [A -> [B -> [C -> V]]], NEW g,
           NEW a, NEW b, NEW c, NEW v, g = [f EXCEPT ![a][b][c] = v],
           NEW x \in A, NEW y \in B, NEW z \in C, ~(x = a /\ y = b /\ z = c)
    PROVE  g[x][y][z] = f[x][y][z]
OBVIOUS

\* Writing a row changes no other row of any table whose blocks are held once.
LEMMA WriteRow ==
    ASSUME TypeOK, OpOK, op = "append", at < Len(chunk),
           NEW table \in [Request -> Seq(Block)],
           \A r, s \in Request :
              \A i \in 1 .. Len(table[r]), j \in 1 .. Len(table[s]) :
                 table[r][i] = table[s][j] => r = s /\ i = j,
           Pos \div BlockSize < Len(table[req]),
           cells' = [cells EXCEPT ![layer][table[req][Pos \div BlockSize + 1]]
                                    [Pos % BlockSize] = chunk[at + 1]]
    PROVE  /\ cells'[layer][table[req][Pos \div BlockSize + 1]][Pos % BlockSize]
                = chunk[at + 1]
           /\ \A r \in Request, l \in Layer, p \in Nat :
                p \div BlockSize < Len(table[r]) /\ ~(r = req /\ l = layer /\ p = Pos)
                => cells'[l][table[r][p \div BlockSize + 1]][p % BlockSize]
                     = cells[l][table[r][p \div BlockSize + 1]][p % BlockSize]
<1> DEFINE b == table[req][Pos \div BlockSize + 1]
<1> DEFINE o == Pos % BlockSize
<1>1. /\ req \in Request /\ layer \in Layer /\ Pos \in Nat /\ o \in Offset
      /\ Pos \div BlockSize \in Nat
  BY PositionOK DEF TypeOK
<1>2. Pos \div BlockSize + 1 \in 1 .. Len(table[req]) /\ b \in Block
  BY <1>1
<1>3. cells \in [Layer -> [Block -> [Offset -> Token \cup {Zero}]]]
  BY DEF TypeOK
<1>4. ASSUME NEW l \in Layer, NEW c \in Block, NEW q \in Offset
      PROVE  cells'[l][c][q] = IF l = layer /\ c = b /\ q = o
                               THEN chunk[at + 1] ELSE cells[l][c][q]
  <2> HIDE DEF b, o
  <2>1. cells' = [cells EXCEPT ![layer][b][o] = chunk[at + 1]]
    BY DEF b, o
  <2> QED
    BY <1>1, <1>2, <1>3, <2>1
<1>5. cells'[layer][b][o] = chunk[at + 1]
  BY <1>1, <1>2, <1>4
<1>6. ASSUME NEW r \in Request, NEW l \in Layer, NEW p \in Nat,
             p \div BlockSize < Len(table[r]),
             ~(r = req /\ l = layer /\ p = Pos)
      PROVE  cells'[l][table[r][p \div BlockSize + 1]][p % BlockSize]
               = cells[l][table[r][p \div BlockSize + 1]][p % BlockSize]
  <2> DEFINE c == table[r][p \div BlockSize + 1]
  <2>1. p \div BlockSize \in Nat /\ p % BlockSize \in Offset
    BY BlockOfPosition
  <2>2. p \div BlockSize + 1 \in 1 .. Len(table[r]) /\ c \in Block
    BY <1>6, <2>1
  <2>3. ~(l = layer /\ c = b /\ p % BlockSize = o)
    <3> SUFFICES ASSUME l = layer, c = b PROVE p % BlockSize # o
      OBVIOUS
    <3>1. r = req /\ p \div BlockSize + 1 = Pos \div BlockSize + 1
      BY <1>1, <1>2, <2>2
    <3>2. p # Pos /\ p \div BlockSize = Pos \div BlockSize
      BY <1>1, <1>6, <2>1, <3>1
    <3> QED
      BY <1>1, <3>2, PlaceIsUnique
  <2> HIDE DEF b, o, c
  <2> DEFINE q == p % BlockSize
  <2>4. cells'[l][c][q] = cells[l][c][q]
    <3>1. l \in Layer /\ c \in Block /\ q \in Offset /\ ~(l = layer /\ c = b /\ q = o)
      BY <2>1, <2>2, <2>3
    <3>2. cells' = [cells EXCEPT ![layer][b][o] = chunk[at + 1]]
      BY DEF b, o
    <3> HIDE DEF q
    <3> QED
      BY <1>3, <3>1, <3>2, OtherCells
  <2> QED
    BY <2>4 DEF c
<1> DEFINE Stays(r, l, p) ==
      cells'[l][table[r][p \div BlockSize + 1]][p % BlockSize]
        = cells[l][table[r][p \div BlockSize + 1]][p % BlockSize]
<1>7. ASSUME NEW r \in Request, NEW l \in Layer, NEW p \in Nat
      PROVE  p \div BlockSize < Len(table[r]) /\ ~(r = req /\ l = layer /\ p = Pos)
               => Stays(r, l, p)
  BY <1>6, ZenonT(60)
<1> HIDE DEF Stays
<1>8. \A r \in Request, l \in Layer, p \in Nat :
        p \div BlockSize < Len(table[r]) /\ ~(r = req /\ l = layer /\ p = Pos)
          => Stays(r, l, p)
  BY <1>7
<1> QED
  BY <1>5, <1>8, Zenon DEF Stays

\* A step that writes the next token of the append under way into tables that
\* extend those there are.
WritesNext ==
    /\ blocks' \in [Request -> Seq(Block)]
    /\ \A r \in Request : /\ Len(blocks[r]) <= Len(blocks'[r])
                         /\ \A i \in 1 .. Len(blocks[r]) : blocks'[r][i] = blocks[r][i]
    /\ \A r, s \in Request :
          \A i \in 1 .. Len(blocks'[r]), j \in 1 .. Len(blocks'[s]) :
             blocks'[r][i] = blocks'[s][j] => r = s /\ i = j
    /\ Pos \div BlockSize < Len(blocks'[req])
    /\ cells' = [cells EXCEPT ![layer][blocks'[req][Pos \div BlockSize + 1]]
                                [Pos % BlockSize] = chunk[at + 1]]
    /\ at' = at + 1
    /\ UNCHANGED <<lengths, op, req, chunk, layer, fed>>

\* The rows that Recorded and InProgress speak of are not the one written next.
LEMMA RowsKept ==
    ASSUME TypeOK, OpOK, Recorded, InProgress, Appending, WritesNext
    PROVE  Recorded' /\ InProgress'
<1>1. /\ op = "append" /\ at < Len(chunk) /\ at \in Nat /\ Len(chunk) \in Nat
      /\ req \in Request /\ layer \in Layer /\ Pos = lengths[req][layer] + at
      /\ lengths[req][layer] \in Nat
      /\ \A r \in Request, l \in Layer : lengths[r][l] \in Nat
      /\ blocks \in [Request -> Seq(Block)]
  <2>1. op = "append" /\ at < Len(chunk)
    BY DEF Appending
  <2>2. req \in Request
    BY <2>1, PositionOK
  <2>3. chunk \in Seq(Token) /\ at \in Nat /\ layer \in Layer
        /\ blocks \in [Request -> Seq(Block)] /\ lengths \in [Request -> [Layer -> Nat]]
    BY DEF TypeOK
  <2>4. Len(chunk) \in Nat
    BY <2>3
  <2>5. \A r \in Request, l \in Layer : lengths[r][l] \in Nat
    BY <2>3
  <2> QED
    BY <2>1, <2>2, <2>3, <2>4, <2>5 DEF Pos
<1>w. /\ cells'[layer][blocks'[req][Pos \div BlockSize + 1]][Pos % BlockSize]
           = chunk[at + 1]
      /\ \A r \in Request, l \in Layer, p \in Nat :
           p \div BlockSize < Len(blocks'[r]) /\ ~(r = req /\ l = layer /\ p = Pos)
           => cells'[l][blocks'[r][p \div BlockSize + 1]][p % BlockSize]
                = cells[l][blocks'[r][p \div BlockSize + 1]][p % BlockSize]
  BY <1>1, WriteRow DEF WritesNext
<1> DEFINE New(r, l, p) == cells'[l][blocks'[r][p \div BlockSize + 1]][p % BlockSize]
<1> DEFINE Old(r, l, p) == cells[l][blocks'[r][p \div BlockSize + 1]][p % BlockSize]
<1>o. ASSUME NEW r \in Request, NEW l \in Layer, NEW p \in Nat,
             p \div BlockSize < Len(blocks'[r]), ~(r = req /\ l = layer /\ p = Pos)
      PROVE  New(r, l, p) = Old(r, l, p)
  BY <1>o, <1>w
<1> HIDE DEF Old
<1>2. ASSUME NEW r \in Request, NEW l \in Layer, NEW p \in Nat, Covers(r, p),
             ~(r = req /\ l = layer /\ p = Pos)
      PROVE  p \div BlockSize < Len(blocks'[r]) /\ New(r, l, p) = Row(l, r, p)
  <2>a. blocks[r] \in Seq(Block) /\ blocks'[r] \in Seq(Block)
    BY <1>1 DEF WritesNext
  <2>b. p \div BlockSize < Len(blocks[r]) /\ Len(blocks[r]) <= Len(blocks'[r])
    BY <1>2 DEF Covers, WritesNext
  <2>1. /\ p \div BlockSize \in Nat
        /\ Len(blocks[r]) \in Nat /\ Len(blocks'[r]) \in Nat
        /\ p \div BlockSize < Len(blocks[r])
        /\ Len(blocks[r]) <= Len(blocks'[r])
    <3>1. \A s \in Seq(Block) : Len(s) \in Nat
      OBVIOUS
    <3> QED
      BY <2>a, <2>b, <3>1, BlockOfPosition, ZenonT(30)
  <2>2. p \div BlockSize < Len(blocks'[r]) /\ p \div BlockSize + 1 \in 1 .. Len(blocks[r])
    BY <2>1
  <2>3. blocks'[r][p \div BlockSize + 1] = blocks[r][p \div BlockSize + 1]
    BY <2>2 DEF WritesNext
  <2>4. Old(r, l, p) = Row(l, r, p)
    BY <2>3 DEF Old, Row
  <2> HIDE DEF New
  <2> QED
    BY <1>2, <1>o, <2>2, <2>4
<1>3. /\ Pos \div BlockSize < Len(blocks'[req])
      /\ New(req, layer, Pos) = chunk[at + 1]
  BY <1>w DEF WritesNext
<1> HIDE DEF New
<1>4. ASSUME NEW r \in Request, NEW l \in Layer, NEW p \in 0 .. lengths[r][l] - 1
      PROVE  p \div BlockSize < Len(blocks'[r]) /\ New(r, l, p) = fed[r][l][p + 1]
  <2>1. p \in Nat /\ ~(r = req /\ l = layer /\ p = Pos)
    BY <1>1
  <2>2. Covers(r, p) /\ Row(l, r, p) = fed[r][l][p + 1]
    BY DEF Recorded
  <2> QED
    BY <1>2, <2>1, <2>2
<1>5. Recorded'
  <2>1. lengths' = lengths /\ fed' = fed
    BY DEF WritesNext
  <2>2. ASSUME NEW r \in Request, NEW l \in Layer
        PROVE  Len(fed[r][l]) = lengths[r][l]
    BY DEF Recorded
  <2> QED
    BY <1>4, <2>1, <2>2, ZenonT(30) DEF Recorded, Covers, Row, New
<1>6. ASSUME NEW k \in 0 .. at
      PROVE  /\ (lengths[req][layer] + k) \div BlockSize < Len(blocks'[req])
             /\ New(req, layer, lengths[req][layer] + k) = chunk[k + 1]
  <2>1. CASE k = at
    <3>1. lengths[req][layer] + k = Pos
      BY <1>1, <2>1
    <3> QED
      BY <1>3, <2>1, <3>1
  <2>2. CASE k # at
    <3>0. lengths[req][layer] \in Nat /\ at \in Nat /\ Pos = lengths[req][layer] + at
      BY <1>1
    <3>1. k \in 0 .. at - 1 /\ lengths[req][layer] + k \in Nat
          /\ lengths[req][layer] + k # Pos
      BY <2>2, <3>0
    <3>2. Covers(req, lengths[req][layer] + k)
          /\ Row(layer, req, lengths[req][layer] + k) = chunk[k + 1]
      BY <1>1, <3>1 DEF InProgress
    <3> QED
      BY <1>1, <1>2, <3>1, <3>2
  <2> QED
    BY <2>1, <2>2
<1>7. InProgress'
  <2>1. 0 .. at' - 1 = 0 .. at
    <3>1. at' = at + 1 /\ at \in Nat
      BY <1>1 DEF WritesNext
    <3>2. \A n \in Nat : 0 .. (n + 1) - 1 = 0 .. n
      OBVIOUS
    <3> QED
      BY <3>1, <3>2, ZenonT(30)
  <2>2. \A k \in 0 .. at' - 1 :
           /\ (lengths[req][layer] + k) \div BlockSize < Len(blocks'[req])
           /\ New(req, layer, lengths[req][layer] + k) = chunk[k + 1]
    BY <1>6, <2>1
  <2>3. lengths' = lengths /\ req' = req /\ layer' = layer /\ chunk' = chunk
    BY DEF WritesNext
  <2> QED
    BY <2>2, <2>3 DEF InProgress, Covers, Row, New
<1> QED
  BY <1>5, <1>7

LEMMA AppendTokenRows ==
    ASSUME Inv, AppendToken
    PROVE  Recorded' /\ InProgress'
<1>1. TypeOK /\ OpOK /\ NoAliasing /\ op = "append" /\ ~PastTable
  BY DEF Inv, PoolInv, AppendToken, Appending
<1>2. /\ Pos \div BlockSize < Len(blocks[req])
      /\ blocks \in [Request -> Seq(Block)] /\ blocks' = blocks
  <2>1. Pos \div BlockSize \in Nat /\ req \in Request
    BY <1>1, PositionOK
  <2>2. blocks \in [Request -> Seq(Block)] /\ Len(blocks[req]) \in Nat
    BY <1>1, <2>1 DEF TypeOK
  <2> QED
    BY <1>1, <2>1, <2>2 DEF PastTable, AppendToken
<1>3. \A r \in Request : Held(r) = 1 .. Len(blocks[r]) /\ Len(blocks[r]) \in Nat
  BY <1>1, <1>2 DEF Held
<1>4. WritesNext
  BY <1>1, <1>2, <1>3 DEF WritesNext, AppendToken, Write, NoAliasing
<1> QED
  BY <1>1, <1>4, RowsKept DEF Inv, AppendToken

\* The block that append_tokens takes is the next one of the table.
LEMMA NextPosition ==
    ASSUME Inv, Appending
    PROVE  Pos \div BlockSize <= Len(blocks[req])
<1>1. /\ op = "append" /\ req \in Request /\ layer \in Layer /\ at \in Nat
      /\ lengths[req][layer] \in Nat /\ Len(blocks[req]) \in Nat
      /\ Pos = lengths[req][layer] + at
  BY DEF Inv, PoolInv, TypeOK, OpOK, Appending, Pos
<1>n. Pos \in Nat /\ Pos \div BlockSize \in Nat
  <2>1. Pos \in Nat
    BY <1>1
  <2> QED
    BY <2>1, BlockOfPosition
<1>2. CASE Pos = 0
  <2>1. Pos \div BlockSize = 0
    BY <1>n, <1>2, NextBlock
  <2> QED
    BY <1>1, <2>1
<1>3. CASE Pos # 0
  <2>1. Pos - 1 \in Nat /\ Pos - 1 + 1 = Pos
    BY <1>1, <1>3
  <2>2. Covers(req, Pos - 1)
    <3>1. CASE at = 0
      <4>1. Pos - 1 \in 0 .. lengths[req][layer] - 1
        BY <1>1, <1>3, <3>1
      <4> QED
        BY <1>1, <4>1 DEF Inv, Recorded
    <3>2. CASE at # 0
      <4>1. at - 1 \in 0 .. at - 1 /\ lengths[req][layer] + (at - 1) = Pos - 1
        BY <1>1, <3>2
      <4>2. Covers(req, lengths[req][layer] + (at - 1))
        BY <1>1, <4>1 DEF Inv, InProgress
      <4> QED
        BY <4>1, <4>2
    <3> QED
      BY <3>1, <3>2
  <2>3. Pos \div BlockSize <= (Pos - 1) \div BlockSize + 1
    BY <1>n, <1>3, NextBlock
  <2>4. (Pos - 1) \div BlockSize \in Nat
    BY <2>1, BlockOfPosition
  <2>5. (Pos - 1) \div BlockSize < Len(blocks[req])
    BY <2>2 DEF Covers
  <2> DEFINE x == Pos \div BlockSize
  <2> DEFINE y == (Pos - 1) \div BlockSize
  <2>6. x \in Nat /\ y \in Nat /\ x <= y + 1 /\ y < Len(blocks[req])
    BY <1>n, <2>3, <2>4, <2>5
  <2> HIDE DEF x, y
  <2>7. x <= Len(blocks[req])
    BY <1>1, <2>6
  <2> QED
    BY <2>7 DEF x
<1> QED
  BY <1>2, <1>3

LEMMA AppendAllocatingRows ==
    ASSUME Inv, AppendAllocating
    PROVE  Recorded' /\ InProgress'
<1> DEFINE table == Append(blocks[req], free[Len(free)])
<1>1. /\ TypeOK /\ OpOK /\ PoolPartition /\ NoAliasing /\ Appending /\ op = "append"
      /\ PastTable /\ op' = op /\ req' = req
  BY DEF Inv, PoolInv, AppendAllocating, Appending
<1>2. /\ req \in Request /\ blocks \in [Request -> Seq(Block)]
      /\ blocks[req] \in Seq(Block) /\ Len(blocks[req]) \in Nat
      /\ Pos \div BlockSize \in Nat
  BY <1>1, PositionOK DEF TypeOK
<1>3. free[Len(free)] \in Block
  BY <1>1 DEF TypeOK, AppendAllocating
<1>4. blocks' = [blocks EXCEPT ![req] = table]
  BY DEF AppendAllocating
<1>5. /\ table \in Seq(Block) /\ Len(table) = Len(blocks[req]) + 1
      /\ \A i \in 1 .. Len(blocks[req]) : table[i] = blocks[req][i]
  BY <1>2, <1>3, AppendFacts
<1>6. cells' = [cells EXCEPT ![layer][table[Pos \div BlockSize + 1]][Pos % BlockSize]
                               = chunk[at + 1]]
      /\ at' = at + 1
  BY DEF AppendAllocating, Write
<1> HIDE DEF table
<1>7. blocks'[req] = table /\ blocks' \in [Request -> Seq(Block)]
      /\ \A r \in Request : r # req => blocks'[r] = blocks[r]
  BY <1>2, <1>4, <1>5
<1>8. \A r \in Request : /\ Len(blocks[r]) <= Len(blocks'[r])
                        /\ \A i \in 1 .. Len(blocks[r]) : blocks'[r][i] = blocks[r][i]
  <2>1. ASSUME NEW r \in Request, r = req
        PROVE  /\ Len(blocks[r]) <= Len(blocks'[r])
               /\ \A i \in 1 .. Len(blocks[r]) : blocks'[r][i] = blocks[r][i]
    BY <1>2, <1>5, <1>7, <2>1
  <2>2. ASSUME NEW r \in Request, r # req
        PROVE  /\ Len(blocks[r]) <= Len(blocks'[r])
               /\ \A i \in 1 .. Len(blocks[r]) : blocks'[r][i] = blocks[r][i]
    <3>1. blocks'[r] = blocks[r] /\ Len(blocks[r]) \in Nat
      BY <1>2, <1>7, <2>2
    <3> QED
      BY <3>1
  <2> QED
    BY <2>1, <2>2
<1>9. \A r, s \in Request :
         \A i \in 1 .. Len(blocks'[r]), j \in 1 .. Len(blocks'[s]) :
            blocks'[r][i] = blocks'[s][j] => r = s /\ i = j
  <2>1. \A r \in Request : Held(r)' = 1 .. Len(blocks'[r])
    <3>1. op' # "free"
      BY <1>1
    <3> QED
      BY <3>1 DEF Held
  <2>2. NoAliasing'
    BY <1>1, AllocateStep
  <2> QED
    BY <2>1, <2>2 DEF NoAliasing
<1>10. Pos \div BlockSize < Len(blocks'[req])
  BY <1>1, <1>2, <1>5, <1>7, NextPosition
<1>11. WritesNext
  BY <1>6, <1>7, <1>8, <1>9, <1>10 DEF WritesNext, AppendAllocating
<1> QED
  BY <1>1, <1>11, RowsKept DEF Inv

LEMMA EndLayerRows ==
    ASSUME Inv, EndLayer
    PROVE  Recorded' /\ InProgress'
<1>1. /\ op = "append" /\ req \in Request /\ layer \in Layer /\ at = Len(chunk)
      /\ chunk \in Seq(Token) /\ Len(chunk) \in Nat
      /\ lengths \in [Request -> [Layer -> Nat]]
      /\ fed \in [Request -> [Layer -> Seq(Token)]]
      /\ cells' = cells /\ blocks' = blocks
  BY DEF Inv, PoolInv, TypeOK, OpOK, EndLayer
<1> DEFINE L == lengths[req][layer]
<1> DEFINE F == fed[req][layer]
<1>2. L \in Nat /\ F \in Seq(Token) /\ Len(F) = L
  BY <1>1 DEF Inv, Recorded
<1>3. /\ Len(F \o chunk) = L + Len(chunk)
      /\ \A i \in 1 .. L : (F \o chunk)[i] = F[i]
      /\ \A i \in 1 .. Len(chunk) : (F \o chunk)[L + i] = chunk[i]
  <2> HIDE DEF L, F
  <2>1. /\ Len(F \o chunk) = Len(F) + Len(chunk)
        /\ \A i \in 1 .. Len(F) : (F \o chunk)[i] = F[i]
        /\ \A i \in 1 .. Len(chunk) : (F \o chunk)[Len(F) + i] = chunk[i]
    <3>0. F \in Seq(Token) /\ chunk \in Seq(Token)
      BY <1>1, <1>2
    <3> HIDE DEF F
    <3> QED
      BY ONLY <3>0, ConcatFacts
  <2> QED
    BY <1>2, <2>1
<1>4. /\ lengths'[req][layer] = L + Len(chunk) /\ fed'[req][layer] = F \o chunk
      /\ \A r \in Request, l \in Layer :
            ~(r = req /\ l = layer)
              => lengths'[r][l] = lengths[r][l] /\ fed'[r][l] = fed[r][l]
  BY <1>1 DEF EndLayer
<1> HIDE DEF L, F
<1>5. ASSUME NEW p \in 0 .. L + Len(chunk) - 1
      PROVE  Covers(req, p) /\ Row(layer, req, p) = (F \o chunk)[p + 1]
  <2>1. CASE p < L
    <3>1. p \in 0 .. L - 1 /\ p + 1 \in 1 .. L
      BY <1>2, <2>1
    <3>2. Covers(req, p) /\ Row(layer, req, p) = F[p + 1]
      BY <1>1, <3>1 DEF Inv, Recorded, L, F
    <3> QED
      BY <1>3, <3>1, <3>2
  <2>2. CASE p >= L
    <3>1. PICK k \in 0 .. at - 1 : p = L + k
      <4>1. p - L \in 0 .. at - 1 /\ p = L + (p - L)
        BY <1>1, <1>2, <2>2
      <4> QED
        BY <4>1
    <3>2. Covers(req, L + k) /\ Row(layer, req, L + k) = chunk[k + 1]
      BY <1>1 DEF Inv, InProgress, L
    <3>3. k + 1 \in 1 .. Len(chunk) /\ p + 1 = L + (k + 1)
      BY <1>1, <1>2, <3>1
    <3>4. (F \o chunk)[L + (k + 1)] = chunk[k + 1]
      BY <1>3, <3>3
    <3> QED
      BY <3>1, <3>2, <3>3, <3>4
  <2> QED
    BY <1>2, <2>1, <2>2
<1>6. ASSUME NEW r \in Request, NEW l \in Layer
      PROVE  /\ Len(fed'[r][l]) = lengths'[r][l]
             /\ \A p \in 0 .. lengths'[r][l] - 1 :
                  Covers(r, p) /\ Row(l, r, p) = fed'[r][l][p + 1]
  <2>1. CASE r = req /\ l = layer
    <3>1. lengths'[r][l] = L + Len(chunk) /\ fed'[r][l] = F \o chunk
      BY <1>4, <2>1
    <3>2. ASSUME NEW p \in 0 .. lengths'[r][l] - 1
          PROVE  Covers(r, p) /\ Row(l, r, p) = fed'[r][l][p + 1]
      <4>1. p \in 0 .. L + Len(chunk) - 1
        BY <1>1, <1>2, <3>1
      <4>2. Covers(req, p) /\ Row(layer, req, p) = (F \o chunk)[p + 1]
        BY <1>5, <4>1
      <4> QED
        BY <2>1, <3>1, <4>2
    <3> QED
      BY <1>3, <3>1, <3>2
  <2>2. CASE ~(r = req /\ l = layer)
    BY <1>4, <2>2 DEF Inv, Recorded
  <2> QED
    BY <2>1, <2>2
<1>7. Recorded'
  <2>1. ASSUME NEW r \in Request, NEW l \in Layer, NEW p
        PROVE  Covers(r, p)' = Covers(r, p) /\ Row(l, r, p)' = Row(l, r, p)
    BY <1>1 DEF Covers, Row
  <2> QED
    BY <1>6, <2>1 DEF Recorded
<1>8. InProgress'
  <2>1. op' = "append" => at' = 0
    BY DEF EndLayer, OpEnds
  <2> QED
    BY <2>1 DEF InProgress
<1> QED
  BY <1>7, <1>8

LEMMA EndFreeRows ==
    ASSUME Inv, EndFree
    PROVE  Recorded' /\ InProgress'
<1>1. /\ req \in Request
      /\ lengths \in [Request -> [Layer -> Nat]]
      /\ fed \in [Request -> [Layer -> Seq(Token)]]
      /\ blocks \in [Request -> Seq(Block)]
      /\ op' = "none" /\ cells' = cells
  BY DEF Inv, PoolInv, TypeOK, OpOK, EndFree, OpEnds
<1>2. \A r \in Request : r # req =>
         lengths'[r] = lengths[r] /\ fed'[r] = fed[r] /\ blocks'[r] = blocks[r]
  BY <1>1 DEF EndFree
<1>3. \A l \in Layer : lengths'[req][l] = 0 /\ fed'[req][l] = <<>> /\ Len(<<>>) = 0
  BY <1>1 DEF EndFree
<1>4. ASSUME NEW r \in Request, NEW l \in Layer
      PROVE  /\ Len(fed'[r][l]) = lengths'[r][l]
             /\ \A p \in 0 .. lengths'[r][l] - 1 :
                  /\ p \div BlockSize < Len(blocks'[r])
                  /\ cells[l][blocks'[r][p \div BlockSize + 1]][p % BlockSize]
                       = fed'[r][l][p + 1]
  <2>1. CASE r = req
    <3>1. Len(fed'[r][l]) = 0 /\ lengths'[r][l] = 0
      BY <1>3, <2>1
    <3> QED
      BY <3>1
  <2>2. CASE r # req
    <3>1. /\ Len(fed[r][l]) = lengths[r][l]
          /\ \A p \in 0 .. lengths[r][l] - 1 :
               Covers(r, p) /\ Row(l, r, p) = fed[r][l][p + 1]
      BY DEF Inv, Recorded
    <3> QED
      BY <1>2, <2>2, <3>1 DEF Covers, Row
  <2> QED
    BY <2>1, <2>2
<1> QED
  BY <1>1, <1>4 DEF Recorded, InProgress, Covers, Row

LEMMA RowStep == Inv /\ [Next]_vars => Recorded' /\ InProgress'
<1> SUFFICES ASSUME Inv, [Next]_vars PROVE Recorded' /\ InProgress'
  OBVIOUS
<1>0. ASSUME cells' = cells, blocks' = blocks, lengths' = lengths, fed' = fed,
             op' = "append" => at' = 0
      PROVE  Recorded' /\ InProgress'
  <2>0. ASSUME NEW r \in Request, NEW l \in Layer, NEW p
        PROVE  Covers(r, p)' = Covers(r, p) /\ Row(l, r, p)' = Row(l, r, p)
    BY <1>0 DEF Covers, Row
  <2>1. Recorded'
    BY <1>0, <2>0 DEF Inv, Recorded
  <2> QED
    BY <1>0, <2>1 DEF InProgress
<1>1. ASSUME NEW r \in Request, NEW new \in Chunk, Forward(r, new)
      PROVE  Recorded' /\ InProgress'
  BY <1>0, <1>1 DEF Forward, Inv, PoolInv, OpOK
<1>2. CASE AppendToken
  BY <1>2, AppendTokenRows
<1>3. CASE AppendAllocating
  BY <1>3, AppendAllocatingRows
<1>4. CASE Exhausted
  BY <1>0, <1>4 DEF Exhausted, OpEnds
<1>5. CASE EndLayer
  BY <1>5, EndLayerRows
<1>6. ASSUME NEW r \in Request, FreeTable(r)
      PROVE  Recorded' /\ InProgress'
  BY <1>0, <1>6 DEF FreeTable
<1>7. CASE FreeBlock
  BY <1>0, <1>7 DEF FreeBlock
<1>8. CASE EndFree
  BY <1>8, EndFreeRows
<1>9. CASE UNCHANGED vars
  BY <1>9, ZenonT(60) DEF vars, opVars, Inv, Recorded, InProgress, Covers, Row
<1> QED
  BY <1>1, <1>2, <1>3, <1>4, <1>5, <1>6, <1>7, <1>8, <1>9 DEF Next

\* Rows that hold what was fed are what gather returns.
LEMMA RecordedIsGathered == TypeOK /\ Recorded => GatherExact
<1> SUFFICES ASSUME TypeOK, Recorded, NEW r \in Request, NEW l \in Layer
             PROVE  Gather(l, r) = fed[r][l]
  BY DEF GatherExact
<1>1. fed[r][l] \in Seq(Token) /\ lengths[r][l] \in Nat /\ Len(fed[r][l]) = lengths[r][l]
  BY DEF TypeOK, Recorded
<1>2. fed[r][l] = [p \in 1 .. lengths[r][l] |-> fed[r][l][p]]
  BY <1>1
<1>3. ASSUME NEW p \in 1 .. lengths[r][l]
      PROVE  cells[l][blocks[r][(p - 1) \div BlockSize + 1]][(p - 1) % BlockSize]
               = fed[r][l][p]
  <2>1. p - 1 \in 0 .. lengths[r][l] - 1 /\ p - 1 + 1 = p
    BY <1>1
  <2>2. Row(l, r, p - 1) = fed[r][l][p - 1 + 1]
    BY <2>1 DEF Recorded
  <2> QED
    BY <2>1, <2>2 DEF Row
<1> QED
  BY <1>2, <1>3, Zenon DEF Gather

LEMMA InvStep == Inv /\ [Next]_vars => Inv'
BY PoolStep, RowStep DEF Inv

\* The two together: what a pool has is free once, or in one place of one table.
COROLLARY PoolAccountedFor == Spec => []BlocksAccounted
BY BlocksConserved, TablesDisjoint, PTL DEF BlocksAccounted

\* What gather returns for a layer of a request is what that layer was fed, however
\* appends, failed appends and frees of all requests were interleaved.
THEOREM RowsNeverOverwritten == Spec => []GatherExact
<1>1. Init => Inv
  BY InitInv
<1>2. Inv => GatherExact
  BY RecordedIsGathered DEF Inv, PoolInv
<1> QED
  BY <1>1, <1>2, InvStep, PTL DEF Spec
=============================================================================
