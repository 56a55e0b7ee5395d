----------------------------- MODULE SpecDecode -----------------------------
(***************************************************************************)
(* Speculative decoding (spec_decode in model.py) of one request, and the  *)
(* packing of its answer (_generate_speculative in inference/engine.py).   *)
(* Each round drafts one token with the language-model head and one with   *)
(* every MTP head, runs the model once on all of them, and keeps drafts as *)
(* long as the model agrees.                                               *)
(*                                                                         *)
(* The model is what greedy decoding makes of it: the tokens it predicts   *)
(* one after the other when it is fed its own predictions.  After any      *)
(* other sequence it may predict anything, and so may the MTP heads.       *)
(***************************************************************************)
EXTENDS Integers, Sequences

CONSTANTS
    Vocab,          \* the tokens
    Eos,
    StopsAtEos,     \* whether options.eos_id is set
    PromptLen,
    MaxNew,         \* max_new_tokens
    MtpHeads,       \* len(self.mtp)
    ContextLength

ASSUME SpecAssumption ==
    /\ Eos \in Vocab
    /\ StopsAtEos \in BOOLEAN
    /\ PromptLen \in Nat \ {0}
    /\ MaxNew \in Nat
    /\ MtpHeads \in Nat
    /\ ContextLength \in Nat
    /\ PromptLen + MaxNew <= ContextLength     \* the check of spec_decode

\* The predictions the model can be asked for.
Horizon == 1 .. MaxNew + MtpHeads

VARIABLES
    greedy,     \* the predictions of the model, fed with its own
    step,       \* where the call is
    out,        \* seq without the prompt; its length is produced
    drafts,     \* the tokens of the MTP heads in this round
    accepted,   \* accepted
    answer      \* state.generated of the packed request

callVars == <<greedy, step, out, drafts, accepted, answer>>

CallInit ==
    /\ greedy \in [Horizon -> Vocab]
    /\ step = "draft"
    /\ out = <<>> /\ drafts = <<>> /\ accepted = <<>> /\ answer = <<>>

\* s is what greedy decoding produces first.
Agrees(s) == \A i \in 1 .. Len(s) : s[i] = greedy[i]

\* What the model may predict after the prompt and s.
Predictions(s) == IF Agrees(s) THEN {greedy[Len(s) + 1]} ELSE Vocab

\* The last token, or any if there are no draft heads: no need to verify.
DraftOne ==
    /\ step = "draft"
    /\ Len(out) < MaxNew
    /\ MtpHeads = 0 \/ Len(out) + 1 >= MaxNew
    /\ \E token \in Predictions(out) : out' = Append(out, token)
    /\ UNCHANGED <<greedy, step, drafts, accepted, answer>>

\* The drafts of a round, and the forward over all of them, which raises when
\* they do not fit in the context.
Draft ==
    /\ step = "draft"
    /\ MtpHeads > 0 /\ Len(out) + 1 < MaxNew
    /\ \E token \in Predictions(out) : accepted' = <<token>>
    /\ drafts' \in [1 .. MtpHeads -> Vocab]
    /\ step' = IF PromptLen + Len(out) + 1 + MtpHeads <= ContextLength
               THEN "verify" ELSE "raised"
    /\ UNCHANGED <<greedy, out, answer>>

\* Mutant of Kept: a draft is kept whatever the model says.
KeptUnverified(draft, verified) == draft

\* The token kept where the model, asked to verify a draft, predicts verified.
Kept(draft, verified) == IF draft = verified THEN draft ELSE verified

\* One draft is verified; the first one that fails is corrected, and ends the round.
Verify ==
    /\ step = "verify"
    /\ \E verified \in Predictions(out \o accepted) :
         LET draft == drafts[Len(accepted)]
         IN  /\ accepted' = Append(accepted, Kept(draft, verified))
             /\ step' = IF draft = verified /\ Len(accepted) < MtpHeads
                        THEN "verify" ELSE "take"
    /\ UNCHANGED <<greedy, out, drafts, answer>>

\* How many tokens may still be taken.
Room == MaxNew - Len(out)

Take ==
    /\ step = "take"
    /\ out' = out \o SubSeq(accepted, 1, IF Len(accepted) < Room THEN Len(accepted) ELSE Room)
    /\ step' = "draft"
    /\ drafts' = <<>> /\ accepted' = <<>>
    /\ UNCHANGED <<greedy, answer>>

\* The positions of end-of-sequence in the output.
EosAt == {i \in 1 .. Len(out) : out[i] = Eos}

\* The answer is the output, up to its first end-of-sequence if the request stops there.
Pack ==
    /\ step = "draft"
    /\ Len(out) >= MaxNew
    /\ IF StopsAtEos /\ EosAt # {}
       THEN \E i \in EosAt : (\A j \in EosAt : i <= j) /\ answer' = SubSeq(out, 1, i)
       ELSE answer' = out
    /\ step' = "done"
    /\ UNCHANGED <<greedy, out, drafts, accepted>>

CallStep == DraftOne \/ Draft \/ Verify \/ Take \/ Pack

\* The call runs to its end.
CallSpec == CallInit /\ [][CallStep]_callVars /\ WF_callVars(CallStep)

----------------------------------------------------------------------------

\* Drafts and output are tokens, and the output is no longer than the budget.
SpecTypeOK ==
    /\ greedy \in [Horizon -> Vocab]
    /\ step \in {"draft", "verify", "take", "raised", "done"}
    /\ out \in Seq(Vocab) /\ Len(out) <= MaxNew
    /\ drafts \in Seq(Vocab)
    /\ accepted \in Seq(Vocab)
    /\ answer \in Seq(Vocab)

\* Hazard: a draft kept though an earlier one failed, a verification read at the
\* wrong position, or tokens past the budget or past end-of-sequence.  The answer is
\* token for token what the stepwise decoder emits: greedy predictions up to the
\* first end-of-sequence or the budget.
AnswerIsGreedy ==
    step = "done" =>
        /\ Agrees(answer)
        /\ Len(answer) <= MaxNew
        /\ StopsAtEos => \A i \in 1 .. Len(answer) - 1 : answer[i] # Eos
        /\ \/ Len(answer) = MaxNew
           \/ StopsAtEos /\ answer # <<>> /\ answer[Len(answer)] = Eos

\* Hazard: a round that costs two forwards and gains less than plain greedy decoding
\* would.  Whatever the heads draft, a verified round gains two tokens at least, and
\* never more than one per head and one.
RoundsGain ==
    [][step = "take" =>
          Len(out') - Len(out) \in 2 .. MtpHeads + 1]_callVars

\* model.py:325-326 says that the result is "bit-identical to plain greedy", which
\* answers every request that passes the context check.  A legal call never raises.
LegalCallAnswers == step # "raised"

============================================================================
