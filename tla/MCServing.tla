----------------------------- MODULE MCServing -----------------------------
(***************************************************************************)
(* Instances of the serving loop for TLC.                                  *)
(***************************************************************************)
EXTENDS ServingRefinement, TLC

CONSTANTS r1, r2, c1, a, e

\* The same prompt twice: a full prefix hit, a miss when the two prefill together, and
\* cohorts of two when they stay aligned.  With chunks of one token the requests take turns.
MCPrompt == [r \in Request |-> <<a, e>>]

\* For liveness, where which token it is does not matter: a prompt of one token.
MCPromptLive == [r \in Request |-> <<e>>]

\* One token each.
MCMaxNewOne == [r \in Request |-> 1]

\* Streams of two lengths: one goes on when the other, of the same cohort, has ended.
MCMaxNewStream == [r \in Request |-> IF r = r1 THEN 2 ELSE 1]

\* One token for the request in the scheduler.  In a context of five the drafts of a first
\* round of the other, speculative one fit and those of a second do not, and whether there is
\* a second depends on how many of the first are accepted: it may be answered or raise.
MCMaxNewLive == [r \in Request |-> IF r = r1 THEN 1 ELSE 4]

MCSig == [r \in Request |-> "greedy"]
=============================================================================
