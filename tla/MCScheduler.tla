---------------------------- MODULE MCScheduler ----------------------------
(***************************************************************************)
(* The instance of Scheduler for TLC: three requests whose prompts are     *)
(* equal or extend one another.                                            *)
(***************************************************************************)
EXTENDS Scheduler, TLC

CONSTANTS r1, r2, r3, a, e

\* r2 and r3 extend the prompt of r1, so that partial and full hits happen.
MCPrompt == r1 :> <<a, e>> @@ r2 :> <<a, e, e>> @@ r3 :> <<a, e>>

\* Every request fits in a context of five tokens, r1 and r2 exactly.
MCMaxNew == r1 :> 3 @@ r2 :> 2 @@ r3 :> 2

\* Two requests sample alike and can share a cohort.
MCSig == r1 :> "greedy" @@ r2 :> "greedy" @@ r3 :> "sample"
=============================================================================
