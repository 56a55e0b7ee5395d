------------------------------- MODULE Totals -------------------------------
(***************************************************************************)
(* Sums of sequences, as a recursive function that proofs can speak of:    *)
(* the targets of a batch (training/pretrain.py) and the rewards of a      *)
(* group (training/grpo.py) are added up with it.                          *)
(***************************************************************************)
EXTENDS Integers, Sequences

\* The sums of the first elements of s, of none to all.
Totals(s) ==
    LET sum[n \in 0 .. Len(s)] == IF n = 0 THEN 0 ELSE sum[n - 1] + s[n] IN sum

Total(s) == Totals(s)[Len(s)]
=============================================================================
