---------------------------- MODULE MCReconcile -----------------------------
(***************************************************************************)
(* Small instances of Reconcile.                                           *)
(***************************************************************************)
EXTENDS Reconcile, TLC

CONSTANTS w1, w2

SymRuns == Permutations(Run)

AllAdjust == [r \in 1..NRow |-> "adjust"]

\* One row of each fate.
Mixed ==
  [r \in 1..NRow |-> CASE r = 1 -> "adjust"
                       [] r = 2 -> "malformed"
                       [] r = 3 -> "cached"
                       [] OTHER -> "in_agreement"]
=============================================================================
