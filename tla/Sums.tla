-------------------------------- MODULE Sums --------------------------------
(***************************************************************************)
(* The sum of a column over the rows of a table.  A table's rows are       *)
(* numbered 1..n, and a column of it is a function f \in [1..n -> Nat].    *)
(* The code never computes these sums; they are the audit every comment of *)
(* store-d1.ts appeals to ("the rows are still there to re-sum").          *)
(*                                                                         *)
(* PrefixSum is a recursive function, not a RECURSIVE operator, so that    *)
(* theorems can be proved about it (see SumsProofs).                       *)
(***************************************************************************)
EXTENDS Integers

\* PrefixSum(f, n)[i] = f[1] + ... + f[i].
PrefixSum(f, n) ==
  LET S[i \in 0..n] == IF i = 0 THEN 0 ELSE S[i - 1] + f[i]
  IN  S

\* f[1] + ... + f[n].
SumTo(f, n) == PrefixSum(f, n)[n]
=============================================================================
