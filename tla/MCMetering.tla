---------------------------- MODULE MCMetering -----------------------------
(***************************************************************************)
(* Small instances of Metering.                                            *)
(***************************************************************************)
EXTENDS Books, TLC

CONSTANTS a1, a2, c1, c2, w1, w2

OneAccount == [r \in 1..NReq |-> a1]
SymActors == Permutations(Caller) \cup Permutations(Worker)
=============================================================================
