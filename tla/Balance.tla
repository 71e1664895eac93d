------------------------------ MODULE Balance -------------------------------
(***************************************************************************)
(* The spend gate and the charge split of src/balance.ts, as operators.    *)
(* Amounts are integer micro-USD.  Two pools pay for a request: the plan's *)
(* monthly allowance, spent first, and prepaid credit.                     *)
(***************************************************************************)
EXTENDS Integers

AtLeastZero(x) == IF x < 0 THEN 0 ELSE x
Lesser(x, y) == IF x <= y THEN x ELSE y

\* A column that is not a non-negative integer leaves no allowance.
remainingAllowanceMicroUsd(included, allowanceSpent) ==
  IF included < 0 \/ allowanceSpent < 0
  THEN 0
  ELSE AtLeastZero(included - allowanceSpent)

\* Mutant: the gate lets an account through at exactly its credit.
decideBalanceOffByOne(credit, spent, included, allowanceSpent) ==
  IF remainingAllowanceMicroUsd(included, allowanceSpent) = 0 /\ spent > credit
  THEN "exhausted" ELSE "allow"

\* "indeterminate" answers 503, "exhausted" 402, "allow" goes upstream.
decideBalance(credit, spent, included, allowanceSpent) ==
  IF credit < 0 \/ spent < 0 \/ included < 0 \/ allowanceSpent < 0
  THEN "indeterminate"
  ELSE IF /\ remainingAllowanceMicroUsd(included, allowanceSpent) = 0
          /\ spent >= credit
       THEN "exhausted"
       ELSE "allow"

\* Mutant: the charge does not bound what is taken from the allowance.
allocateChargeUnbounded(microUsd, included, allowanceSpent) ==
  LET fromAllowance == remainingAllowanceMicroUsd(included, allowanceSpent)
  IN [allowance |-> fromAllowance, credit |-> microUsd - fromAllowance]

\* Allowance first, up to what is left of it; the rest is credit, which may
\* overshoot.
allocateCharge(microUsd, included, allowanceSpent) ==
  LET fromAllowance ==
        IF microUsd <= 0
        THEN 0
        ELSE Lesser(microUsd, remainingAllowanceMicroUsd(included, allowanceSpent))
  IN [allowance |-> fromAllowance,
      credit    |-> IF microUsd <= 0 THEN 0 ELSE microUsd - fromAllowance]
=============================================================================
