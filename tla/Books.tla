------------------------------- MODULE Books --------------------------------
(***************************************************************************)
(* Metering implements two OnceLedgers: the column of prepaid credit and   *)
(* the column of prepaid spend.  The operations of the one are the signup  *)
(* grant of an account, the idempotency keys of grantCredit and the        *)
(* downward true-ups; of the other the charges of recordUsage and the      *)
(* upward true-ups.  Statements that belong to neither, retries, crashes   *)
(* and rejections are stuttering steps of both.                            *)
(***************************************************************************)
EXTENDS Metering

Entry(a, n) == [account |-> a, amount |-> n]

\* The requests whose true-up has this direction.
TruedUp(d) == {r \in DOMAIN adjustments : adjustments[r].direction = d}

CreditOp == ({"signup"} \X Account) \cup ({"grant"} \X Key) \cup ({"true-up"} \X Req)

CreditEntries ==
  ({"signup"} \X created) \cup ({"grant"} \X DOMAIN grants) \cup ({"true-up"} \X TruedUp("credit"))

CreditEntry ==
  [o \in CreditEntries |->
     CASE o[1] = "signup" -> Entry(o[2], Signup)
       [] o[1] = "grant"  -> Entry(grants[o[2]].account, grants[o[2]].micro_usd)
       [] OTHER           -> Entry(Owner[o[2]], adjustments[o[2]].applied)]

CreditPaid ==
  ({"signup"} \X created) \cup ({"grant"} \X paidKeys)
    \cup ({"true-up"} \X (trued \cap TruedUp("credit")))

SpendOp == ({"charge"} \X Req) \cup ({"true-up"} \X Req)

\* A charge that takes nothing from credit is entered with 0 and never paid.
SpendEntries == ({"charge"} \X DOMAIN events) \cup ({"true-up"} \X TruedUp("spend"))

SpendEntry ==
  [o \in SpendEntries |->
     IF o[1] = "charge" THEN Entry(Owner[o[2]], events[o[2]].from_credit)
                        ELSE Entry(Owner[o[2]], adjustments[o[2]].applied)]

SpendPaid == ({"charge"} \X Charged) \cup ({"true-up"} \X (trued \cap TruedUp("spend")))

Credits == INSTANCE OnceLedger WITH
  Op <- CreditOp, entry <- CreditEntry, paid <- CreditPaid, total <- credit
Spends == INSTANCE OnceLedger WITH
  Op <- SpendOp, entry <- SpendEntry, paid <- SpendPaid, total <- spent

\* Whatever is retried, raced, cut or rejected, a top-up, a signup, a charge and a
\* true-up each move their column at most once, on the account and by the amount of
\* the row first written for them (store-d1.ts createAccount, grantCredit,
\* recordUsage, applyUsageAdjustment).
ColumnsMoveOnce == Credits!Spec /\ Spends!Spec
=============================================================================
