----------------------------- MODULE OnceLedger -----------------------------
(***************************************************************************)
(* What a money column promises: an operation is entered at most once, for *)
(* an account and an amount that never change, and is paid at most once,   *)
(* in full.  Nothing else moves the column.  An operation that is entered  *)
(* may stay unpaid for ever.                                               *)
(***************************************************************************)
EXTENDS Integers

CONSTANTS Account, Op

VARIABLES
  entry,  \* the operations entered: their account and amount
  paid,   \* the operations that are paid
  total   \* the column

vars == <<entry, paid, total>>

Init ==
  /\ entry = [o \in {} |-> <<>>]
  /\ paid = {}
  /\ total = [a \in Account |-> 0]

\* A new entry; the others stay.
Enter(o) ==
  /\ o \notin DOMAIN entry
  /\ DOMAIN entry' = DOMAIN entry \cup {o}
  /\ entry'[o] \in [account : Account, amount : Nat]
  /\ \A p \in DOMAIN entry : entry'[p] = entry[p]

Paid(o, e) ==
  /\ o \notin paid
  /\ paid' = paid \cup {o}
  /\ total' = [total EXCEPT ![e.account] = @ + e.amount]

\* Entered, paid later or never.
EnterOpen(o) == Enter(o) /\ UNCHANGED <<paid, total>>

\* Entered and paid at once.
EnterPaid(o) == Enter(o) /\ Paid(o, entry'[o])

Pay(o) == o \in DOMAIN entry /\ Paid(o, entry[o]) /\ UNCHANGED entry

Next == \E o \in Op : EnterOpen(o) \/ EnterPaid(o) \/ Pay(o)

Spec == Init /\ [][Next]_vars
=============================================================================
