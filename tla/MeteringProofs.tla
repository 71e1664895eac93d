--------------------------- MODULE MeteringProofs ---------------------------
(***************************************************************************)
(* Proofs about Metering, for any number of accounts, requests, keys and   *)
(* callers: types, no counter ever stands above the rows it summarises,    *)
(* rows only accumulate, what was recorded is charged, the counters are    *)
(* exact unless a call was cut, what an account without overlapping        *)
(* requests can overshoot, and that Metering implements the two ledgers of *)
(* Books.                                                                  *)
(***************************************************************************)
EXTENDS Books, SumsProofs

\* The split of a charge: both shares are within the charge and add up to it.
LEMMA AllocateChargeSplits ==
  ASSUME NEW micro \in Nat, NEW included \in Nat, NEW used \in Nat
  PROVE  LET split == allocateCharge(micro, included, used)
         IN /\ split.allowance \in 0..micro
            /\ split.credit \in 0..micro
            /\ split.allowance + split.credit = micro
            /\ split.allowance <= remainingAllowanceMicroUsd(included, used)
BY DEF allocateCharge, remainingAllowanceMicroUsd, Lesser, AtLeastZero

\* A row added to a table under a key of S leaves it a table over S.
LEMMA InsertTable ==
  ASSUME NEW table, NEW S, NEW Row, NEW key \in S, NEW row \in Row,
         Table(table, S, Row)
  PROVE  Table(Insert(table, key, row), S, Row)
BY DEF Table, Insert

USE ConstantsAssumption

\* The first state is well typed.
LEMMA InitTypeOK == Init => TypeOK
<1> SUFFICES ASSUME Init PROVE TypeOK
  OBVIOUS
<1>1. Blank \in Local
  BY DEF Blank, Local, Month, Cost
<1>2. Table(grants, Key, GrantRow) /\ Table(events, Req, EventRow)
      /\ Table(adjustments, Req, AdjustmentRow)
  BY DEF Init, Table
<1>3. periods \in [Account -> [Month -> [Column -> Nat]]]
  BY DEF Init
<1>4. /\ month \in Month
      /\ billed \in [Req -> Cost]
      /\ pc \in [Req -> Phase]
      /\ call \in [Caller -> Call]
      /\ work \in [Worker -> Work]
      /\ landed \in [Req -> SUBSET {"period", "account"}]
  BY DEF Init, Month, Cost, Phase, Call, Work
<1>5. local \in [Req -> Local]
  BY <1>1 DEF Init
<1>6. QED
  BY <1>2, <1>3, <1>4, <1>5 DEF Init, TypeOK, Answers

\* A handler that ends leaves its variables well typed.
LEMMA FinishType ==
  ASSUME TypeOK, NEW r \in Req, NEW a \in Answers, Finish(r, a)
  PROVE  /\ pc' \in [Req -> Phase]
         /\ local' \in [Req -> Local]
         /\ answer' \in [Req -> Answers]
<1>1. Blank \in Local
  BY DEF Blank, Local, Month, Cost
<1>2. QED
  BY <1>1 DEF TypeOK, Finish, GoTo, Phase

\* The row recordUsage writes has the shape of its table.
LEMMA EventType ==
  ASSUME NEW l \in Local
  PROVE  Event(l) \in EventRow
BY DEF Event, EventRow, Local, Cost

\* The shares of a row are naturals.
LEMMA EventShareNat ==
  ASSUME NEW e \in EventRow, NEW c \in Column
  PROVE  EventShare(e, c) \in Nat
BY DEF EventShare, EventRow, Column, Cost

LEMMA AdjustmentShareNat ==
  ASSUME NEW x \in AdjustmentRow, NEW c \in Column
  PROVE  AdjustmentShare(x, c) \in Nat
BY DEF AdjustmentShare, AdjustmentRow, Column, Cost

\* A month row to which naturals are added column by column is still one.
LEMMA PeriodType ==
  ASSUME periods \in [Account -> [Month -> [Column -> Nat]]],
         NEW a \in Account, NEW m \in Month, NEW share \in [Column -> Nat]
  PROVE  [periods EXCEPT ![a][m] = [c \in Column |-> @[c] + share[c]]]
           \in [Account -> [Month -> [Column -> Nat]]]
<1>1. [c \in Column |-> periods[a][m][c] + share[c]] \in [Column -> Nat]
  OBVIOUS
<1>2. QED
  BY <1>1

\* What the gateway may bill is within the bound on a price.
LEMMA BillIsCost == Bill \subseteq Cost
BY DEF Cost

\* The steps of one request keep the types.
LEMMA StepTypeOK ==
  ASSUME TypeOK, NEW r \in Req, Step(r)
  PROVE  TypeOK'
<1> USE DEF tables, requestVars, grantVars, workVars
<1>0. Owner[r] \in Account /\ local[r] \in Local /\ local[r].period \in Month
  BY DEF TypeOK, Local
<1>1. CASE Gate(r)
  <2>1. CASE GoTo(r, "admitted") /\ UNCHANGED <<local, answer>>
    BY <1>1, <2>1 DEF Gate, GoTo, TypeOK, Phase
  <2>2. CASE Finish(r, "refused")
    BY <1>1, <2>2, FinishType DEF Gate, TypeOK, Answers
  <2>3. QED
    BY <1>1, <2>1, <2>2 DEF Gate
<1>2. ASSUME NEW estimate \in Cost, NEW cost \in Bill, Serve(r, estimate, cost)
      PROVE  TypeOK'
  <2>0. cost \in Cost
    BY BillIsCost
  <2>1. local' \in [Req -> Local]
    BY <1>2 DEF Serve, TypeOK, Local
  <2>2. QED
    BY <1>2, <2>0, <2>1 DEF Serve, GoTo, TypeOK, Phase
<1>3. ASSUME NEW cost \in Bill, ServeUnpriced(r, cost)
      PROVE  TypeOK'
  BY <1>3, BillIsCost DEF ServeUnpriced, GoTo, TypeOK, Phase
<1>4. CASE UpstreamError(r)
  BY <1>4, FinishType DEF UpstreamError, TypeOK, Answers
<1>5. CASE buildEvent(r)
  <2> DEFINE m == BookingMonth(r)
             used == periods[Owner[r]][m]["allowance_spent"]
             split == allocateCharge(local[r].micro_usd, Included, used)
  <2>1. m \in Month
    BY <1>0 DEF BookingMonth, TypeOK
  <2>2. used \in Nat /\ local[r].micro_usd \in Cost
    BY <1>0, <2>1 DEF TypeOK, Column, Local
  <2>3. split.allowance \in Cost /\ split.credit \in Cost
    <3> HIDE DEF used
    <3>1. local[r].micro_usd \in Nat
      BY <2>2 DEF Cost
    <3>2. split.allowance \in 0..local[r].micro_usd /\ split.credit \in 0..local[r].micro_usd
      BY <2>2, <3>1, AllocateChargeSplits
    <3> HIDE DEF split
    <3>3. QED
      BY <2>2, <3>2 DEF Cost
  <2>4. local' = [local EXCEPT ![r] =
                    [@ EXCEPT !.period = m, !.from_allowance = split.allowance,
                              !.from_credit = split.credit]]
    BY <1>5 DEF buildEvent
  <2> HIDE DEF m, split
  <2> DEFINE l1 == [local[r] EXCEPT !.period = m]
             l2 == [l1 EXCEPT !.from_allowance = split.allowance]
             l3 == [l2 EXCEPT !.from_credit = split.credit]
  <2>5. local' \in [Req -> Local]
    <3>1. l1 \in Local
      BY <1>0, <2>1 DEF Local
    <3> HIDE DEF l1
    <3>2. l2 \in Local
      BY <2>3, <3>1 DEF Local
    <3> HIDE DEF l2
    <3>3. l3 \in Local
      BY <2>3, <3>2 DEF Local
    <3>4. local' = [local EXCEPT ![r] = l3]
      BY <2>4 DEF l1, l2
    <3> HIDE DEF l3
    <3>5. QED
      BY <3>3, <3>4 DEF TypeOK
  <2>6. QED
    BY <1>5, <2>5 DEF buildEvent, GoTo, TypeOK, Phase
<1>6. CASE insertEvent(r)
  <2>1. Table(Insert(events, r, Event(local[r])), Req, EventRow)
    BY <1>0, EventType, InsertTable DEF TypeOK
  <2>2. Table(events', Req, EventRow)
    BY <1>6, <2>1 DEF insertEvent, TypeOK
  <2>3. pc' \in [Req -> Phase]
    BY <1>6 DEF insertEvent, GoTo, TypeOK, Phase
  <2>4. QED
    BY <1>6, <2>2, <2>3 DEF insertEvent, TypeOK, Table
<1>7. CASE upsertPeriod(r)
  <2> DEFINE share == [c \in Column |-> EventShare(Event(local[r]), c)]
  <2>1. share \in [Column -> Nat]
    BY <1>0, EventType, EventShareNat
  <2>2. periods' = [periods EXCEPT ![Owner[r]][Event(local[r]).period] =
                      [c \in Column |-> @[c] + share[c]]]
    BY <1>7 DEF upsertPeriod
  <2>3. Event(local[r]).period \in Month
    BY <1>0 DEF Event
  <2>4. periods' \in [Account -> [Month -> [Column -> Nat]]]
    <3> HIDE DEF share
    <3>1. QED
      BY <1>0, <2>1, <2>2, <2>3, PeriodType DEF TypeOK
  <2>5. pc' \in [Req -> Phase] /\ landed' \in [Req -> SUBSET {"period", "account"}]
    BY <1>7 DEF upsertPeriod, GoTo, TypeOK, Phase
  <2>6. QED
    BY <1>7, <2>4, <2>5 DEF upsertPeriod, TypeOK
<1>8. CASE updateSpent(r)
  <2>1. Event(local[r]).from_credit \in Nat
    BY <1>0, EventType DEF EventRow, Cost
  <2>2. spent' \in [Account -> Nat]
    BY <1>0, <1>8, <2>1 DEF updateSpent, TypeOK
  <2>3. QED
    BY <1>8, <2>2 DEF updateSpent, GoTo, TypeOK, Phase
<1>9. CASE Answer(r)
  BY <1>9, FinishType DEF Answer, TypeOK, Answers
<1>10. QED
  BY <1>1, <1>2, <1>3, <1>4, <1>5, <1>6, <1>7, <1>8, <1>9 DEF Step

\* So do an account's creation, the calendar and the failures of a request.
LEMMA RequestTypeOK ==
  ASSUME TypeOK, NEW r \in Req, resolveClient(r) \/ Reject(r) \/ Crash(r)
  PROVE  TypeOK'
<1> USE DEF tables, requestVars, grantVars, workVars
<1>0. Owner[r] \in Account /\ local[r] \in Local
  BY DEF TypeOK
<1>1. CASE resolveClient(r)
  <2> DEFINE l1 == [Blank EXCEPT !.period = month]
             l2 == [l1 EXCEPT !.credit = credit[Owner[r]]]
             l3 == [l2 EXCEPT !.spent = spent[Owner[r]]]
  <2>3. local' \in [Req -> Local]
    <3>1. Blank \in Local /\ month \in Month
          /\ credit[Owner[r]] \in Nat /\ spent[Owner[r]] \in Nat
      BY <1>0 DEF Blank, Local, Month, Cost, TypeOK
    <3>2. l1 \in Local
      BY <3>1 DEF Local
    <3> HIDE DEF l1
    <3>3. l2 \in Local
      BY <3>1, <3>2 DEF Local
    <3> HIDE DEF l2
    <3>4. l3 \in Local
      BY <3>1, <3>3 DEF Local
    <3>5. local' = [local EXCEPT ![r] = l3]
      BY <1>1 DEF resolveClient, l1, l2
    <3> HIDE DEF l3
    <3>6. QED
      BY <3>4, <3>5 DEF TypeOK
  <2>4. raced' \subseteq Account
    BY <1>0, <1>1 DEF resolveClient, TypeOK
  <2>5. QED
    BY <1>1, <2>3, <2>4 DEF resolveClient, GoTo, TypeOK, Phase
<1>2. CASE Reject(r)
  <2>1. CASE r \in Jobs /\ local[r].tries < MaxTries
    <3>1. [local[r] EXCEPT !.tries = @ + 1] \in Local
      BY <1>0, <2>1 DEF Local
    <3>2. local' = [local EXCEPT ![r] = [local[r] EXCEPT !.tries = @ + 1]]
      BY <1>2, <2>1 DEF Reject
    <3>3. local' \in [Req -> Local]
      BY <3>1, <3>2 DEF TypeOK
    <3>4. QED
      BY <1>2, <2>1, <3>3 DEF Reject, GoTo, TypeOK, Phase
  <2>2. CASE ~(r \in Jobs /\ local[r].tries < MaxTries)
    <3>1. PICK a \in Answers : Finish(r, a)
      BY <1>2, <2>2 DEF Reject, Answers
    <3>2. QED
      BY <1>2, <3>1, FinishType DEF Reject, TypeOK
  <2>3. QED
    BY <2>1, <2>2
<1>3. CASE Crash(r)
  BY <1>3, FinishType DEF Crash, TypeOK, Answers
<1>4. QED
  BY <1>1, <1>2, <1>3

\* So does a call of grantCredit, whose key has a row once it is crediting.
LEMMA GrantTypeOK ==
  ASSUME TypeOK, RowsOwned, NEW c \in Caller,
         \/ \E k \in Key, a \in Account, amount \in Grant : insertGrant(c, k, a, amount)
         \/ updateCredit(c) \/ replyGrant(c) \/ cutGrant(c)
  PROVE  TypeOK'
<1> USE DEF tables, requestVars, grantVars, workVars
<1> DEFINE Busy == [pc: {"crediting", "reading"}, key: Key, applied: BOOLEAN]
<1>0. call \in [Caller -> Call] /\ Busy \subseteq Call /\ Idle \in Call
      /\ (call[c].pc # "idle" => call[c] \in Busy)
  BY DEF TypeOK, Call, Idle
<1>1. ASSUME NEW k \in Key, NEW a \in Account, NEW amount \in Grant,
             insertGrant(c, k, a, amount)
      PROVE  TypeOK'
  <2>1. Table(Insert(grants, k, [account |-> a, micro_usd |-> amount]), Key, GrantRow)
    BY InsertTable DEF TypeOK, GrantRow
  <2>2. Table(grants', Key, GrantRow)
    BY <1>1, <2>1 DEF insertGrant, TypeOK
  <2>3. call' \in [Caller -> Call]
    <3>1. /\ [pc |-> "reading", key |-> k, applied |-> FALSE] \in Busy
          /\ [pc |-> "crediting", key |-> k, applied |-> TRUE] \in Busy
      OBVIOUS
    <3> HIDE DEF Busy
    <3>2. PICK x \in Busy : call' = [call EXCEPT ![c] = x]
      BY <1>1, <3>1 DEF insertGrant
    <3>3. QED
      BY <1>0, <3>2
  <2>4. QED
    BY <1>1, <2>2, <2>3 DEF insertGrant, TypeOK, Table
<1>2. CASE updateCredit(c)
  <2>1. call[c] \in Busy
    BY <1>0, <1>2 DEF updateCredit
  <2>2. call' \in [Caller -> Call]
    <3>1. [call[c] EXCEPT !.pc = "reading"] \in Busy
      BY <2>1
    <3> HIDE DEF Busy
    <3>2. call' = [call EXCEPT ![c] = [call[c] EXCEPT !.pc = "reading"]]
      BY <1>2 DEF updateCredit
    <3>3. QED
      BY <1>0, <3>1, <3>2
  <2>3. credit' \in [Account -> Nat]
    <3>1. grants[call[c].key] \in GrantRow
      BY <1>2 DEF updateCredit, RowsOwned, CallerOwns, TypeOK, Table
    <3>2. grants[call[c].key].account \in Account /\ grants[call[c].key].micro_usd \in Nat
      BY <3>1 DEF GrantRow, Grant
    <3>3. QED
      BY <1>2, <3>2 DEF updateCredit, TypeOK
  <2>4. QED
    BY <1>2, <2>1, <2>2, <2>3 DEF updateCredit, TypeOK
<1>3. CASE replyGrant(c)
  <2>1. call[c] \in Busy
    BY <1>0, <1>3 DEF replyGrant
  <2>2. call' \in [Caller -> Call]
    BY <1>0, <1>3 DEF replyGrant
  <2>3. QED
    BY <1>3, <2>1, <2>2 DEF replyGrant, TypeOK
<1>4. CASE cutGrant(c)
  BY <1>0, <1>4 DEF cutGrant, TypeOK
<1>5. QED
  BY <1>1, <1>2, <1>3, <1>4

\* And a call of applyUsageAdjustment, whose rows are there when it reads them.
LEMMA WorkTypeOK ==
  ASSUME TypeOK, RowsOwned, NEW w \in Worker,
         \/ \E r \in Req : decideAdjustment(w, r)
         \/ insertAdjustment(w) \/ moveMoney(w) \/ cutAdjustment(w)
  PROVE  TypeOK'
<1> USE DEF tables, requestVars, grantVars, workVars
<1> DEFINE Busy == [pc: {"decided", "audited"}, req: Req,
                    direction: {"spend", "credit"}, applied: Cost]
<1>0. work \in [Worker -> Work] /\ Busy \subseteq Work /\ Idle \in Work
      /\ (work[w].pc # "idle" => work[w] \in Busy)
  BY DEF TypeOK, Work, Idle
<1>1. ASSUME NEW r \in Req, decideAdjustment(w, r)
      PROVE  TypeOK'
  <2> DEFINE delta == billed[r] - Estimate(r)
             x == [pc |-> "decided", req |-> r,
                   direction |-> IF delta > 0 THEN "spend" ELSE "credit",
                   applied |-> IF delta > 0 THEN delta ELSE -delta]
  <2>1. events[r] \in EventRow /\ billed[r] \in Cost
    BY <1>1 DEF decideAdjustment, TypeOK, Table
  <2>2. Estimate(r) \in Cost
    BY <2>1 DEF Estimate, EventRow, Cost
  <2>3. x \in Busy
    BY <2>1, <2>2 DEF Cost
  <2>4. work' = [work EXCEPT ![w] = x]
    BY <1>1 DEF decideAdjustment
  <2> HIDE DEF x, Busy
  <2>5. work' \in [Worker -> Work]
    BY <1>0, <2>3, <2>4
  <2>6. QED
    BY <1>1, <2>5 DEF decideAdjustment, TypeOK
<1>2. CASE insertAdjustment(w)
  <2> DEFINE r == work[w].req
             row == [period |-> events[r].period, direction |-> work[w].direction,
                     applied |-> work[w].applied]
  <2>1. work[w] \in Busy
    BY <1>0, <1>2 DEF insertAdjustment
  <2>2. r \in Req /\ r \in DOMAIN events
    BY <1>2, <2>1 DEF insertAdjustment, RowsOwned, WorkerOwns
  <2>3. events[r].period \in Month
    BY <2>2 DEF TypeOK, Table, EventRow
  <2>4. row \in AdjustmentRow
    BY <2>1, <2>3 DEF AdjustmentRow
  <2>5. work' \in [Worker -> Work]
    <3>1. [work[w] EXCEPT !.pc = "audited"] \in Busy
      BY <2>1
    <3> HIDE DEF Busy
    <3>2. \/ work' = [work EXCEPT ![w] = [work[w] EXCEPT !.pc = "audited"]]
          \/ work' = [work EXCEPT ![w] = Idle]
      BY <1>2 DEF insertAdjustment
    <3>3. QED
      BY <1>0, <3>1, <3>2
  <2>6. Table(adjustments', Req, AdjustmentRow)
    <3>1. adjustments' = adjustments \/ adjustments' = Insert(adjustments, r, row)
      BY <1>2 DEF insertAdjustment
    <3> HIDE DEF r, row
    <3>2. QED
      BY <2>2, <2>4, <3>1, InsertTable DEF TypeOK
  <2>7. QED
    BY <1>2, <2>5, <2>6 DEF insertAdjustment, TypeOK, Table
<1>3. CASE moveMoney(w)
  <2> DEFINE r == work[w].req
             row == adjustments[r]
             share == [c \in Column |-> AdjustmentShare(row, c)]
  <2>1. r \in Req /\ Owner[r] \in Account
    BY <1>0, <1>3 DEF moveMoney
  <2>2. row \in AdjustmentRow
    BY <1>3, <2>1 DEF moveMoney, RowsOwned, WorkerOwns, TypeOK, Table
  <2>3. row.period \in Month /\ row.applied \in Nat
    BY <2>2 DEF AdjustmentRow, Cost
  <2>4. spent' \in [Account -> Nat] /\ credit' \in [Account -> Nat]
    BY <1>3, <2>1, <2>3 DEF moveMoney, TypeOK
  <2>5. periods' \in [Account -> [Month -> [Column -> Nat]]]
    <3>1. share \in [Column -> Nat]
      BY <2>2, AdjustmentShareNat
    <3>2. periods' = [periods EXCEPT ![Owner[r]][row.period] =
                        [c \in Column |-> @[c] + share[c]]]
      BY <1>3 DEF moveMoney
    <3> HIDE DEF share, row, r
    <3>3. QED
      BY <2>1, <2>3, <3>1, <3>2, PeriodType DEF TypeOK
  <2>6. work' \in [Worker -> Work] /\ trued' \subseteq Req
    BY <1>0, <1>3, <2>1 DEF moveMoney, TypeOK
  <2>7. QED
    BY <1>3, <2>4, <2>5, <2>6 DEF moveMoney, TypeOK
<1>4. CASE cutAdjustment(w)
  BY <1>0, <1>4 DEF cutAdjustment, TypeOK
<1>5. QED
  BY <1>1, <1>2, <1>3, <1>4

\* Every step keeps the types.
LEMMA NextTypeOK ==
  ASSUME TypeOK, RowsOwned, [Next]_vars
  PROVE  TypeOK'
<1>1. ASSUME NEW a \in Account, createAccount(a)
      PROVE  TypeOK'
  BY <1>1 DEF createAccount, TypeOK, requestVars, grantVars, workVars
<1>2. CASE NextMonth
  BY <1>2 DEF NextMonth, TypeOK, Month, tables, requestVars, grantVars, workVars
<1>3. CASE UNCHANGED vars
  BY <1>3 DEF vars, TypeOK, tables, requestVars, grantVars, workVars, Table
<1>4. QED
  BY <1>1, <1>2, <1>3, StepTypeOK, RequestTypeOK, GrantTypeOK, WorkTypeOK DEF Next

-----------------------------------------------------------------------------
(***************************************************************************)
(* RowsOwned is inductive.                                                 *)
(***************************************************************************)

\* A step of one request leaves the others' handlers and rows alone.
LEMMA RequestFrame ==
  ASSUME TypeOK, NEW r \in Req,
         Step(r) \/ resolveClient(r) \/ Reject(r) \/ Crash(r),
         NEW q \in Req \ {r}
  PROVE  /\ pc'[q] = pc[q] /\ local'[q] = local[q] /\ landed'[q] = landed[q]
         /\ q \in DOMAIN events' <=> q \in DOMAIN events
         /\ q \in DOMAIN events => events'[q] = events[q]
<1> USE DEF tables, requestVars
<1>1. pc'[q] = pc[q]
  BY DEF TypeOK, Step, resolveClient, Reject, Crash, Gate, Serve, ServeUnpriced,
         UpstreamError, buildEvent, insertEvent, upsertPeriod, updateSpent, Answer,
         GoTo, Finish
<1>2. local'[q] = local[q]
  BY DEF TypeOK, Step, resolveClient, Reject, Crash, Gate, Serve, ServeUnpriced,
         UpstreamError, buildEvent, insertEvent, upsertPeriod, updateSpent, Answer,
         Finish
<1>3. landed'[q] = landed[q]
  BY DEF TypeOK, Step, resolveClient, Reject, Crash, Gate, Serve, ServeUnpriced,
         UpstreamError, buildEvent, insertEvent, upsertPeriod, updateSpent, Answer
<1>4. events' = events \/ events' = Insert(events, r, Event(local[r]))
  BY DEF Step, resolveClient, Reject, Crash, Gate, Serve, ServeUnpriced,
         UpstreamError, buildEvent, insertEvent, upsertPeriod, updateSpent, Answer
<1>5. QED
  BY <1>1, <1>2, <1>3, <1>4 DEF Insert

\* A handler holds its row from one statement of recordUsage to the next.
LEMMA StepRequestOwns ==
  ASSUME TypeOK, RequestOwns, NEW r \in Req,
         Step(r) \/ resolveClient(r) \/ Reject(r) \/ Crash(r)
  PROVE  RequestOwns'
<1> USE DEF tables, requestVars
<1> DEFINE Owns(q) ==
      /\ pc[q] \in {"inserted", "rolled"} => q \in DOMAIN events /\ events[q] = Event(local[q])
      /\ pc[q] = "inserted" => landed[q] = {}
      /\ pc[q] = "rolled" => landed[q] = {"period"}
      /\ q \notin DOMAIN events => landed[q] = {}
<1>1. ASSUME NEW q \in Req \ {r}
      PROVE  Owns(q)'
  <2>1. Event(local'[q]) = Event(local[q])
    BY <1>1, RequestFrame
  <2>2. Event(local[q])' = Event(local'[q])
    BY DEF Event
  <2>3. QED
    BY <1>1, <2>1, <2>2, RequestFrame DEF RequestOwns
<1>2. ASSUME insertEvent(r) PROVE  Owns(r)'
  <2>1. local'[r] = local[r] /\ landed'[r] = landed[r]
    BY <1>2 DEF insertEvent
  <2>2. CASE r \in DOMAIN events
    BY <1>2, <2>1, <2>2 DEF insertEvent, GoTo, TypeOK, RequestOwns
  <2>3. CASE r \notin DOMAIN events
    <3>1. pc'[r] = "inserted" /\ events' = Insert(events, r, Event(local[r]))
      BY <1>2, <2>3 DEF insertEvent, GoTo, TypeOK
    <3>2. r \in DOMAIN events' /\ events'[r] = Event(local[r])
      BY <3>1 DEF Insert
    <3>3. Event(local[r])' = Event(local[r])
      BY <2>1 DEF Event
    <3>4. QED
      BY <2>1, <2>3, <3>1, <3>2, <3>3 DEF RequestOwns
  <2>4. QED
    BY <2>2, <2>3
<1>3. ASSUME upsertPeriod(r) PROVE  Owns(r)'
  <2>1. /\ pc[r] = "inserted" /\ pc'[r] \in {"rolled", "written"}
        /\ local' = local /\ events' = events
        /\ landed'[r] = landed[r] \cup {"period"}
    BY <1>3 DEF upsertPeriod, GoTo, TypeOK
  <2>2. Event(local[r])' = Event(local[r])
    BY <2>1 DEF Event
  <2>3. QED
    BY <2>1, <2>2 DEF RequestOwns
<1>4. ASSUME updateSpent(r) PROVE  Owns(r)'
  <2>1. pc[r] = "rolled" /\ pc'[r] = "written" /\ events' = events
    BY <1>4 DEF updateSpent, GoTo, TypeOK
  <2>2. QED
    BY <2>1 DEF RequestOwns
<1>5. ASSUME ~insertEvent(r) /\ ~upsertPeriod(r) /\ ~updateSpent(r)
      PROVE  Owns(r)'
  <2>1. pc'[r] \notin {"inserted", "rolled"}
    BY <1>5 DEF TypeOK, Step, resolveClient, Reject, Crash, Gate, Serve, ServeUnpriced,
           UpstreamError, buildEvent, Answer, GoTo, Finish
  <2>2. events' = events /\ landed' = landed
    BY <1>5 DEF Step, resolveClient, Reject, Crash, Gate, Serve, ServeUnpriced,
           UpstreamError, buildEvent, Answer
  <2>3. QED
    BY <2>1, <2>2 DEF RequestOwns
<1>6. Owns(r)'
  BY <1>2, <1>3, <1>4, <1>5
<1>7. \A q \in Req : Owns(q)'
  BY <1>1, <1>6
<1>8. QED
  BY <1>7 DEF RequestOwns

\* The statements of one call of grantCredit.
GrantStep(c) ==
  \/ \E k \in Key, a \in Account, amount \in Grant : insertGrant(c, k, a, amount)
  \/ updateCredit(c) \/ replyGrant(c) \/ cutGrant(c)

\* The statements of one call of applyUsageAdjustment.
WorkStep(w) ==
  \/ \E r \in Req : decideAdjustment(w, r)
  \/ insertAdjustment(w) \/ moveMoney(w) \/ cutAdjustment(w)

\* A new grant is held by the call that inserted it, until it is credited.
LEMMA StepCallerOwns ==
  ASSUME TypeOK, CallerOwns, NEW c \in Caller, GrantStep(c)
  PROVE  CallerOwns'
<1> USE DEF grantVars, tables
<1>0. call \in [Caller -> Call]
  BY DEF TypeOK
<1>1. ASSUME NEW k \in Key, NEW a \in Account, NEW amount \in Grant,
             insertGrant(c, k, a, amount)
      PROVE  CallerOwns'
  <2>1. CASE k \in DOMAIN grants
    <3>1. /\ grants' = grants /\ paidKeys' = paidKeys
          /\ call'[c].pc = "reading" /\ \A d \in Caller \ {c} : call'[d] = call[d]
      BY <1>0, <1>1, <2>1 DEF insertGrant
    <3>2. QED
      BY <3>1 DEF CallerOwns
  <2>2. CASE k \notin DOMAIN grants
    <3>1. /\ DOMAIN grants' = DOMAIN grants \cup {k} /\ paidKeys' = paidKeys
          /\ call'[c].pc = "crediting" /\ call'[c].key = k
          /\ \A d \in Caller \ {c} : call'[d] = call[d]
      BY <1>0, <1>1, <2>2 DEF insertGrant, Insert
    <3>2. QED
      BY <2>2, <3>1 DEF CallerOwns
  <2>3. QED
    BY <2>1, <2>2
<1>2. CASE updateCredit(c)
  <2>1. call[c] \in [pc: {"crediting", "reading"}, key: Key, applied: BOOLEAN]
    BY <1>0, <1>2 DEF updateCredit, Call, Idle
  <2>2. call'[c].pc = "reading" /\ \A d \in Caller \ {c} : call'[d] = call[d]
    BY <1>0, <1>2, <2>1 DEF updateCredit
  <2>3. grants' = grants /\ paidKeys' = paidKeys \cup {call[c].key}
    BY <1>2 DEF updateCredit
  <2>4. call[c].pc = "crediting"
    BY <1>2 DEF updateCredit
  <2>5. QED
    BY <2>2, <2>3, <2>4 DEF CallerOwns
<1>3. CASE replyGrant(c) \/ cutGrant(c)
  <2>1. /\ grants' = grants /\ paidKeys' = paidKeys
        /\ call'[c].pc = "idle" /\ \A d \in Caller \ {c} : call'[d] = call[d]
    BY <1>0, <1>3 DEF replyGrant, cutGrant, Idle
  <2>2. QED
    BY <2>1 DEF CallerOwns
<1>4. QED
  BY <1>1, <1>2, <1>3 DEF GrantStep

\* A new adjustment is held by the run that inserted it, until its money moved.
LEMMA StepWorkerOwns ==
  ASSUME TypeOK, WorkerOwns, NEW w \in Worker, WorkStep(w)
  PROVE  WorkerOwns'
<1> USE DEF workVars, tables
<1>0. work \in [Worker -> Work]
  BY DEF TypeOK
<1>1. ASSUME NEW r \in Req, decideAdjustment(w, r)
      PROVE  WorkerOwns'
  <2>1. /\ work'[w].pc = "decided" /\ work'[w].req = r /\ r \in DOMAIN events
        /\ \A v \in Worker \ {w} : work'[v] = work[v]
        /\ events' = events /\ adjustments' = adjustments /\ trued' = trued
    BY <1>0, <1>1 DEF decideAdjustment
  <2>2. QED
    BY <2>1 DEF WorkerOwns
<1>2. CASE insertAdjustment(w)
  <2>1. work[w].pc = "decided" /\ events' = events /\ trued' = trued
        /\ \A v \in Worker \ {w} : work'[v] = work[v]
    BY <1>0, <1>2 DEF insertAdjustment
  <2>2. CASE work[w].req \in DOMAIN adjustments
    <3>1. work'[w].pc = "idle" /\ adjustments' = adjustments
      BY <1>0, <1>2, <2>2 DEF insertAdjustment, Idle
    <3>2. QED
      BY <2>1, <3>1 DEF WorkerOwns
  <2>3. CASE work[w].req \notin DOMAIN adjustments
    <3>1. work[w] \in [pc: {"decided", "audited"}, req: Req,
                       direction: {"spend", "credit"}, applied: Cost]
      BY <1>0, <2>1 DEF Work, Idle
    <3>2. /\ work'[w].pc = "audited" /\ work'[w].req = work[w].req
          /\ DOMAIN adjustments' = DOMAIN adjustments \cup {work[w].req}
      BY <1>0, <1>2, <2>3, <3>1 DEF insertAdjustment, Insert
    <3>3. QED
      BY <2>1, <2>3, <3>2 DEF WorkerOwns
  <2>4. QED
    BY <2>2, <2>3
<1>3. CASE moveMoney(w)
  <2>1. /\ work[w].pc = "audited" /\ work'[w].pc = "idle"
        /\ \A v \in Worker \ {w} : work'[v] = work[v]
        /\ events' = events /\ adjustments' = adjustments
        /\ trued' = trued \cup {work[w].req}
    BY <1>0, <1>3 DEF moveMoney, Idle
  <2>2. QED
    BY <2>1 DEF WorkerOwns
<1>4. CASE cutAdjustment(w)
  <2>1. /\ work'[w].pc = "idle" /\ \A v \in Worker \ {w} : work'[v] = work[v]
        /\ events' = events /\ adjustments' = adjustments /\ trued' = trued
    BY <1>0, <1>4 DEF cutAdjustment, Idle
  <2>2. QED
    BY <2>1 DEF WorkerOwns
<1>5. QED
  BY <1>1, <1>2, <1>3, <1>4 DEF WorkStep

\* Accounts come before everything that belongs to them.
LEMMA NextAccountsFirst ==
  ASSUME TypeOK, RowsOwned, Next
  PROVE  AccountsFirst'
<1> USE DEF tables, requestVars, grantVars, workVars, RowsOwned
<1>1. ASSUME NEW a \in Account, createAccount(a)
      PROVE  AccountsFirst'
  BY <1>1 DEF createAccount, AccountsFirst, TypeOK, InFlight
<1>2. CASE NextMonth
  BY <1>2 DEF NextMonth, AccountsFirst, InFlight
<1>3. ASSUME NEW r \in Req, Step(r) \/ resolveClient(r) \/ Reject(r) \/ Crash(r)
      PROVE  AccountsFirst'
  <2>1. created' = created /\ credit' = credit /\ grants' = grants
        /\ adjustments' = adjustments
    BY <1>3 DEF Step, resolveClient, Reject, Crash, Gate, Serve, ServeUnpriced,
       UpstreamError, buildEvent, insertEvent, upsertPeriod, updateSpent, Answer
  <2>2. InFlight(r) \/ Owner[r] \in created
    BY <1>3 DEF Step, resolveClient, Reject, Crash, Gate, Serve, ServeUnpriced,
       UpstreamError, buildEvent, insertEvent, upsertPeriod, updateSpent, Answer, InFlight
  <2>3. Owner[r] \in created
    BY <2>2 DEF AccountsFirst
  <2>4. \A q \in Req \ {r} : pc'[q] = pc[q]
    BY <1>3, RequestFrame
  <2>5. DOMAIN events' \subseteq DOMAIN events \cup {r} /\ DOMAIN events \subseteq DOMAIN events'
    BY <1>3 DEF Step, resolveClient, Reject, Crash, Gate, Serve, ServeUnpriced,
       UpstreamError, buildEvent, insertEvent, upsertPeriod, updateSpent, Answer, Insert
  <2>6. QED
    BY <2>1, <2>3, <2>4, <2>5 DEF AccountsFirst, InFlight
<1>4. ASSUME NEW c \in Caller, GrantStep(c)
      PROVE  AccountsFirst'
  <2>1. /\ created' = created /\ pc' = pc /\ events' = events /\ adjustments' = adjustments
    BY <1>4 DEF GrantStep, insertGrant, updateCredit, replyGrant, cutGrant
  <2>2. \A k \in DOMAIN grants' : grants'[k].account \in created
    <3>1. ASSUME NEW k \in Key, NEW a \in Account, NEW amount \in Grant,
                 insertGrant(c, k, a, amount)
          PROVE  \A j \in DOMAIN grants' : grants'[j].account \in created
      BY <3>1 DEF insertGrant, AccountsFirst, Insert
    <3>2. CASE grants' = grants
      BY <3>2 DEF AccountsFirst
    <3>3. QED
      BY <1>4, <3>1, <3>2 DEF GrantStep, updateCredit, replyGrant, cutGrant
  <2>3. \A a \in Account \ created : credit'[a] = 0
    <3>1. CASE updateCredit(c)
      <4>1. grants[call[c].key].account \in created
        BY <3>1 DEF updateCredit, AccountsFirst, CallerOwns
      <4>2. QED
        BY <3>1, <4>1 DEF updateCredit, AccountsFirst, TypeOK
    <3>2. CASE credit' = credit
      BY <3>2 DEF AccountsFirst
    <3>3. QED
      BY <1>4, <3>1, <3>2 DEF GrantStep, insertGrant, replyGrant, cutGrant
  <2>4. QED
    BY <2>1, <2>2, <2>3 DEF AccountsFirst, InFlight
<1>5. ASSUME NEW w \in Worker, WorkStep(w)
      PROVE  AccountsFirst'
  <2>1. created' = created /\ pc' = pc /\ events' = events /\ grants' = grants
    BY <1>5 DEF WorkStep, decideAdjustment, insertAdjustment, moveMoney, cutAdjustment
  <2>2. DOMAIN adjustments' \subseteq DOMAIN events
    <3>1. CASE insertAdjustment(w)
      <4>1. work[w].req \in DOMAIN events
        BY <3>1 DEF insertAdjustment, WorkerOwns
      <4>2. QED
        BY <3>1, <4>1 DEF insertAdjustment, AccountsFirst, Insert
    <3>2. CASE adjustments' = adjustments
      BY <3>2 DEF AccountsFirst
    <3>3. QED
      BY <1>5, <3>1, <3>2 DEF WorkStep, decideAdjustment, moveMoney, cutAdjustment
  <2>3. \A a \in Account \ created : credit'[a] = 0
    <3>1. CASE moveMoney(w)
      <4>1. Owner[work[w].req] \in created
        BY <3>1 DEF moveMoney, AccountsFirst, WorkerOwns
      <4>2. QED
        BY <3>1, <4>1 DEF moveMoney, AccountsFirst, TypeOK
    <3>2. CASE credit' = credit
      BY <3>2 DEF AccountsFirst
    <3>3. QED
      BY <1>5, <3>1, <3>2 DEF WorkStep, decideAdjustment, insertAdjustment, cutAdjustment
  <2>4. QED
    BY <2>1, <2>2, <2>3 DEF AccountsFirst, InFlight
<1>6. QED
  BY <1>1, <1>2, <1>3, <1>4, <1>5 DEF Next, GrantStep, WorkStep

\* Every step keeps RowsOwned.
LEMMA NextRowsOwned ==
  ASSUME TypeOK, RowsOwned, [Next]_vars
  PROVE  RowsOwned'
<1> USE DEF tables, requestVars, grantVars, workVars, vars
<1>1. ASSUME UNCHANGED <<pc, local, events, landed>>
      PROVE  RequestOwns'
  <2>1. \A r \in Req : Event(local[r])' = Event(local[r])
    BY <1>1 DEF Event
  <2>2. QED
    BY <1>1, <2>1 DEF RowsOwned, RequestOwns
<1>2. ASSUME UNCHANGED <<grants, call, paidKeys>>
      PROVE  CallerOwns'
  BY <1>2 DEF RowsOwned, CallerOwns
<1>3. ASSUME UNCHANGED <<work, adjustments, trued>>, DOMAIN events \subseteq DOMAIN events'
      PROVE  WorkerOwns'
  BY <1>3 DEF RowsOwned, WorkerOwns
<1>4. CASE UNCHANGED vars
  <2>1. AccountsFirst'
    BY <1>4 DEF RowsOwned, AccountsFirst, InFlight
  <2>2. QED
    BY <1>1, <1>2, <1>3, <1>4, <2>1 DEF RowsOwned
<1>5. CASE (\E a \in Account : createAccount(a)) \/ NextMonth
  <2>1. UNCHANGED <<pc, local, events, landed, grants, call, paidKeys, work, adjustments, trued>>
    BY <1>5 DEF createAccount, NextMonth
  <2>2. QED
    BY <1>1, <1>2, <1>3, <1>5, <2>1, NextAccountsFirst DEF RowsOwned, Next
<1>6. ASSUME NEW r \in Req, Step(r) \/ resolveClient(r) \/ Reject(r) \/ Crash(r)
      PROVE  RowsOwned'
  <2>1. UNCHANGED <<grants, call, paidKeys, work, adjustments, trued>>
    BY <1>6 DEF Step, resolveClient, Reject, Crash, Gate, Serve, ServeUnpriced,
       UpstreamError, buildEvent, insertEvent, upsertPeriod, updateSpent, Answer
  <2>2. DOMAIN events \subseteq DOMAIN events'
    BY <1>6 DEF Step, resolveClient, Reject, Crash, Gate, Serve, ServeUnpriced,
       UpstreamError, buildEvent, insertEvent, upsertPeriod, updateSpent, Answer, Insert
  <2>3. RequestOwns'
    BY <1>6, StepRequestOwns DEF RowsOwned
  <2>4. Next
    BY <1>6 DEF Next
  <2>5. QED
    BY <1>2, <1>3, <2>1, <2>2, <2>3, <2>4, NextAccountsFirst DEF RowsOwned
<1>7. ASSUME NEW c \in Caller, GrantStep(c)
      PROVE  RowsOwned'
  <2>1. UNCHANGED <<pc, local, events, landed, work, adjustments, trued>>
    BY <1>7 DEF GrantStep, insertGrant, updateCredit, replyGrant, cutGrant
  <2>2. CallerOwns'
    BY <1>7, StepCallerOwns DEF RowsOwned
  <2>3. Next
    BY <1>7 DEF Next, GrantStep
  <2>4. QED
    BY <1>1, <1>3, <2>1, <2>2, <2>3, NextAccountsFirst DEF RowsOwned
<1>8. ASSUME NEW w \in Worker, WorkStep(w)
      PROVE  RowsOwned'
  <2>1. UNCHANGED <<pc, local, events, landed, grants, call, paidKeys>>
    BY <1>8 DEF WorkStep, decideAdjustment, insertAdjustment, moveMoney, cutAdjustment
  <2>2. WorkerOwns'
    BY <1>8, StepWorkerOwns DEF RowsOwned
  <2>3. Next
    BY <1>8 DEF Next, WorkStep
  <2>4. QED
    BY <1>1, <1>2, <2>1, <2>2, <2>3, NextAccountsFirst DEF RowsOwned
<1>9. QED
  BY <1>4, <1>5, <1>6, <1>7, <1>8 DEF Next, GrantStep, WorkStep

-----------------------------------------------------------------------------
(***************************************************************************)
(* The sums.                                                               *)
(***************************************************************************)

\* What the audit sums are columns of naturals.
LEMMA ColumnTypes ==
  ASSUME TypeOK
  PROVE  /\ \A a, S : CreditCharges(a, S) \in [1..NReq -> Nat]
         /\ \A a, d, T : TrueUps(a, d, T) \in [1..NReq -> Nat]
         /\ \A a, K : TopUps(a, K) \in [1..NKey -> Nat]
         /\ \A a, m, S : \A c \in Column : EventShares(a, m, c, S) \in [1..NReq -> Nat]
         /\ \A a, m, T : \A c \in Column : AdjustmentShares(a, m, c, T) \in [1..NReq -> Nat]
<1>1. \A r \in DOMAIN events : events[r] \in EventRow
  BY DEF TypeOK, Table
<1>2. \A r \in DOMAIN events : events[r].from_credit \in Nat
  BY <1>1 DEF EventRow, Cost
<1>3. \A r \in DOMAIN adjustments : adjustments[r] \in AdjustmentRow
  BY DEF TypeOK, Table
<1>4. \A r \in DOMAIN adjustments : adjustments[r].applied \in Nat
  BY <1>3 DEF AdjustmentRow, Cost
<1>5. \A k \in DOMAIN grants : grants[k].micro_usd \in Nat
  BY DEF TypeOK, Table, GrantRow, Grant
<1>6. QED
  BY <1>1, <1>2, <1>3, <1>4, <1>5, EventShareNat, AdjustmentShareNat
     DEF CreditCharges, TrueUps, TopUps, EventShares, AdjustmentShares, Req, Key

\* The audit of a part of the rows is at most the audit of all of them.
LEMMA AuditMonotone ==
  ASSUME TypeOK, CountersExplained
  PROVE  NeverAboveLedger
<1> SUFFICES ASSUME NEW a \in Account
             PROVE  /\ spent[a] <= SpentBy(a, Req, Req)
                    /\ credit[a] <= CreditBy(a, Key, Req)
                    /\ \A m \in Month, c \in Column :
                         periods[a][m][c] <= PeriodBy(a, m, c, Req, Req)
  BY DEF NeverAboveLedger
<1>1. \A d : SumTo(TrueUps(a, d, trued), NReq) <= SumTo(TrueUps(a, d, Req), NReq)
  <2> TAKE d
  <2>1. \A i \in 1..NReq : TrueUps(a, d, trued)[i] <= TrueUps(a, d, Req)[i]
    <3>1. \A r \in DOMAIN adjustments : adjustments[r].applied \in Nat
      BY DEF TypeOK, Table, AdjustmentRow, Cost
    <3>2. QED
      BY <3>1 DEF TrueUps, Req
  <2>2. QED
    BY <2>1, ColumnTypes, SumToMonotone
<1>2. SumTo(CreditCharges(a, Charged), NReq) <= SumTo(CreditCharges(a, Req), NReq)
  <2>1. \A i \in 1..NReq : CreditCharges(a, Charged)[i] <= CreditCharges(a, Req)[i]
    <3>1. \A r \in DOMAIN events : events[r].from_credit \in Nat
      BY DEF TypeOK, Table, EventRow, Cost
    <3>2. QED
      BY <3>1 DEF CreditCharges, Req, Charged
  <2>2. QED
    BY <2>1, ColumnTypes, SumToMonotone
<1>3. SumTo(TopUps(a, paidKeys), NKey) <= SumTo(TopUps(a, Key), NKey)
  <2>1. \A i \in 1..NKey : TopUps(a, paidKeys)[i] <= TopUps(a, Key)[i]
    <3>1. \A k \in DOMAIN grants : grants[k].micro_usd \in Nat
      BY DEF TypeOK, Table, GrantRow, Grant
    <3>2. QED
      BY <3>1 DEF TopUps, Key
  <2>2. QED
    BY <2>1, ColumnTypes, SumToMonotone
<1>4. ASSUME NEW m \in Month, NEW c \in Column
      PROVE  /\ SumTo(EventShares(a, m, c, Rolled), NReq) <= SumTo(EventShares(a, m, c, Req), NReq)
             /\ SumTo(AdjustmentShares(a, m, c, trued), NReq)
                  <= SumTo(AdjustmentShares(a, m, c, Req), NReq)
  <2>1. \A i \in 1..NReq : EventShares(a, m, c, Rolled)[i] <= EventShares(a, m, c, Req)[i]
    <3>1. \A r \in DOMAIN events : EventShare(events[r], c) \in Nat
      BY EventShareNat DEF TypeOK, Table
    <3>2. QED
      BY <3>1 DEF EventShares, Req, Rolled
  <2>2. \A i \in 1..NReq : AdjustmentShares(a, m, c, trued)[i] <= AdjustmentShares(a, m, c, Req)[i]
    <3>1. \A r \in DOMAIN adjustments : AdjustmentShare(adjustments[r], c) \in Nat
      BY AdjustmentShareNat DEF TypeOK, Table
    <3>2. QED
      BY <3>1 DEF AdjustmentShares, Req
  <2>3. QED
    BY <2>1, <2>2, ColumnTypes, SumToMonotone
<1>5. /\ SumTo(CreditCharges(a, Charged), NReq) \in Nat
      /\ SumTo(CreditCharges(a, Req), NReq) \in Nat
      /\ \A d, T : SumTo(TrueUps(a, d, T), NReq) \in Nat
      /\ \A K : SumTo(TopUps(a, K), NKey) \in Nat
      /\ \A m, S : \A c \in Column : SumTo(EventShares(a, m, c, S), NReq) \in Nat
      /\ \A m, T : \A c \in Column : SumTo(AdjustmentShares(a, m, c, T), NReq) \in Nat
  BY ColumnTypes, SumToNat
<1>6. spent[a] <= SpentBy(a, Req, Req)
  BY <1>1, <1>2, <1>5 DEF CountersExplained, SpentBy
<1>7. credit[a] <= CreditBy(a, Key, Req)
  BY <1>1, <1>3, <1>5 DEF CountersExplained, CreditBy
<1>8. ASSUME NEW m \in Month, NEW c \in Column
      PROVE  periods[a][m][c] <= PeriodBy(a, m, c, Req, Req)
  BY <1>4, <1>5, <1>8 DEF CountersExplained, PeriodBy
<1>9. QED
  BY <1>6, <1>7, <1>8

\* A sum to which one row adds d grows by d.
LEMMA SumToAdd ==
  ASSUME NEW n \in Nat, NEW f \in [1..n -> Nat], NEW k \in 1..n, NEW d \in Nat
  PROVE  SumTo([f EXCEPT ![k] = f[k] + d], n) = SumTo(f, n) + d
<1> DEFINE g == [f EXCEPT ![k] = f[k] + d]
<1>1. g \in [1..n -> Nat] /\ g[k] = f[k] + d /\ \A i \in 1..n : i # k => g[i] = f[i]
  OBVIOUS
<1> HIDE DEF g
<1>2. d \in Int
  OBVIOUS
<1>3. SumTo(g, n) = SumTo(f, n) + d
  BY <1>1, <1>2, SumToUpdate, Zenon
<1>4. QED
  BY <1>3 DEF g

\* The audit columns before and after a step that leaves their tables alone.
EventColumnsKept ==
  \A a \in Account :
    /\ CreditCharges(a, Charged)' = CreditCharges(a, Charged)
    /\ \A m \in Month, c \in Column :
         EventShares(a, m, c, Rolled)' = EventShares(a, m, c, Rolled)

AdjustmentColumnsKept ==
  \A a \in Account :
    /\ \A d \in {"spend", "credit"} : TrueUps(a, d, trued)' = TrueUps(a, d, trued)
    /\ \A m \in Month, c \in Column :
         AdjustmentShares(a, m, c, trued)' = AdjustmentShares(a, m, c, trued)

GrantColumnsKept ==
  \A a \in Account : TopUps(a, paidKeys)' = TopUps(a, paidKeys)

LEMMA EventFrame ==
  ASSUME UNCHANGED <<events, landed>>
  PROVE  EventColumnsKept
BY DEF EventColumnsKept, CreditCharges, EventShares, Charged, Rolled

LEMMA AdjustmentFrame ==
  ASSUME UNCHANGED <<adjustments, trued>>
  PROVE  AdjustmentColumnsKept
BY DEF AdjustmentColumnsKept, TrueUps, AdjustmentShares

LEMMA GrantFrame ==
  ASSUME UNCHANGED <<grants, paidKeys>>
  PROVE  GrantColumnsKept
BY DEF GrantColumnsKept, TopUps

\* If no column and no counter moves, the counters stay explained.
LEMMA CountersKept ==
  ASSUME CountersExplained, EventColumnsKept, AdjustmentColumnsKept, GrantColumnsKept,
         UNCHANGED <<created, credit, spent, periods>>
  PROVE  CountersExplained'
BY DEF CountersExplained, EventColumnsKept, AdjustmentColumnsKept, GrantColumnsKept,
       SpentBy, CreditBy, PeriodBy

\* An inserted event is in no sum until its updates land.
LEMMA InsertEventCounters ==
  ASSUME TypeOK, RowsOwned, CountersExplained, NEW r \in Req, insertEvent(r)
  PROVE  CountersExplained'
<1> USE DEF requestVars, grantVars, workVars
<1>1. UNCHANGED <<created, credit, spent, periods, grants, paidKeys, adjustments, trued, landed>>
  BY DEF insertEvent
<1>2. EventColumnsKept
  <2>1. CASE events' = events
    BY <1>1, <2>1, EventFrame
  <2>2. CASE r \notin DOMAIN events /\ events' = Insert(events, r, Event(local[r]))
    <3>1. landed[r] = {} /\ r \notin Charged /\ r \notin Rolled
      BY <2>2 DEF RowsOwned, RequestOwns, Charged, Rolled
    <3>2. Charged' = Charged /\ Rolled' = Rolled
      BY <1>1 DEF Charged, Rolled
    <3>3. \A q \in Req \ {r} : /\ q \in DOMAIN events' <=> q \in DOMAIN events
                               /\ q \in DOMAIN events => events'[q] = events[q]
      BY <2>2 DEF Insert
    <3>4. \A a \in Account : CreditCharges(a, Charged)' = CreditCharges(a, Charged)
      BY <3>1, <3>2, <3>3 DEF CreditCharges
    <3>5. \A a \in Account, m \in Month, c \in Column :
            EventShares(a, m, c, Rolled)' = EventShares(a, m, c, Rolled)
      BY <3>1, <3>2, <3>3 DEF EventShares
    <3>6. QED
      BY <3>4, <3>5 DEF EventColumnsKept
  <2>3. QED
    BY <2>1, <2>2 DEF insertEvent
<1>3. QED
  BY <1>1, <1>2, AdjustmentFrame, GrantFrame, CountersKept

\* The period upsert adds the shares of its event to the month of its event.
LEMMA UpsertPeriodCounters ==
  ASSUME TypeOK, RowsOwned, CountersExplained, NEW r \in Req, upsertPeriod(r)
  PROVE  CountersExplained'
<1> USE DEF requestVars, grantVars, workVars
<1> DEFINE e == Event(local[r])
<1>1. UNCHANGED <<created, credit, spent, grants, paidKeys, events, adjustments, trued>>
  BY DEF upsertPeriod
<1>2. r \in DOMAIN events /\ events[r] = e /\ landed[r] = {}
  BY DEF upsertPeriod, RowsOwned, RequestOwns
<1>3. landed' = [landed EXCEPT ![r] = {"period"}]
  BY <1>2 DEF upsertPeriod
<1>4. Charged' = Charged
  BY <1>2, <1>3 DEF Charged, TypeOK
<1>5. Rolled' = Rolled \cup {r} /\ r \notin Rolled
  BY <1>2, <1>3 DEF Rolled, TypeOK
<1>6. e \in EventRow /\ e.period \in Month /\ Owner[r] \in Account
  BY EventType DEF TypeOK, EventRow
<1>7. \A a \in Account : CreditCharges(a, Charged)' = CreditCharges(a, Charged)
  BY <1>1, <1>4 DEF CreditCharges
<1>8. periods' = [periods EXCEPT ![Owner[r]][e.period] =
                    [c \in Column |-> @[c] + EventShare(e, c)]]
  BY DEF upsertPeriod
<1> HIDE DEF e
<1>9. ASSUME NEW a \in Account, NEW m \in Month, NEW c \in Column
      PROVE  periods'[a][m][c] = PeriodBy(a, m, c, Rolled, trued)'
  <2> DEFINE f == EventShares(a, m, c, Rolled)
             h == AdjustmentShares(a, m, c, trued)
  <2>1. f \in [1..NReq -> Nat] /\ h \in [1..NReq -> Nat]
    BY <1>9, ColumnTypes
  <2>2. h' = h
    BY <1>1 DEF AdjustmentShares
  <2>3. periods[a][m][c] = SumTo(f, NReq) + SumTo(h, NReq)
    BY <1>9 DEF CountersExplained, PeriodBy
  <2>4. PeriodBy(a, m, c, Rolled, trued)' = SumTo(f', NReq) + SumTo(h', NReq)
    BY DEF PeriodBy
  <2>5. CASE a = Owner[r] /\ m = e.period
    <3>1. f' = [f EXCEPT ![r] = f[r] + EventShare(e, c)]
      <4>1. f[r] = 0
        BY <1>5 DEF EventShares
      <4>2. EventShare(e, c) \in Nat
        BY <1>6, EventShareNat
      <4>3. f'[r] = EventShare(e, c)
        BY <1>1, <1>2, <1>5, <2>5 DEF EventShares
      <4>4. \A q \in Req \ {r} : f'[q] = f[q]
        BY <1>1, <1>5 DEF EventShares
      <4>5. f' = [q \in Req |-> f'[q]] /\ f = [q \in Req |-> f[q]]
        BY DEF EventShares
      <4> HIDE DEF f
      <4>6. QED
        BY <4>1, <4>2, <4>3, <4>4, <4>5
    <3>2. SumTo(f', NReq) = SumTo(f, NReq) + EventShare(e, c)
      <4>1. r \in 1..NReq /\ EventShare(e, c) \in Nat
        BY <1>6, EventShareNat DEF Req
      <4> HIDE DEF f
      <4>2. QED
        BY <2>1, <3>1, <4>1, SumToAdd
    <3>3. periods'[a][m][c] = periods[a][m][c] + EventShare(e, c)
      BY <1>8, <2>5 DEF TypeOK
    <3>4. /\ SumTo(f, NReq) \in Nat /\ SumTo(h, NReq) \in Nat /\ EventShare(e, c) \in Nat
      BY <1>6, <2>1, SumToNat, EventShareNat
    <3> HIDE DEF f, h
    <3>5. QED
      BY <2>2, <2>3, <2>4, <3>2, <3>3, <3>4
  <2>6. CASE ~(a = Owner[r] /\ m = e.period)
    <3>1. f' = f
      BY <1>1, <1>2, <1>5, <2>6 DEF EventShares
    <3>2. periods'[a][m][c] = periods[a][m][c]
      BY <1>6, <1>8, <2>6 DEF TypeOK
    <3> HIDE DEF f, h
    <3>3. QED
      BY <2>2, <2>3, <2>4, <3>1, <3>2
  <2>7. QED
    BY <2>5, <2>6
<1>10. AdjustmentColumnsKept /\ GrantColumnsKept
  BY <1>1, AdjustmentFrame, GrantFrame
<1>11. QED
  BY <1>1, <1>7, <1>9, <1>10 DEF CountersExplained, AdjustmentColumnsKept, GrantColumnsKept,
     SpentBy, CreditBy

\* The account update adds the credit share of its event to its owner's spend.
LEMMA UpdateSpentCounters ==
  ASSUME TypeOK, RowsOwned, CountersExplained, NEW r \in Req, updateSpent(r)
  PROVE  CountersExplained'
<1> USE DEF requestVars, grantVars, workVars
<1> DEFINE e == Event(local[r])
<1>1. UNCHANGED <<created, credit, periods, grants, paidKeys, events, adjustments, trued>>
  BY DEF updateSpent
<1>2. r \in DOMAIN events /\ events[r] = e /\ landed[r] = {"period"}
  BY DEF updateSpent, RowsOwned, RequestOwns
<1>3. landed' = [landed EXCEPT ![r] = {"period", "account"}]
  BY <1>2 DEF updateSpent
<1>4. Charged' = Charged \cup {r} /\ r \notin Charged
  BY <1>2, <1>3 DEF Charged, TypeOK
<1>5. Rolled' = Rolled
  BY <1>2, <1>3 DEF Rolled, TypeOK
<1>6. e.from_credit \in Nat /\ Owner[r] \in Account /\ r \in 1..NReq
  BY EventType DEF TypeOK, EventRow, Cost, Req
<1>7. \A a \in Account, m \in Month, c \in Column :
        EventShares(a, m, c, Rolled)' = EventShares(a, m, c, Rolled)
  BY <1>1, <1>5 DEF EventShares
<1>8. spent' = [spent EXCEPT ![Owner[r]] = @ + e.from_credit]
  BY DEF updateSpent
<1> HIDE DEF e
<1>9. AdjustmentColumnsKept /\ GrantColumnsKept
  BY <1>1, AdjustmentFrame, GrantFrame
<1>10. ASSUME NEW a \in Account
       PROVE  spent'[a] = SpentBy(a, Charged, trued)'
  <2> DEFINE f == CreditCharges(a, Charged)
             h == TrueUps(a, "spend", trued)
  <2>1. f \in [1..NReq -> Nat] /\ h \in [1..NReq -> Nat]
    BY ColumnTypes
  <2>2. h' = h
    BY <1>1 DEF TrueUps
  <2>3. spent[a] = SumTo(f, NReq) + SumTo(h, NReq)
    BY <1>10 DEF CountersExplained, SpentBy
  <2>4. SpentBy(a, Charged, trued)' = SumTo(f', NReq) + SumTo(h', NReq)
    BY DEF SpentBy
  <2>5. SumTo(f, NReq) \in Nat /\ SumTo(h, NReq) \in Nat
    BY <2>1, SumToNat
  <2>6. CASE a = Owner[r]
    <3>1. f' = [f EXCEPT ![r] = f[r] + e.from_credit]
      <4>1. f[r] = 0
        BY <1>4 DEF CreditCharges
      <4>2. f'[r] = e.from_credit
        BY <1>1, <1>2, <1>4, <2>6 DEF CreditCharges
      <4>3. \A q \in Req \ {r} : f'[q] = f[q]
        BY <1>1, <1>4 DEF CreditCharges
      <4>4. f' = [q \in Req |-> f'[q]] /\ f = [q \in Req |-> f[q]]
        BY DEF CreditCharges
      <4> HIDE DEF f
      <4>5. QED
        BY <1>6, <4>1, <4>2, <4>3, <4>4
    <3> HIDE DEF f, h
    <3>2. SumTo(f', NReq) = SumTo(f, NReq) + e.from_credit
      BY <1>6, <2>1, <3>1, SumToAdd
    <3>3. spent'[a] = spent[a] + e.from_credit
      BY <1>8, <2>6 DEF TypeOK
    <3>4. QED
      BY <1>6, <2>2, <2>3, <2>4, <2>5, <3>2, <3>3
  <2>7. CASE a # Owner[r]
    <3>1. f' = f
      BY <1>1, <1>4, <2>7 DEF CreditCharges
    <3>2. spent'[a] = spent[a]
      BY <1>6, <1>8, <2>7 DEF TypeOK
    <3> HIDE DEF f, h
    <3>3. QED
      BY <2>2, <2>3, <2>4, <3>1, <3>2
  <2>8. QED
    BY <2>6, <2>7
<1>11. QED
  BY <1>1, <1>7, <1>9, <1>10 DEF CountersExplained, AdjustmentColumnsKept, GrantColumnsKept,
     CreditBy, PeriodBy

\* A grant row is in no sum until its credit lands, and then for its amount.
LEMMA GrantCounters ==
  ASSUME TypeOK, RowsOwned, CountersExplained, NEW c \in Caller, GrantStep(c)
  PROVE  CountersExplained'
<1> USE DEF tables, requestVars, grantVars, workVars
<1>1. UNCHANGED <<created, spent, periods, events, landed, adjustments, trued>>
  BY DEF GrantStep, insertGrant, updateCredit, replyGrant, cutGrant
<1>2. EventColumnsKept /\ AdjustmentColumnsKept
  BY <1>1, EventFrame, AdjustmentFrame
<1>3. ASSUME NEW k \in Key, NEW a \in Account, NEW amount \in Grant,
             insertGrant(c, k, a, amount)
      PROVE  CountersExplained'
  <2>1. paidKeys' = paidKeys /\ credit' = credit
    BY <1>3 DEF insertGrant
  <2>2. GrantColumnsKept
    <3>1. CASE grants' = grants
      BY <2>1, <3>1, GrantFrame
    <3>2. CASE k \notin DOMAIN grants /\ DOMAIN grants' = DOMAIN grants \cup {k}
               /\ \A j \in DOMAIN grants : grants'[j] = grants[j]
      <4>1. k \notin paidKeys
        BY <3>2 DEF RowsOwned, CallerOwns
      <4>2. QED
        BY <2>1, <3>2, <4>1 DEF GrantColumnsKept, TopUps
    <3>3. QED
      BY <1>3, <3>1, <3>2 DEF insertGrant, Insert
  <2>3. QED
    BY <1>1, <1>2, <2>1, <2>2, CountersKept
<1>4. CASE updateCredit(c)
  <2> DEFINE k == call[c].key
             g == grants[k]
  <2>1. k \in DOMAIN grants /\ k \notin paidKeys /\ k \in Key /\ k \in 1..NKey
    BY <1>4 DEF updateCredit, RowsOwned, CallerOwns, TypeOK, Table, Key
  <2>2. g.account \in Account /\ g.micro_usd \in Nat
    BY <2>1 DEF TypeOK, Table, GrantRow, Grant
  <2>3. /\ credit' = [credit EXCEPT ![g.account] = @ + g.micro_usd]
        /\ paidKeys' = paidKeys \cup {k} /\ grants' = grants
    BY <1>4 DEF updateCredit
  <2> HIDE DEF k
  <2>4. ASSUME NEW a \in Account
        PROVE  credit'[a] = CreditBy(a, paidKeys, trued)'
    <3> DEFINE f == TopUps(a, paidKeys)
               s == SumTo(TrueUps(a, "credit", trued), NReq)
               o == IF a \in created THEN Signup ELSE 0
    <3>1. f \in [1..NKey -> Nat] /\ TrueUps(a, "credit", trued) \in [1..NReq -> Nat]
      BY ColumnTypes
    <3>2. s' = s /\ o' = o
      BY <1>1, <1>2, <2>4 DEF AdjustmentColumnsKept
    <3>3. credit[a] = o + SumTo(f, NKey) + s
      BY <2>4 DEF CountersExplained, CreditBy
    <3>4. CreditBy(a, paidKeys, trued)' = o' + SumTo(f', NKey) + s'
      BY DEF CreditBy
    <3>5. SumTo(f, NKey) \in Nat /\ s \in Nat /\ o \in Nat
      BY <3>1, SumToNat
    <3>6. CASE a = g.account
      <4>1. f' = [f EXCEPT ![k] = f[k] + g.micro_usd]
        <5>1. f[k] = 0 /\ f'[k] = g.micro_usd
          BY <2>1, <2>3, <3>6 DEF TopUps
        <5>2. \A j \in Key \ {k} : f'[j] = f[j]
          BY <2>3 DEF TopUps
        <5>3. f' = [j \in Key |-> f'[j]] /\ f = [j \in Key |-> f[j]]
          BY DEF TopUps
        <5> HIDE DEF f, g
        <5>4. QED
          BY <2>2, <5>1, <5>2, <5>3
      <4> HIDE DEF f, g, s, o
      <4>2. SumTo(f', NKey) = SumTo(f, NKey) + g.micro_usd
        BY <2>1, <2>2, <3>1, <4>1, SumToAdd
      <4>3. credit'[a] = credit[a] + g.micro_usd
        BY <2>3, <3>6 DEF TypeOK
      <4>4. QED
        BY <2>2, <3>2, <3>3, <3>4, <3>5, <4>2, <4>3
    <3>7. CASE a # g.account
      <4>1. f' = f
        BY <2>3, <3>7 DEF TopUps
      <4>2. credit'[a] = credit[a]
        BY <2>2, <2>3, <3>7 DEF TypeOK
      <4> HIDE DEF f, s, o
      <4>3. QED
        BY <3>2, <3>3, <3>4, <4>1, <4>2
    <3>8. QED
      BY <3>6, <3>7
  <2>5. QED
    BY <1>1, <1>2, <2>4 DEF CountersExplained, EventColumnsKept, AdjustmentColumnsKept,
       SpentBy, PeriodBy
<1>5. CASE replyGrant(c) \/ cutGrant(c)
  <2>1. UNCHANGED <<grants, paidKeys, credit>>
    BY <1>5 DEF replyGrant, cutGrant
  <2>2. QED
    BY <1>1, <1>2, <2>1, GrantFrame, CountersKept
<1>6. QED
  BY <1>3, <1>4, <1>5 DEF GrantStep

\* An adjustment is in no sum until its batch moves the money, and then once.
LEMMA MoveMoneyCounters ==
  ASSUME TypeOK, RowsOwned, CountersExplained, NEW w \in Worker, moveMoney(w)
  PROVE  CountersExplained'
<1> USE DEF requestVars, grantVars
<1> DEFINE r == work[w].req
           x == adjustments[r]
<1>1. UNCHANGED <<created, grants, paidKeys, events, landed, adjustments>>
  BY DEF moveMoney
<1>2. EventColumnsKept /\ GrantColumnsKept
  BY <1>1, EventFrame, GrantFrame
<1>3. r \in DOMAIN adjustments /\ r \notin trued /\ r \in Req /\ r \in 1..NReq
  BY DEF moveMoney, RowsOwned, WorkerOwns, TypeOK, Table, Req
<1>4. x \in AdjustmentRow /\ Owner[r] \in Account
  BY <1>3 DEF TypeOK, Table
<1>5. x.applied \in Nat /\ x.period \in Month /\ x.direction \in {"spend", "credit"}
  BY <1>4 DEF AdjustmentRow, Cost
<1>6. trued' = trued \cup {r}
  BY DEF moveMoney
<1>7. /\ spent' = IF x.direction = "spend"
                  THEN [spent EXCEPT ![Owner[r]] = @ + x.applied] ELSE spent
      /\ credit' = IF x.direction = "credit"
                   THEN [credit EXCEPT ![Owner[r]] = @ + x.applied] ELSE credit
      /\ periods' = [periods EXCEPT ![Owner[r]][x.period] =
                       [c \in Column |-> @[c] + AdjustmentShare(x, c)]]
  BY DEF moveMoney
<1> HIDE DEF r
<1>8. ASSUME NEW a \in Account, NEW d \in {"spend", "credit"}
      PROVE  SumTo(TrueUps(a, d, trued)', NReq)
               = SumTo(TrueUps(a, d, trued), NReq)
                   + (IF a = Owner[r] /\ x.direction = d THEN x.applied ELSE 0)
  <2> DEFINE f == TrueUps(a, d, trued)
             n == IF a = Owner[r] /\ x.direction = d THEN x.applied ELSE 0
  <2>1. f \in [1..NReq -> Nat]
    BY ColumnTypes
  <2>2. f[r] = 0 /\ f'[r] = n
    BY <1>1, <1>3, <1>6 DEF TrueUps
  <2>3. \A q \in Req \ {r} : f'[q] = f[q]
    BY <1>1, <1>6 DEF TrueUps
  <2>4. f' = [q \in Req |-> f'[q]] /\ f = [q \in Req |-> f[q]]
    BY DEF TrueUps
  <2>5. n \in Nat
    BY <1>5
  <2> HIDE DEF f, n
  <2>6. f' = [f EXCEPT ![r] = f[r] + n]
    BY <2>2, <2>3, <2>4, <2>5
  <2>7. SumTo(f', NReq) = SumTo(f, NReq) + n
    BY <1>3, <2>1, <2>5, <2>6, SumToAdd
  <2>8. QED
    BY <2>7 DEF f, n
<1>9. ASSUME NEW a \in Account, NEW m \in Month, NEW c \in Column
      PROVE  SumTo(AdjustmentShares(a, m, c, trued)', NReq)
               = SumTo(AdjustmentShares(a, m, c, trued), NReq)
                   + (IF a = Owner[r] /\ x.period = m THEN AdjustmentShare(x, c) ELSE 0)
  <2> DEFINE f == AdjustmentShares(a, m, c, trued)
             n == IF a = Owner[r] /\ x.period = m THEN AdjustmentShare(x, c) ELSE 0
  <2>1. f \in [1..NReq -> Nat]
    BY <1>9, ColumnTypes
  <2>2. f[r] = 0 /\ f'[r] = n
    BY <1>1, <1>3, <1>6 DEF AdjustmentShares
  <2>3. \A q \in Req \ {r} : f'[q] = f[q]
    BY <1>1, <1>6 DEF AdjustmentShares
  <2>4. f' = [q \in Req |-> f'[q]] /\ f = [q \in Req |-> f[q]]
    BY DEF AdjustmentShares
  <2>5. n \in Nat
    BY <1>4, <1>9, AdjustmentShareNat
  <2> HIDE DEF f, n
  <2>6. f' = [f EXCEPT ![r] = f[r] + n]
    BY <2>2, <2>3, <2>4, <2>5
  <2>7. SumTo(f', NReq) = SumTo(f, NReq) + n
    BY <1>3, <2>1, <2>5, <2>6, SumToAdd
  <2>8. QED
    BY <2>7 DEF f, n
<1>10. ASSUME NEW a \in Account
       PROVE  /\ spent'[a] = SpentBy(a, Charged, trued)'
              /\ credit'[a] = CreditBy(a, paidKeys, trued)'
  <2>1. /\ SumTo(CreditCharges(a, Charged), NReq) \in Nat
        /\ SumTo(TopUps(a, paidKeys), NKey) \in Nat
        /\ \A d : SumTo(TrueUps(a, d, trued), NReq) \in Nat
    BY ColumnTypes, SumToNat
  <2>2. /\ spent[a] = SpentBy(a, Charged, trued)
        /\ credit[a] = CreditBy(a, paidKeys, trued)
        /\ CreditCharges(a, Charged)' = CreditCharges(a, Charged)
        /\ TopUps(a, paidKeys)' = TopUps(a, paidKeys)
    BY <1>2, <1>10 DEF CountersExplained, EventColumnsKept, GrantColumnsKept
  <2> HIDE DEF x
  <2>3. /\ spent'[a] = spent[a] + (IF a = Owner[r] /\ x.direction = "spend" THEN x.applied ELSE 0)
        /\ credit'[a] = credit[a] + (IF a = Owner[r] /\ x.direction = "credit" THEN x.applied ELSE 0)
    BY <1>4, <1>5, <1>7 DEF TypeOK
  <2>4. spent'[a] = SpentBy(a, Charged, trued)'
    BY <1>5, <1>8, <2>1, <2>2, <2>3 DEF SpentBy
  <2>5. credit'[a] = CreditBy(a, paidKeys, trued)'
    BY <1>1, <1>5, <1>8, <2>1, <2>2, <2>3 DEF CreditBy
  <2>6. QED
    BY <2>4, <2>5
<1>11. ASSUME NEW a \in Account, NEW m \in Month, NEW c \in Column
       PROVE  periods'[a][m][c] = PeriodBy(a, m, c, Rolled, trued)'
  <2>1. /\ SumTo(EventShares(a, m, c, Rolled), NReq) \in Nat
        /\ SumTo(AdjustmentShares(a, m, c, trued), NReq) \in Nat
        /\ AdjustmentShare(x, c) \in Nat
    BY <1>4, <1>11, ColumnTypes, SumToNat, AdjustmentShareNat
  <2>2. /\ periods[a][m][c] = PeriodBy(a, m, c, Rolled, trued)
        /\ EventShares(a, m, c, Rolled)' = EventShares(a, m, c, Rolled)
    BY <1>2, <1>11 DEF CountersExplained, EventColumnsKept
  <2>3. periods'[a][m][c] = periods[a][m][c]
          + (IF a = Owner[r] /\ x.period = m THEN AdjustmentShare(x, c) ELSE 0)
    <3> HIDE DEF x
    <3>1. QED
      BY <1>4, <1>5, <1>7, <2>1 DEF TypeOK
  <2>4. QED
    BY <1>9, <2>1, <2>2, <2>3 DEF PeriodBy
<1>12. QED
  BY <1>10, <1>11 DEF CountersExplained

\* A true-up: decided, audited, moved or cut.
LEMMA WorkCounters ==
  ASSUME TypeOK, RowsOwned, CountersExplained, NEW w \in Worker, WorkStep(w)
  PROVE  CountersExplained'
<1> USE DEF tables, requestVars, grantVars, workVars
<1>1. CASE moveMoney(w)
  BY <1>1, MoveMoneyCounters
<1>2. CASE insertAdjustment(w)
  <2>1. UNCHANGED <<created, credit, spent, periods, grants, paidKeys, events, landed, trued>>
    BY <1>2 DEF insertAdjustment
  <2>2. AdjustmentColumnsKept
    <3> DEFINE r == work[w].req
    <3>1. CASE adjustments' = adjustments
      BY <2>1, <3>1, AdjustmentFrame
    <3>2. CASE r \notin DOMAIN adjustments /\ DOMAIN adjustments' = DOMAIN adjustments \cup {r}
               /\ \A q \in DOMAIN adjustments : adjustments'[q] = adjustments[q]
      <4>1. r \notin trued
        BY <3>2 DEF RowsOwned, WorkerOwns
      <4> HIDE DEF r
      <4>2. QED
        BY <2>1, <3>2, <4>1 DEF AdjustmentColumnsKept, TrueUps, AdjustmentShares
    <3>3. QED
      BY <1>2, <3>1, <3>2 DEF insertAdjustment, Insert
  <2>3. QED
    BY <2>1, <2>2, EventFrame, GrantFrame, CountersKept
<1>3. CASE (\E r \in Req : decideAdjustment(w, r)) \/ cutAdjustment(w)
  <2>1. UNCHANGED <<created, credit, spent, periods, grants, paidKeys, events, landed,
                    adjustments, trued>>
    BY <1>3 DEF decideAdjustment, cutAdjustment
  <2>2. QED
    BY <2>1, EventFrame, GrantFrame, AdjustmentFrame, CountersKept
<1>4. QED
  BY <1>1, <1>2, <1>3 DEF WorkStep

\* Every step keeps the counters explained.
LEMMA NextCountersExplained ==
  ASSUME TypeOK, RowsOwned, CountersExplained, [Next]_vars
  PROVE  CountersExplained'
<1> USE DEF tables, requestVars, grantVars, workVars, vars
<1>1. ASSUME NEW b \in Account, createAccount(b)
      PROVE  CountersExplained'
  <2>1. UNCHANGED <<spent, periods, grants, paidKeys, events, landed, adjustments, trued>>
    BY <1>1 DEF createAccount
  <2>2. EventColumnsKept /\ AdjustmentColumnsKept /\ GrantColumnsKept
    BY <2>1, EventFrame, AdjustmentFrame, GrantFrame
  <2>3. credit[b] = 0
    BY <1>1 DEF createAccount, RowsOwned, AccountsFirst
  <2>4. \A a \in Account : credit'[a] = IF a = b THEN Signup ELSE credit[a]
    BY <1>1 DEF createAccount, TypeOK
  <2>5. \A a \in Account : SumTo(TopUps(a, paidKeys), NKey) \in Nat
                           /\ SumTo(TrueUps(a, "credit", trued), NReq) \in Nat
    BY ColumnTypes, SumToNat
  <2>6. \A a \in Account : credit'[a] = CreditBy(a, paidKeys, trued)'
    <3>1. created' = created \cup {b} /\ b \notin created
      BY <1>1 DEF createAccount
    <3>2. QED
      BY <2>2, <2>3, <2>4, <2>5, <3>1
         DEF CountersExplained, CreditBy, AdjustmentColumnsKept, GrantColumnsKept
  <2>7. QED
    BY <2>1, <2>2, <2>6 DEF CountersExplained, EventColumnsKept, AdjustmentColumnsKept,
       SpentBy, PeriodBy
<1>2. CASE NextMonth \/ UNCHANGED vars
  <2>1. UNCHANGED <<created, credit, spent, periods, grants, paidKeys, events, landed,
                    adjustments, trued>>
    BY <1>2 DEF NextMonth
  <2>2. QED
    BY <2>1, EventFrame, GrantFrame, AdjustmentFrame, CountersKept
<1>3. ASSUME NEW r \in Req, Step(r) \/ resolveClient(r) \/ Reject(r) \/ Crash(r)
      PROVE  CountersExplained'
  <2>1. CASE insertEvent(r) \/ upsertPeriod(r) \/ updateSpent(r)
    BY <2>1, InsertEventCounters, UpsertPeriodCounters, UpdateSpentCounters
  <2>2. CASE ~(insertEvent(r) \/ upsertPeriod(r) \/ updateSpent(r))
    <3>1. UNCHANGED <<created, credit, spent, periods, grants, paidKeys, events, landed,
                      adjustments, trued>>
      BY <1>3, <2>2 DEF Step, resolveClient, Reject, Crash, Gate, Serve, ServeUnpriced,
         UpstreamError, buildEvent, Answer
    <3>2. QED
      BY <3>1, EventFrame, GrantFrame, AdjustmentFrame, CountersKept
  <2>3. QED
    BY <2>1, <2>2
<1>4. QED
  BY <1>1, <1>2, <1>3, GrantCounters, WorkCounters DEF Next, GrantStep, WorkStep

-----------------------------------------------------------------------------
(***************************************************************************)
(* The theorems.                                                           *)
(***************************************************************************)

\* The inductive invariant: the types need the rows in place (an update reads
\* the row its caller inserted), and the sums need both.
IInv == TypeOK /\ RowsOwned /\ CountersExplained

\* The empty database satisfies it.
LEMMA InitIInv == Init => IInv
<1> SUFFICES ASSUME Init PROVE IInv
  OBVIOUS
<1>1. TypeOK
  BY InitTypeOK
<1>2. RowsOwned
  BY DEF Init, RowsOwned, RequestOwns, CallerOwns, WorkerOwns, AccountsFirst, InFlight, Idle
<1>3. \A a \in Account :
        /\ SpentBy(a, Charged, trued) = 0
        /\ CreditBy(a, paidKeys, trued) = 0
        /\ \A m \in Month, c \in Column : PeriodBy(a, m, c, Rolled, trued) = 0
  <2> TAKE a \in Account
  <2>1. /\ \A i \in 1..NReq : CreditCharges(a, Charged)[i] = 0
        /\ \A d : \A i \in 1..NReq : TrueUps(a, d, trued)[i] = 0
        /\ \A i \in 1..NKey : TopUps(a, paidKeys)[i] = 0
        /\ \A m, c : \A i \in 1..NReq : EventShares(a, m, c, Rolled)[i] = 0
        /\ \A m, c : \A i \in 1..NReq : AdjustmentShares(a, m, c, trued)[i] = 0
    BY DEF Init, CreditCharges, TrueUps, TopUps, EventShares, AdjustmentShares, Req, Key
  <2>2. /\ SumTo(CreditCharges(a, Charged), NReq) = 0
        /\ \A d : SumTo(TrueUps(a, d, trued), NReq) = 0
        /\ SumTo(TopUps(a, paidKeys), NKey) = 0
        /\ \A m, c : SumTo(EventShares(a, m, c, Rolled), NReq) = 0
        /\ \A m, c : SumTo(AdjustmentShares(a, m, c, trued), NReq) = 0
    BY <2>1, SumToZero
  <2>3. a \notin created
    BY DEF Init
  <2>4. QED
    BY <2>2, <2>3 DEF SpentBy, CreditBy, PeriodBy
<1>4. CountersExplained
  BY <1>3 DEF Init, CountersExplained
<1>5. QED
  BY <1>1, <1>2, <1>4 DEF IInv

\* The invariant is inductive.
LEMMA NextIInv == IInv /\ [Next]_vars => IInv'
BY NextTypeOK, NextRowsOwned, NextCountersExplained DEF IInv

\* It holds in every reachable state.
LEMMA AlwaysIInv == Spec => []IInv
BY InitIInv, NextIInv, PTL DEF Spec

\* Every column stays a natural and every row keeps its shape, for any number of
\* accounts, requests, grants and runs (store-d1.ts).
THEOREM TypeCorrect == Spec => []TypeOK
<1>1. IInv => TypeOK
  BY DEF IInv
<1>2. QED
  BY <1>1, AlwaysIInv, PTL

\* An INSERT OR IGNORE that took effect gives its caller the row's counter
\* updates for itself (store-d1.ts, the meta.changes gates).
THEOREM RowsAreOwned == Spec => []RowsOwned
<1>1. IInv => RowsOwned
  BY DEF IInv
<1>2. QED
  BY <1>1, AlwaysIInv, PTL

\* Every counter is the re-sum of exactly the rows whose update landed
\* (store-d1.ts recordUsage, grantCredit, applyUsageAdjustment).
THEOREM CountersAreExplained == Spec => []CountersExplained
<1>1. IInv => CountersExplained
  BY DEF IInv
<1>2. QED
  BY <1>1, AlwaysIInv, PTL

\* No crash, rejection, retry or interleaving charges an account above its
\* ledger rows, or credits it above its grants and true-ups.
THEOREM NoOvercharge == Spec => []NeverAboveLedger
<1>1. IInv => NeverAboveLedger
  BY AuditMonotone DEF IInv
<1>2. QED
  BY <1>1, AlwaysIInv, PTL

\* Every step only adds rows and only raises columns.
LEMMA NextAppendOnly == IInv /\ [Next]_vars => [AppendOnly]_vars
<1> SUFFICES ASSUME TypeOK, RowsOwned, Next
             PROVE  AppendOnly
  BY DEF IInv
<1> USE DEF tables, requestVars, grantVars, workVars
<1> DEFINE RowsKept ==
             /\ \A r \in DOMAIN events : r \in DOMAIN events' /\ events'[r] = events[r]
             /\ \A k \in DOMAIN grants : k \in DOMAIN grants' /\ grants'[k] = grants[k]
             /\ \A r \in DOMAIN adjustments :
                  r \in DOMAIN adjustments' /\ adjustments'[r] = adjustments[r]
           PeriodsGrow ==
             \A a \in Account, m \in Month, c \in Column : periods'[a][m][c] >= periods[a][m][c]
<1>0. /\ \A a \in Account : spent[a] \in Nat /\ credit[a] \in Nat
      /\ \A a \in Account, m \in Month, c \in Column : periods[a][m][c] \in Nat
  BY DEF TypeOK
<1>1. RowsKept
  <2>1. ASSUME NEW r \in Req, Step(r) \/ resolveClient(r) \/ Reject(r) \/ Crash(r)
        PROVE  RowsKept
    <3>1. grants' = grants /\ adjustments' = adjustments
      BY <2>1 DEF Step, resolveClient, Reject, Crash, Gate, Serve, ServeUnpriced,
         UpstreamError, buildEvent, insertEvent, upsertPeriod, updateSpent, Answer
    <3>2. \/ events' = events
          \/ r \notin DOMAIN events /\ events' = Insert(events, r, Event(local[r]))
      BY <2>1 DEF Step, resolveClient, Reject, Crash, Gate, Serve, ServeUnpriced,
         UpstreamError, buildEvent, insertEvent, upsertPeriod, updateSpent, Answer
    <3>3. QED
      BY <3>1, <3>2 DEF Insert
  <2>2. ASSUME NEW c \in Caller, GrantStep(c)
        PROVE  RowsKept
    BY <2>2 DEF GrantStep, insertGrant, updateCredit, replyGrant, cutGrant, Insert
  <2>3. ASSUME NEW w \in Worker, WorkStep(w)
        PROVE  RowsKept
    BY <2>3 DEF WorkStep, decideAdjustment, insertAdjustment, moveMoney, cutAdjustment, Insert
  <2>4. CASE (\E a \in Account : createAccount(a)) \/ NextMonth
    BY <2>4 DEF createAccount, NextMonth
  <2>5. QED
    BY <2>1, <2>2, <2>3, <2>4 DEF Next, GrantStep, WorkStep
<1>2. ASSUME NEW a \in Account, createAccount(a)
      PROVE  AppendOnly
  <2>1. credit[a] = 0 /\ Signup \in Nat
    BY <1>2 DEF createAccount, RowsOwned, AccountsFirst
  <2>2. QED
    BY <1>0, <1>1, <1>2, <2>1 DEF createAccount, AppendOnly, TypeOK
<1>3. ASSUME NEW r \in Req, upsertPeriod(r)
      PROVE  AppendOnly
  <2> DEFINE e == Event(local[r])
             share == [c \in Column |-> EventShare(e, c)]
  <2>1. Owner[r] \in Account /\ e \in EventRow /\ e.period \in Month
    BY EventType DEF TypeOK, EventRow
  <2>2. share \in [Column -> Nat]
    BY <2>1, EventShareNat
  <2>3. periods' = [periods EXCEPT ![Owner[r]][e.period] = [c \in Column |-> @[c] + share[c]]]
    BY <1>3 DEF upsertPeriod
  <2>4. PeriodsGrow
    <3> HIDE DEF e, share
    <3>1. QED
      BY <1>0, <2>1, <2>2, <2>3 DEF TypeOK
  <2>5. spent' = spent /\ credit' = credit
    BY <1>3 DEF upsertPeriod
  <2>6. QED
    BY <1>0, <1>1, <2>4, <2>5 DEF AppendOnly
<1>4. ASSUME NEW r \in Req, updateSpent(r)
      PROVE  AppendOnly
  <2>1. Owner[r] \in Account /\ Event(local[r]).from_credit \in Nat
    BY EventType DEF TypeOK, EventRow, Cost
  <2>2. \A a \in Account : spent'[a] >= spent[a]
    BY <1>0, <1>4, <2>1 DEF updateSpent, TypeOK
  <2>3. QED
    BY <1>0, <1>1, <1>4, <2>2 DEF updateSpent, AppendOnly
<1>5. ASSUME NEW c \in Caller, updateCredit(c)
      PROVE  AppendOnly
  <2>1. grants[call[c].key] \in GrantRow
    BY <1>5 DEF updateCredit, RowsOwned, CallerOwns, TypeOK, Table
  <2>2. grants[call[c].key].account \in Account /\ grants[call[c].key].micro_usd \in Nat
    BY <2>1 DEF GrantRow, Grant
  <2>3. \A a \in Account : credit'[a] >= credit[a]
    BY <1>0, <1>5, <2>2 DEF updateCredit, TypeOK
  <2>4. QED
    BY <1>0, <1>1, <1>5, <2>3 DEF updateCredit, AppendOnly
<1>6. ASSUME NEW w \in Worker, moveMoney(w)
      PROVE  AppendOnly
  <2> DEFINE r == work[w].req
             x == adjustments[r]
             share == [c \in Column |-> AdjustmentShare(x, c)]
  <2>1. r \in Req /\ r \in DOMAIN adjustments
    BY <1>6 DEF moveMoney, RowsOwned, WorkerOwns, TypeOK, Table
  <2>2. x \in AdjustmentRow /\ Owner[r] \in Account
    BY <2>1 DEF TypeOK, Table
  <2>3. x.applied \in Nat /\ x.period \in Month /\ share \in [Column -> Nat]
    BY <2>2, AdjustmentShareNat DEF AdjustmentRow, Cost
  <2>4. periods' = [periods EXCEPT ![Owner[r]][x.period] = [c \in Column |-> @[c] + share[c]]]
    BY <1>6 DEF moveMoney
  <2>5. \A a \in Account : spent'[a] >= spent[a] /\ credit'[a] >= credit[a]
    BY <1>0, <1>6, <2>2, <2>3 DEF moveMoney, TypeOK
  <2>6. PeriodsGrow
    <3>1. Owner[r] \in Account
      BY <2>2
    <3> HIDE DEF r, x, share
    <3>2. ASSUME NEW a \in Account, NEW m \in Month, NEW c \in Column
          PROVE  periods'[a][m][c] >= periods[a][m][c]
      <4>1. share[c] \in Nat
        BY <2>3, <3>2
      <4>2. periods'[a][m][c] = IF a = Owner[r] /\ m = x.period
                                THEN periods[a][m][c] + share[c] ELSE periods[a][m][c]
        BY <2>3, <2>4, <3>1, <3>2 DEF TypeOK
      <4>3. QED
        BY <1>0, <3>2, <4>1, <4>2
    <3>3. QED
      BY <3>2
  <2>7. QED
    BY <1>1, <2>5, <2>6 DEF AppendOnly
<1>7. ASSUME UNCHANGED <<spent, credit, periods>>
      PROVE  AppendOnly
  BY <1>0, <1>1, <1>7 DEF AppendOnly
<1>8. QED
  BY <1>2, <1>3, <1>4, <1>5, <1>6, <1>7 DEF Next, NextMonth, Step, resolveClient, Reject,
     Crash, Gate, Serve, ServeUnpriced, UpstreamError, buildEvent, insertEvent, Answer,
     insertGrant, replyGrant, cutGrant, decideAdjustment, insertAdjustment, cutAdjustment

\* A ledger row never changes or disappears, and no money column ever goes down
\* (migrations 0002 and 0003, balance.ts).
THEOREM LedgerIsAppendOnly == Spec => LedgerAppendOnly
BY AlwaysIInv, NextAppendOnly, PTL DEF Spec, LedgerAppendOnly
-----------------------------------------------------------------------------
(***************************************************************************)
(* From rows to counters: a recorded request is charged, and nothing is    *)
(* missing unless a statement was cut.                                     *)
(***************************************************************************)

\* Every counter update of request r has landed.
Landed(r) ==
  /\ r \in DOMAIN events /\ "period" \in landed[r]
  /\ events[r].from_credit > 0 => "account" \in landed[r]

Recorded == {"inserted", "rolled", "written", "done"}

\* A handler, unlike a job, comes to recordUsage once.
ReportedOf(r) ==
  /\ pc[r] \notin Recorded => r \notin DOMAIN events
  /\ pc[r] # "done" => answer[r] = "none"
  /\ pc[r] = "written" \/ answer[r] = "recorded" => Landed(r)
Reported == \A r \in Req \ Jobs : ReportedOf(r)

\* While nothing was cut, whoever inserted a row is still at its counters.
CompleteOf(r) ==
  r \in DOMAIN events =>
    /\ pc[r] \in Recorded
    /\ pc[r] # "inserted" => "period" \in landed[r]
    /\ pc[r] \in {"written", "done"} => Landed(r)
Unpaid == \A k \in DOMAIN grants \ paidKeys :
            \E c \in Caller : call[c].pc = "crediting" /\ call[c].key = k
Unmoved == \A r \in DOMAIN adjustments \ trued :
             \E w \in Worker : work[w].pc = "audited" /\ work[w].req = r
Complete == ~ cut => (\A r \in Req : CompleteOf(r)) /\ Unpaid /\ Unmoved

RequestStep(r) == Step(r) \/ resolveClient(r) \/ Reject(r) \/ Crash(r)

\* What a step of one request does to the others, and to the world.
LEMMA OtherRequests ==
  ASSUME TypeOK, NEW r \in Req, RequestStep(r)
  PROVE  /\ \A q \in Req \ {r} :
              /\ pc'[q] = pc[q] /\ local'[q] = local[q] /\ landed'[q] = landed[q]
              /\ answer'[q] = answer[q]
              /\ q \in DOMAIN events' <=> q \in DOMAIN events
              /\ q \in DOMAIN events => events'[q] = events[q]
         /\ UNCHANGED <<created, credit, grants, adjustments, month, grantVars, workVars>>
         /\ cut => cut'
<1>1. \A q \in Req \ {r} : answer'[q] = answer[q]
  BY DEF RequestStep, TypeOK, Step, resolveClient, Reject, Crash, Gate, Serve, ServeUnpriced,
         UpstreamError, buildEvent, insertEvent, upsertPeriod, updateSpent, Answer,
         GoTo, Finish
<1>2. UNCHANGED <<created, credit, grants, adjustments, month, grantVars, workVars>>
  BY DEF RequestStep, Step, resolveClient, Reject, Crash, Gate, Serve, ServeUnpriced,
         UpstreamError, buildEvent, insertEvent, upsertPeriod, updateSpent, Answer, tables
<1>3. cut => cut'
  BY DEF RequestStep, Step, resolveClient, Reject, Crash, Gate, Serve, ServeUnpriced,
         UpstreamError, buildEvent, insertEvent, upsertPeriod, updateSpent, Answer
<1>4. QED  BY <1>1, <1>2, <1>3, RequestFrame DEF RequestStep

\* What it does to its own phase, row and updates.
Advances(r) ==
  /\ pc[r] \in {"start", "authed", "admitted", "metered"}
  /\ pc'[r] \in {"authed", "admitted", "metered", "built", "done"}
  /\ pc'[r] # "done" => answer' = answer
  /\ answer'[r] # "recorded" \/ answer'[r] = answer[r]
  /\ UNCHANGED <<events, landed, cut>>
Gives(r) ==
  /\ pc[r] \in {"metered", "built", "inserted", "rolled", "written", "authed", "admitted"}
  /\ cut' = TRUE
  /\ \/ pc'[r] = "done" /\ answer'[r] # "recorded"
     \/ pc'[r] = "metered" /\ r \in Jobs /\ answer' = answer
  /\ UNCHANGED <<events, landed>>

LEMMA RequestMoves ==
  ASSUME TypeOK, NEW r \in Req, RequestStep(r)
  PROVE  \/ Advances(r) \/ Gives(r) \/ insertEvent(r) \/ upsertPeriod(r) \/ updateSpent(r)
         \/ Answer(r)
<1> USE DEF tables, requestVars, Advances, TypeOK, GoTo, Finish
<1>1. CASE resolveClient(r)  BY <1>1 DEF resolveClient
<1>2. CASE Gate(r)  BY <1>2 DEF Gate
<1>3. ASSUME NEW x \in Cost, NEW y \in Bill, Serve(r, x, y) PROVE Advances(r)  BY <1>3 DEF Serve
<1>4. ASSUME NEW y \in Bill, ServeUnpriced(r, y) PROVE Advances(r)  BY <1>4 DEF ServeUnpriced
<1>5. CASE UpstreamError(r)  BY <1>5 DEF UpstreamError
<1>6. CASE buildEvent(r)  BY <1>6 DEF buildEvent
<1>7. CASE Reject(r)  BY <1>7 DEF Reject, Gives
<1>8. CASE Crash(r)  BY <1>8 DEF Crash, Gives, InFlight, Phase
<1>9. QED  BY <1>1, <1>2, <1>3, <1>4, <1>5, <1>6, <1>7, <1>8 DEF RequestStep, Step

LEMMA StepReported ==
  ASSUME TypeOK, RowsOwned, Reported, NEW r \in Req, RequestStep(r)
  PROVE  Reported'
<1> SUFFICES ASSUME NEW q \in Req \ Jobs PROVE ReportedOf(q)'
  BY DEF Reported
<1>0. ReportedOf(q)  BY DEF Reported
<1> USE DEF ReportedOf, Landed, Recorded
<1>1. CASE q # r
  BY <1>0, <1>1, OtherRequests
<1>2. CASE q = r /\ Advances(r)  BY <1>0, <1>2 DEF Advances
<1>3. CASE q = r /\ Gives(r)  BY <1>0, <1>3 DEF Gives
<1>4. CASE q = r /\ insertEvent(r)
  BY <1>0, <1>4 DEF insertEvent, GoTo, TypeOK, Insert
<1>5. CASE q = r /\ upsertPeriod(r)
  <2>1. /\ pc[r] = "inserted" /\ UNCHANGED <<events, answer>> /\ landed'[r] = landed[r] \cup {"period"}
        /\ pc'[r] = IF local[r].metered /\ Event(local[r]).from_credit > 0 THEN "rolled" ELSE "written"
    BY <1>5 DEF upsertPeriod, GoTo, TypeOK, Event
  <2>2. r \in DOMAIN events /\ events[r] = Event(local[r])  BY <2>1 DEF RowsOwned, RequestOwns
  <2>3. ~ local[r].metered => events[r].from_credit = 0  BY <2>2 DEF Event
  <2>4. QED  BY <1>0, <1>5, <2>1, <2>2, <2>3
<1>6. CASE q = r /\ updateSpent(r)
  <2>1. /\ pc[r] = "rolled" /\ UNCHANGED <<events, answer>> /\ landed'[r] = landed[r] \cup {"account"}
        /\ pc'[r] = "written"
    BY <1>6 DEF updateSpent, GoTo, TypeOK
  <2>2. r \in DOMAIN events /\ landed[r] = {"period"}  BY <2>1 DEF RowsOwned, RequestOwns
  <2>3. QED  BY <1>0, <1>6, <2>1, <2>2
<1>7. CASE q = r /\ Answer(r)
  BY <1>0, <1>7 DEF Answer, Finish, GoTo, TypeOK, tables
<1>8. QED  BY <1>1, <1>2, <1>3, <1>4, <1>5, <1>6, <1>7, RequestMoves

LEMMA StepComplete ==
  ASSUME TypeOK, RowsOwned, Complete, NEW r \in Req, RequestStep(r)
  PROVE  Complete'
<1> SUFFICES ASSUME ~ cut' PROVE (\A q \in Req : CompleteOf(q)') /\ Unpaid' /\ Unmoved'
  BY DEF Complete
<1>0. ~ cut /\ \A q \in Req : CompleteOf(q)  BY OtherRequests DEF Complete
<1>1. Unpaid' /\ Unmoved'
  BY <1>0, OtherRequests DEF Complete, Unpaid, Unmoved, grantVars, workVars
<1> SUFFICES ASSUME NEW q \in Req PROVE CompleteOf(q)'
  BY <1>1
<1> USE DEF CompleteOf, Landed, Recorded
<1>2. CASE q # r
  BY <1>0, <1>2, OtherRequests
<1>3. CASE q = r /\ Advances(r)  BY <1>0, <1>3 DEF Advances
<1>4. CASE q = r /\ Gives(r)  BY <1>4 DEF Gives
<1>5. CASE q = r /\ insertEvent(r)
  BY <1>0, <1>5 DEF insertEvent, GoTo, TypeOK, Insert
<1>6. CASE q = r /\ upsertPeriod(r)
  <2>1. /\ pc[r] = "inserted" /\ UNCHANGED events /\ landed'[r] = landed[r] \cup {"period"}
        /\ pc'[r] = IF local[r].metered /\ Event(local[r]).from_credit > 0 THEN "rolled" ELSE "written"
    BY <1>6 DEF upsertPeriod, GoTo, TypeOK, Event
  <2>2. r \in DOMAIN events /\ events[r] = Event(local[r])  BY <2>1 DEF RowsOwned, RequestOwns
  <2>3. ~ local[r].metered => events[r].from_credit = 0  BY <2>2 DEF Event
  <2>4. QED  BY <1>0, <1>6, <2>1, <2>2, <2>3
<1>7. CASE q = r /\ updateSpent(r)
  <2>1. /\ pc[r] = "rolled" /\ UNCHANGED events /\ landed'[r] = landed[r] \cup {"account"}
        /\ pc'[r] = "written"
    BY <1>7 DEF updateSpent, GoTo, TypeOK
  <2>2. r \in DOMAIN events /\ landed[r] = {"period"}  BY <2>1 DEF RowsOwned, RequestOwns
  <2>3. QED  BY <1>0, <1>7, <2>1, <2>2
<1>8. CASE q = r /\ Answer(r)
  BY <1>0, <1>8 DEF Answer, Finish, GoTo, TypeOK, tables
<1>9. QED  BY <1>2, <1>3, <1>4, <1>5, <1>6, <1>7, <1>8, RequestMoves

\* A call of grantCredit leaves what the others hold.
LEMMA GrantHeld ==
  ASSUME NEW c \in Caller, \A d \in Caller \ {c} : call'[d] = call[d], Unpaid,
         NEW k \in DOMAIN grants \ paidKeys, call[c].pc = "crediting" => call[c].key # k
  PROVE  \E d \in Caller : call'[d].pc = "crediting" /\ call'[d].key = k
<1>1. PICK d \in Caller : call[d].pc = "crediting" /\ call[d].key = k  BY DEF Unpaid
<1>2. d # c  BY <1>1
<1>3. QED  BY <1>1, <1>2

\* A call that inserts a grant row holds it until its credit lands, or is cut.
LEMMA GrantComplete ==
  ASSUME TypeOK, RowsOwned, Complete, NEW c \in Caller, GrantStep(c)
  PROVE  Complete'
<1> SUFFICES ASSUME ~ cut' PROVE (\A q \in Req : CompleteOf(q)') /\ Unpaid' /\ Unmoved'
  BY DEF Complete
<1>1. /\ UNCHANGED <<events, adjustments, pc, landed, work, trued>>
      /\ ~ cut
      /\ \A d \in Caller \ {c} : call'[d] = call[d]
  BY DEF GrantStep, insertGrant, updateCredit, replyGrant, cutGrant, tables, requestVars, workVars,
         TypeOK
<1>2. (\A q \in Req : CompleteOf(q)') /\ Unmoved'
  BY <1>1 DEF Complete, CompleteOf, Landed, Unmoved
<1>3. \A k \in DOMAIN grants \ paidKeys :
        (call[c].pc = "crediting" => call[c].key # k) =>
          \E d \in Caller : call'[d].pc = "crediting" /\ call'[d].key = k
  <2>1. Unpaid  BY <1>1 DEF Complete
  <2>2. QED  BY <1>1, <2>1, GrantHeld
<1>4. ASSUME NEW k \in Key, NEW a \in Account, NEW x \in Grant, insertGrant(c, k, a, x)
      PROVE  Unpaid'
  <2>1. call[c].pc = "idle" /\ paidKeys' = paidKeys  BY <1>4 DEF insertGrant
  <2>2. CASE k \in DOMAIN grants
    <3>1. grants' = grants  BY <1>4, <2>2 DEF insertGrant
    <3>2. QED  BY <1>2, <1>3, <2>1, <3>1 DEF Unpaid
  <2>3. CASE k \notin DOMAIN grants
    <3>1. DOMAIN grants' = DOMAIN grants \cup {k}  BY <1>4, <2>3 DEF insertGrant, Insert
    <3>2. call'[c].pc = "crediting" /\ call'[c].key = k  BY <1>4, <2>3 DEF insertGrant, TypeOK
    <3>3. QED  BY <1>2, <1>3, <2>1, <3>1, <3>2 DEF Unpaid
  <2>4. QED  BY <2>2, <2>3
<1>5. CASE updateCredit(c)
  <2>1. grants' = grants /\ paidKeys' = paidKeys \cup {call[c].key}  BY <1>5 DEF updateCredit
  <2>2. QED  BY <1>2, <1>3, <2>1 DEF Unpaid
<1>6. CASE replyGrant(c)
  <2>1. UNCHANGED <<grants, paidKeys>> /\ call[c].pc = "reading"  BY <1>6 DEF replyGrant, tables
  <2>2. QED  BY <1>2, <1>3, <2>1 DEF Unpaid
<1>7. ~ cutGrant(c)  BY DEF cutGrant
<1>8. QED  BY <1>2, <1>4, <1>5, <1>6, <1>7 DEF GrantStep

\* A run leaves what the others hold.
LEMMA WorkHeld ==
  ASSUME NEW w \in Worker, \A v \in Worker \ {w} : work'[v] = work[v], Unmoved,
         NEW r \in DOMAIN adjustments \ trued, work[w].pc = "audited" => work[w].req # r
  PROVE  \E v \in Worker : work'[v].pc = "audited" /\ work'[v].req = r
<1>1. PICK v \in Worker : work[v].pc = "audited" /\ work[v].req = r  BY DEF Unmoved
<1>2. v # w  BY <1>1
<1>3. QED  BY <1>1, <1>2

\* A run that inserts an adjustment holds it until the money moves, or is cut.
LEMMA WorkComplete ==
  ASSUME TypeOK, RowsOwned, Complete, NEW w \in Worker, WorkStep(w)
  PROVE  Complete'
<1> SUFFICES ASSUME ~ cut' PROVE (\A q \in Req : CompleteOf(q)') /\ Unpaid' /\ Unmoved'
  BY DEF Complete
<1>1. /\ UNCHANGED <<events, grants, pc, landed, call, paidKeys>>
      /\ ~ cut
      /\ \A v \in Worker \ {w} : work'[v] = work[v]
  BY DEF WorkStep, decideAdjustment, insertAdjustment, moveMoney, cutAdjustment, tables, requestVars,
         grantVars, TypeOK
<1>2. (\A q \in Req : CompleteOf(q)') /\ Unpaid'
  BY <1>1 DEF Complete, CompleteOf, Landed, Unpaid
<1>3. \A r \in DOMAIN adjustments \ trued :
        (work[w].pc = "audited" => work[w].req # r) =>
          \E v \in Worker : work'[v].pc = "audited" /\ work'[v].req = r
  <2>1. Unmoved  BY <1>1 DEF Complete
  <2>2. QED  BY <1>1, <2>1, WorkHeld
<1>4. ASSUME NEW r \in Req, decideAdjustment(w, r) PROVE Unmoved'
  <2>1. work[w].pc = "idle" /\ UNCHANGED <<adjustments, trued>>  BY <1>4 DEF decideAdjustment, tables
  <2>2. QED  BY <1>2, <1>3, <2>1 DEF Unmoved
<1>5. CASE insertAdjustment(w)
  <2>1. work[w].pc = "decided" /\ trued' = trued  BY <1>5 DEF insertAdjustment
  <2>2. CASE work[w].req \in DOMAIN adjustments
    <3>1. adjustments' = adjustments  BY <1>5, <2>2 DEF insertAdjustment
    <3>2. QED  BY <1>2, <1>3, <2>1, <3>1 DEF Unmoved
  <2>3. CASE work[w].req \notin DOMAIN adjustments
    <3>1. DOMAIN adjustments' = DOMAIN adjustments \cup {work[w].req}
      BY <1>5, <2>3 DEF insertAdjustment, Insert
    <3>2. work[w] \in [pc: {"decided", "audited"}, req: Req, direction: {"spend", "credit"}, applied: Cost]
      BY <2>1 DEF TypeOK, Work, Idle
    <3>3. work'[w] = [work[w] EXCEPT !.pc = "audited"]
      BY <1>5, <2>3 DEF insertAdjustment, TypeOK
    <3>4. work'[w].pc = "audited" /\ work'[w].req = work[w].req  BY <3>2, <3>3
    <3>5. QED  BY <1>2, <1>3, <2>1, <3>1, <3>4 DEF Unmoved
  <2>4. QED  BY <2>2, <2>3
<1>6. CASE moveMoney(w)
  <2>1. adjustments' = adjustments /\ trued' = trued \cup {work[w].req}  BY <1>6 DEF moveMoney
  <2>2. QED  BY <1>2, <1>3, <2>1 DEF Unmoved
<1>7. ~ cutAdjustment(w)  BY DEF cutAdjustment
<1>8. QED  BY <1>2, <1>4, <1>5, <1>6, <1>7 DEF WorkStep

\* A grant or a run leaves the handlers alone.
LEMMA OthersReported ==
  ASSUME Reported, UNCHANGED <<pc, events, answer, landed>>
  PROVE  Reported'
BY DEF Reported, ReportedOf, Landed

Settled == Reported /\ Complete

LEMMA NextSettled ==
  ASSUME TypeOK, RowsOwned, Settled, [Next]_vars
  PROVE  Settled'
<1>1. ASSUME NEW r \in Req, RequestStep(r) PROVE Settled'
  BY <1>1, StepReported, StepComplete DEF Settled
<1>2. ASSUME NEW c \in Caller, GrantStep(c) PROVE Settled'
  <2>1. UNCHANGED <<pc, events, answer, landed>>
    BY <1>2 DEF GrantStep, insertGrant, updateCredit, replyGrant, cutGrant, tables, requestVars
  <2>2. QED  BY <1>2, <2>1, GrantComplete, OthersReported DEF Settled
<1>3. ASSUME NEW w \in Worker, WorkStep(w) PROVE Settled'
  <2>1. UNCHANGED <<pc, events, answer, landed>>
    BY <1>3 DEF WorkStep, decideAdjustment, insertAdjustment, moveMoney, cutAdjustment, tables, requestVars
  <2>2. QED  BY <1>3, <2>1, WorkComplete, OthersReported DEF Settled
<1>4. CASE (\E a \in Account : createAccount(a)) \/ NextMonth \/ UNCHANGED vars
  <2>1. UNCHANGED <<pc, events, answer, landed, grants, paidKeys, call, adjustments, trued, work, cut>>
    BY <1>4 DEF createAccount, NextMonth, vars, tables, requestVars, grantVars, workVars
  <2>2. Complete'  BY <2>1 DEF Settled, Complete, CompleteOf, Landed, Unpaid, Unmoved
  <2>3. QED  BY <2>1, <2>2, OthersReported DEF Settled
<1>5. QED  BY <1>1, <1>2, <1>3, <1>4 DEF Next, RequestStep, GrantStep, WorkStep

LEMMA InitSettled == Init => Settled
BY DEF Init, Settled, Reported, ReportedOf, Complete, CompleteOf, Landed, Unpaid, Unmoved

LEMMA AlwaysSettled == Spec => [](IInv /\ Settled)
<1>1. IInv /\ Settled /\ [Next]_vars => Settled'  BY NextSettled DEF IInv
<1>2. QED  BY <1>1, InitSettled, InitIInv, NextIInv, PTL DEF Spec

\* prism-usage-recorded: true is never sent for a charge that did not reach every
\* counter, whatever else runs or fails (chat.ts recordQuietly).
THEOREM RecordedAreCharged == Spec => []RecordedIsCharged
<1>1. IInv /\ Settled => RecordedIsCharged
  BY DEF Settled, Reported, ReportedOf, Landed, RecordedIsCharged, Rolled, Charged
<1>2. QED  BY <1>1, AlwaysSettled, PTL

\* Once no caller is at work and none was cut, every row has reached its counters.
LEMMA AllLanded ==
  ASSUME IInv, Settled, Quiet, ~ cut
  PROVE  /\ \A a \in Account : CreditCharges(a, Charged) = CreditCharges(a, Req)
         /\ \A a \in Account, m \in Month, c \in Column :
              EventShares(a, m, c, Rolled) = EventShares(a, m, c, Req)
         /\ \A a \in Account : TopUps(a, paidKeys) = TopUps(a, Key)
         /\ \A a \in Account, d \in {"spend", "credit"} : TrueUps(a, d, trued) = TrueUps(a, d, Req)
         /\ \A a \in Account, m \in Month, c \in Column :
              AdjustmentShares(a, m, c, trued) = AdjustmentShares(a, m, c, Req)
         /\ trued = DOMAIN adjustments
<1>1. \A r \in DOMAIN events : r \in Req /\ events[r].from_credit \in Nat
  BY DEF IInv, TypeOK, Table, EventRow, Cost
<1>2. \A r \in DOMAIN events : r \in Rolled /\ (events[r].from_credit > 0 => r \in Charged)
  BY <1>1 DEF Settled, Complete, CompleteOf, Landed, Quiet, InFlight, Rolled, Charged, Recorded
<1>3. \A k \in DOMAIN grants : k \in Key /\ k \in paidKeys
  BY DEF Settled, Complete, Unpaid, Quiet, IInv, TypeOK, Table
<1>4. \A r \in DOMAIN adjustments : r \in Req /\ r \in trued
  BY DEF Settled, Complete, Unmoved, Quiet, IInv, TypeOK, Table
<1>5. \A a \in Account : CreditCharges(a, Charged) = CreditCharges(a, Req)
  BY <1>1, <1>2 DEF CreditCharges
<1>6. \A a \in Account, m \in Month, c \in Column :
        EventShares(a, m, c, Rolled) = EventShares(a, m, c, Req)
  BY <1>1, <1>2 DEF EventShares
<1>7. \A a \in Account : TopUps(a, paidKeys) = TopUps(a, Key)  BY <1>3 DEF TopUps
<1>8. \A a \in Account, d \in {"spend", "credit"} : TrueUps(a, d, trued) = TrueUps(a, d, Req)
  BY <1>4 DEF TrueUps
<1>9. \A a \in Account, m \in Month, c \in Column :
        AdjustmentShares(a, m, c, trued) = AdjustmentShares(a, m, c, Req)
  BY <1>4 DEF AdjustmentShares
<1>10. trued = DOMAIN adjustments  BY <1>4 DEF IInv, RowsOwned, WorkerOwns
<1>11. QED  BY <1>5, <1>6, <1>7, <1>8, <1>9, <1>10

\* When nothing was cut and no call is in flight, every counter is exactly the re-sum
\* of its rows, for any number of callers and any interleaving of their statements.
THEOREM WholeCallsAreExact == Spec => []ExactUnlessCut
<1>1. IInv /\ Settled => ExactUnlessCut
  <2> SUFFICES ASSUME IInv, Settled, Quiet, ~ cut, NEW a \in Account
      PROVE  /\ spent[a] = SpentBy(a, Req, Req)
             /\ credit[a] = CreditBy(a, Key, Req)
             /\ \A m \in Month, c \in Column : periods[a][m][c] = PeriodBy(a, m, c, Req, Req)
    BY DEF ExactUnlessCut
  <2>1. /\ spent[a] = SpentBy(a, Charged, trued) /\ credit[a] = CreditBy(a, paidKeys, trued)
        /\ \A m \in Month, c \in Column : periods[a][m][c] = PeriodBy(a, m, c, Rolled, trued)
    BY DEF IInv, CountersExplained
  <2>2. QED  BY <2>1, AllLanded DEF SpentBy, CreditBy, PeriodBy
<1>2. QED  BY <1>1, AlwaysSettled, PTL

-----------------------------------------------------------------------------
(***************************************************************************)
(* What a row is worth, and what a true-up corrects.                       *)
(***************************************************************************)
\* The shares of a metered row make up its price; the bill is known before the row.
ValuedOf(r) ==
  /\ pc[r] \in {"start", "authed", "admitted"} => r \notin DOMAIN events /\ ~ local[r].metered
  /\ pc[r] \in {"built", "inserted", "rolled"} /\ local[r].metered =>
       local[r].from_allowance + local[r].from_credit = local[r].micro_usd
  /\ r \in DOMAIN events => events[r].from_allowance + events[r].from_credit = Estimate(r)

\* A true-up takes the ledger's price of r to what the gateway billed.
Corrects(r, direction, applied) ==
  /\ r \in DOMAIN events
  /\ direction = "spend" => billed[r] = Estimate(r) + applied
  /\ direction = "credit" => billed[r] = Estimate(r) - applied

Corrected ==
  /\ \A w \in Worker : work[w].pc # "idle" => Corrects(work[w].req, work[w].direction, work[w].applied)
  /\ \A r \in DOMAIN adjustments : Corrects(r, adjustments[r].direction, adjustments[r].applied)

Valued == (\A r \in Req : ValuedOf(r)) /\ Corrected

LEMMA BlankLocal == Blank \in Local /\ ~ Blank.metered /\ Blank.period = 1
BY DEF Blank, Local, Month, Cost

\* The split of a handler's charge adds up.
LEMMA BuiltAddsUp ==
  ASSUME TypeOK, NEW r \in Req, buildEvent(r)
  PROVE  /\ local'[r].from_allowance + local'[r].from_credit = local'[r].micro_usd
         /\ local'[r].micro_usd = local[r].micro_usd
<1> DEFINE m == BookingMonth(r)
           split == allocateCharge(local[r].micro_usd, Included, periods[Owner[r]][m]["allowance_spent"])
<1>1. local[r] \in Local /\ month \in Month /\ local[r].period \in Month  BY DEF TypeOK, Local
<1>2. m \in Month  BY <1>1 DEF BookingMonth
<1>3. periods[Owner[r]][m]["allowance_spent"] \in Nat
  BY <1>2 DEF TypeOK, Column
<1>4. local[r].micro_usd \in Nat  BY <1>1 DEF Local, Cost
<1>5. split.allowance + split.credit = local[r].micro_usd
  BY <1>3, <1>4, AllocateChargeSplits
<1>6. local'[r] = [local[r] EXCEPT !.period = m, !.from_allowance = split.allowance,
                                   !.from_credit = split.credit]
  BY DEF buildEvent, TypeOK
<1> HIDE DEF m, split
<1>7. /\ local'[r].from_allowance = split.allowance /\ local'[r].from_credit = split.credit
      /\ local'[r].micro_usd = local[r].micro_usd
  BY <1>1, <1>6 DEF Local
<1>8. QED  BY <1>5, <1>7

\* A row is worth what its handler split.
LEMMA InsertedIsValued ==
  ASSUME TypeOK, NEW r \in Req, ValuedOf(r), pc[r] = "built"
  PROVE  LET e == Event(local[r])
         IN e.from_allowance + e.from_credit = IF e.metered THEN e.micro_usd ELSE 0
BY DEF Event, ValuedOf

LEMMA StepValuedSelf ==
  ASSUME TypeOK, RowsOwned, NEW r \in Req, ValuedOf(r), RequestStep(r)
  PROVE  ValuedOf(r)' /\ (r \in DOMAIN events => billed'[r] = billed[r] /\ r \in DOMAIN events'
                                                /\ events'[r] = events[r])
<1> USE DEF tables, requestVars, ValuedOf, Estimate
<1>0. local[r] \in Local /\ month \in Month  BY DEF TypeOK
<1>1. CASE resolveClient(r)
  <2>1. /\ pc[r] = "start" /\ pc'[r] = "authed" /\ UNCHANGED <<events, billed>>
        /\ local'[r] = [Blank EXCEPT !.period = month, !.credit = credit[Owner[r]], !.spent = spent[Owner[r]]]
    BY <1>1 DEF resolveClient, GoTo, TypeOK
  <2>2. ~ local'[r].metered  BY <2>1, BlankLocal DEF Local
  <2>3. QED  BY <2>1, <2>2
<1>2. ASSUME Finish(r, answer'[r]) \/ pc'[r] = "done", UNCHANGED <<events, billed>>
      PROVE  ValuedOf(r)'
  BY <1>2 DEF Finish, GoTo, TypeOK
<1>3. CASE Gate(r)
  <2>1. UNCHANGED <<events, billed>> /\ pc[r] = "authed"  BY <1>3 DEF Gate
  <2>2. (pc'[r] = "admitted" /\ local' = local) \/ pc'[r] = "done"
    BY <1>3 DEF Gate, GoTo, Finish, TypeOK
  <2>3. QED  BY <1>2, <2>1, <2>2
<1>4. ASSUME NEW y \in Bill, ServeUnpriced(r, y) \/ \E x \in Cost : Serve(r, x, y)
      PROVE  ValuedOf(r)' /\ r \notin DOMAIN events
  <2>1. pc[r] = "admitted" /\ events' = events  BY <1>4 DEF Serve, ServeUnpriced
  <2>2. pc'[r] = "metered" \/ (pc'[r] = "built" /\ local' = local)
    BY <1>4 DEF Serve, ServeUnpriced, GoTo, TypeOK
  <2>3. QED  BY <2>1, <2>2
<1>5. CASE UpstreamError(r) \/ Answer(r) \/ Crash(r)
  <2>1. UNCHANGED <<events, billed>> /\ pc'[r] = "done"
    BY <1>5 DEF UpstreamError, Answer, Crash, Finish, GoTo, TypeOK
  <2>2. QED  BY <1>2, <2>1
<1>6. CASE buildEvent(r)
  <2>1. UNCHANGED <<events, billed>> /\ pc'[r] = "built"  BY <1>6 DEF buildEvent, GoTo, TypeOK
  <2>2. QED  BY <1>6, <2>1, BuiltAddsUp
<1>7. CASE insertEvent(r)
  <2>1. UNCHANGED <<local, billed>> /\ pc[r] = "built" /\ pc'[r] \in {"inserted", "written"}
    BY <1>7 DEF insertEvent, GoTo, TypeOK
  <2>2. CASE r \in DOMAIN events
    <3>1. events' = events  BY <1>7, <2>2 DEF insertEvent
    <3>2. QED  BY <2>1, <3>1
  <2>3. CASE r \notin DOMAIN events
    <3>1. r \in DOMAIN events' /\ events'[r] = Event(local[r])
      BY <1>7, <2>3 DEF insertEvent, Insert
    <3>2. QED  BY <2>1, <2>3, <3>1, InsertedIsValued
  <2>4. QED  BY <2>2, <2>3
<1>8. CASE upsertPeriod(r) \/ updateSpent(r)
  <2>1. /\ UNCHANGED <<local, billed, events>> /\ pc[r] \in {"inserted", "rolled"}
        /\ pc'[r] \in {"rolled", "written"}
    BY <1>8 DEF upsertPeriod, updateSpent, GoTo, TypeOK
  <2>2. QED  BY <2>1
<1>9. CASE Reject(r)
  <2>1. UNCHANGED <<billed, events>> /\ pc'[r] \in {"metered", "done"}
    BY <1>9 DEF Reject, GoTo, Finish, TypeOK
  <2>2. QED  BY <2>1
<1>10. QED  BY <1>1, <1>3, <1>4, <1>5, <1>6, <1>7, <1>8, <1>9 DEF RequestStep, Step

\* The bills and the rows of the others stay.
LEMMA OthersBills ==
  ASSUME TypeOK, NEW r \in Req, RequestStep(r), NEW q \in Req \ {r}
  PROVE  billed'[q] = billed[q]
BY DEF RequestStep, TypeOK, Step, resolveClient, Reject, Crash, Gate, Serve, ServeUnpriced,
       UpstreamError, buildEvent, insertEvent, upsertPeriod, updateSpent, Answer, tables

LEMMA StepValued ==
  ASSUME TypeOK, RowsOwned, Valued, NEW r \in Req, RequestStep(r)
  PROVE  Valued'
<1>1. \A q \in Req : ValuedOf(q)  BY DEF Valued
<1>2. /\ ValuedOf(r)'
      /\ r \in DOMAIN events => billed'[r] = billed[r] /\ r \in DOMAIN events' /\ events'[r] = events[r]
  BY <1>1, StepValuedSelf
<1>3. ASSUME NEW q \in Req, q # r PROVE ValuedOf(q)'
  BY <1>1, <1>3, OtherRequests DEF ValuedOf, Estimate
<1>4. \A q \in DOMAIN events :
        billed'[q] = billed[q] /\ q \in DOMAIN events' /\ events'[q] = events[q]
  <2>1. DOMAIN events \subseteq Req  BY DEF TypeOK, Table
  <2>2. QED  BY <1>2, <2>1, OtherRequests, OthersBills
<1>5. UNCHANGED <<work, adjustments>>  BY OtherRequests DEF workVars
<1>6. Corrected'
  BY <1>4, <1>5 DEF Valued, Corrected, Corrects, Estimate
<1>7. QED  BY <1>2, <1>3, <1>6 DEF Valued

\* The direction and the amount of a true-up are those of the difference.
LEMMA WorkValued ==
  ASSUME TypeOK, RowsOwned, Valued, NEW w \in Worker, WorkStep(w)
  PROVE  Valued'
<1>1. /\ UNCHANGED <<pc, local, events, billed>>
      /\ \A v \in Worker \ {w} : work'[v] = work[v]
  BY DEF WorkStep, decideAdjustment, insertAdjustment, moveMoney, cutAdjustment, tables, requestVars,
         TypeOK
<1>2. \A r \in Req : ValuedOf(r)'
  BY <1>1 DEF Valued, ValuedOf, Estimate
<1>3. \A r, d, x : Corrects(r, d, x)' <=> Corrects(r, d, x)
  BY <1>1 DEF Corrects, Estimate
<1>4. /\ \A v \in Worker : work[v].pc # "idle" => Corrects(work[v].req, work[v].direction, work[v].applied)
      /\ \A r \in DOMAIN adjustments : Corrects(r, adjustments[r].direction, adjustments[r].applied)
  BY DEF Valued, Corrected
<1>5. ASSUME work'[w].pc # "idle" => Corrects(work'[w].req, work'[w].direction, work'[w].applied),
             \A r \in DOMAIN adjustments' : Corrects(r, adjustments'[r].direction, adjustments'[r].applied)
      PROVE  Valued'
  <2>1. \A v \in Worker : work'[v].pc # "idle" =>
          Corrects(work'[v].req, work'[v].direction, work'[v].applied)
    BY <1>1, <1>4, <1>5
  <2>2. Corrected'
    BY <1>1, <1>5, <2>1 DEF Corrected, Corrects, Estimate
  <2>3. QED  BY <1>2, <2>2 DEF Valued
<1>6. ASSUME NEW r \in Req, decideAdjustment(w, r) PROVE Valued'
  <2>1. /\ r \in DOMAIN events /\ adjustments' = adjustments
        /\ work'[w] = [pc |-> "decided", req |-> r,
                       direction |-> IF billed[r] - Estimate(r) > 0 THEN "spend" ELSE "credit",
                       applied |-> IF billed[r] - Estimate(r) > 0 THEN billed[r] - Estimate(r)
                                   ELSE -(billed[r] - Estimate(r))]
    BY <1>6 DEF decideAdjustment, tables, TypeOK
  <2>2. billed[r] \in Int /\ Estimate(r) \in Int
    BY <2>1 DEF TypeOK, Cost, Table, EventRow, Estimate
  <2>3. Corrects(work'[w].req, work'[w].direction, work'[w].applied)
    BY <2>1, <2>2 DEF Corrects
  <2>4. QED  BY <1>4, <1>5, <2>1, <2>3
<1>7. CASE insertAdjustment(w)
  <2>1. work[w].pc = "decided" /\ Corrects(work[w].req, work[w].direction, work[w].applied)
    BY <1>4, <1>7 DEF insertAdjustment
  <2>2. CASE work[w].req \in DOMAIN adjustments
    <3>1. adjustments' = adjustments /\ work'[w] = Idle  BY <1>7, <2>2 DEF insertAdjustment, TypeOK
    <3>2. QED  BY <1>4, <1>5, <3>1 DEF Idle
  <2>3. CASE work[w].req \notin DOMAIN adjustments
    <3>1. adjustments' = Insert(adjustments, work[w].req,
                 [period |-> events[work[w].req].period, direction |-> work[w].direction,
                  applied |-> work[w].applied])
      BY <1>7, <2>3 DEF insertAdjustment
    <3>2. work[w] \in [pc: {"decided", "audited"}, req: Req, direction: {"spend", "credit"}, applied: Cost]
      BY <2>1 DEF TypeOK, Work, Idle
    <3>3. work'[w] = [work[w] EXCEPT !.pc = "audited"]
      BY <1>7, <2>3 DEF insertAdjustment, TypeOK
    <3>4. /\ work'[w].req = work[w].req /\ work'[w].direction = work[w].direction
          /\ work'[w].applied = work[w].applied
      BY <3>2, <3>3
    <3>5. \A r \in DOMAIN adjustments' : Corrects(r, adjustments'[r].direction, adjustments'[r].applied)
      BY <1>4, <2>1, <3>1 DEF Insert
    <3>6. QED  BY <1>5, <2>1, <3>4, <3>5
  <2>4. QED  BY <2>2, <2>3
<1>8. CASE moveMoney(w) \/ cutAdjustment(w)
  <2>1. adjustments' = adjustments /\ work'[w] = Idle
    BY <1>8 DEF moveMoney, cutAdjustment, tables, TypeOK
  <2>2. QED  BY <1>4, <1>5, <2>1 DEF Idle
<1>9. QED  BY <1>6, <1>7, <1>8 DEF WorkStep

LEMMA NextValued ==
  ASSUME TypeOK, RowsOwned, Valued, [Next]_vars
  PROVE  Valued'
<1>1. ASSUME UNCHANGED <<pc, local, events, billed, work, adjustments>> PROVE Valued'
  BY <1>1 DEF Valued, ValuedOf, Corrected, Corrects, Estimate
<1>2. ASSUME NEW c \in Caller, GrantStep(c) PROVE Valued'
  BY <1>1, <1>2 DEF GrantStep, insertGrant, updateCredit, replyGrant, cutGrant, tables, requestVars, workVars
<1>3. CASE (\E a \in Account : createAccount(a)) \/ NextMonth \/ UNCHANGED vars
  BY <1>1, <1>3 DEF createAccount, NextMonth, vars, tables, requestVars, workVars
<1>4. QED  BY <1>2, <1>3, StepValued, WorkValued DEF Next, RequestStep, GrantStep, WorkStep

LEMMA InitValued == Init => Valued
BY BlankLocal DEF Init, Valued, ValuedOf, Corrected, Idle

\* The columns of account a that its bill is made of.
Allowances(a) ==
  [r \in Req |-> IF r \in DOMAIN events /\ Owner[r] = a THEN events[r].from_allowance ELSE 0]
Bills(a) == [r \in Req |-> IF r \in DOMAIN events /\ Owner[r] = a THEN billed[r] ELSE 0]

\* G is the column h, each row in the month p says; s has the sum of each month.
Monthly(G, h, p) ==
  /\ h \in [1..NReq -> Nat] /\ p \in [1..NReq -> 1..LastMonth]
  /\ G \in [1..LastMonth -> [1..NReq -> Nat]]
  /\ \A m \in 1..LastMonth, i \in 1..NReq : G[m][i] = IF p[i] = m THEN h[i] ELSE 0
MonthlySums(s, G) == \A m \in Month : s[m] = SumTo(G[m], NReq)

\* A column of the period rows, summed over the months, is the column of its rows.
LEMMA MonthsAddUp ==
  ASSUME NEW h, NEW p, NEW G, NEW s, Monthly(G, h, p), MonthlySums(s, G)
  PROVE  SumTo([m \in Month |-> s[m]], LastMonth) = SumTo(h, NReq)
<1>1. [m \in Month |-> s[m]] = [m \in 1..LastMonth |-> SumTo(G[m], NReq)]
  BY DEF Month, MonthlySums
<1>2. SumTo([m \in 1..LastMonth |-> SumTo(G[m], NReq)], LastMonth) = SumTo(h, NReq)
  BY SumByGroup DEF Monthly
<1>3. QED  BY <1>1, <1>2

LEMMA AllowancesAddUp ==
  ASSUME IInv, Settled, Quiet, ~ cut, NEW a \in Account
  PROVE  /\ Allowances(a) \in [1..NReq -> Nat]
         /\ SumTo([m \in Month |-> periods[a][m]["allowance_spent"]], LastMonth)
              = SumTo(Allowances(a), NReq)
<1> DEFINE h == Allowances(a)
           p == [r \in 1..NReq |-> IF r \in DOMAIN events THEN events[r].period ELSE 1]
           G == [m \in 1..LastMonth |-> EventShares(a, m, "allowance_spent", Req)]
           s == [m \in Month |-> periods[a][m]["allowance_spent"]]
<1>1. TypeOK /\ "allowance_spent" \in Column  BY DEF IInv, Column
<1>2. \A r \in DOMAIN events : /\ r \in Req /\ events[r].period \in 1..LastMonth
                              /\ events[r].from_allowance \in Nat
                              /\ EventShare(events[r], "allowance_spent") = events[r].from_allowance
  BY <1>1 DEF TypeOK, Table, EventRow, Month, Cost, EventShare
<1>3. h \in [1..NReq -> Nat]  BY <1>2 DEF Allowances, Req
<1>4. p \in [1..NReq -> 1..LastMonth]  BY <1>2
<1>5. G \in [1..LastMonth -> [1..NReq -> Nat]]  BY <1>1, ColumnTypes
<1>6. ASSUME NEW m \in 1..LastMonth, NEW i \in 1..NReq
      PROVE  G[m][i] = IF p[i] = m THEN h[i] ELSE 0
  BY <1>2, <1>6 DEF EventShares, Allowances, Req
<1>8. ASSUME NEW m \in Month PROVE s[m] = SumTo(G[m], NReq)
  <2> DEFINE x == AdjustmentShares(a, m, "allowance_spent", Req)
  <2>1. \A i \in 1..NReq : x[i] = 0  BY DEF AdjustmentShares, AdjustmentShare, Req
  <2>2. SumTo(x, NReq) = 0
    <3> HIDE DEF x
    <3>1. QED  BY <2>1, SumToZero
  <2>3. periods[a][m]["allowance_spent"]
          = SumTo(EventShares(a, m, "allowance_spent", Rolled), NReq)
            + SumTo(AdjustmentShares(a, m, "allowance_spent", trued), NReq)
    BY <1>1, <1>8 DEF IInv, CountersExplained, PeriodBy
  <2>4. /\ EventShares(a, m, "allowance_spent", Rolled) = EventShares(a, m, "allowance_spent", Req)
        /\ AdjustmentShares(a, m, "allowance_spent", trued) = x
    BY <1>1, <1>8, AllLanded
  <2>5. G[m] = EventShares(a, m, "allowance_spent", Req) /\ G[m] \in [1..NReq -> Nat]
    BY <1>5, <1>8 DEF Month
  <2>6. SumTo(G[m], NReq) \in Nat  BY <2>5, SumToNat
  <2> HIDE DEF x, G
  <2>7. QED  BY <2>2, <2>3, <2>4, <2>5, <2>6
<1> HIDE DEF h, p, G
<1>9. SumTo([m \in Month |-> s[m]], LastMonth) = SumTo(h, NReq)
  <2> HIDE DEF s
  <2>1. Monthly(G, h, p)  BY <1>3, <1>4, <1>5, <1>6 DEF Monthly
  <2>2. MonthlySums(s, G)  BY <1>8 DEF MonthlySums
  <2>3. QED  BY <2>1, <2>2, MonthsAddUp
<1>10. [m \in Month |-> s[m]] = [m \in Month |-> periods[a][m]["allowance_spent"]]  OBVIOUS
<1>11. QED  BY <1>3, <1>9, <1>10 DEF h

LEMMA CreditsBackAddUp ==
  ASSUME IInv, Settled, Quiet, ~ cut, NEW a \in Account
  PROVE  SumTo([m \in Month |-> periods[a][m]["adjust_credit"]], LastMonth)
           = SumTo(TrueUps(a, "credit", Req), NReq)
<1> DEFINE h == TrueUps(a, "credit", Req)
           p == [r \in 1..NReq |-> IF r \in DOMAIN adjustments THEN adjustments[r].period ELSE 1]
           G == [m \in 1..LastMonth |-> AdjustmentShares(a, m, "adjust_credit", Req)]
           s == [m \in Month |-> periods[a][m]["adjust_credit"]]
<1>1. TypeOK /\ "adjust_credit" \in Column  BY DEF IInv, Column
<1>2. \A r \in DOMAIN adjustments :
        /\ r \in Req /\ adjustments[r].period \in 1..LastMonth
        /\ AdjustmentShare(adjustments[r], "adjust_credit")
             = IF adjustments[r].direction = "credit" THEN adjustments[r].applied ELSE 0
  BY <1>1 DEF TypeOK, Table, AdjustmentRow, Month, AdjustmentShare
<1>3. h \in [1..NReq -> Nat]  BY <1>1, ColumnTypes
<1>4. p \in [1..NReq -> 1..LastMonth]  BY <1>2
<1>5. G \in [1..LastMonth -> [1..NReq -> Nat]]  BY <1>1, ColumnTypes
<1>6. ASSUME NEW m \in 1..LastMonth, NEW i \in 1..NReq
      PROVE  G[m][i] = IF p[i] = m THEN h[i] ELSE 0
  BY <1>2, <1>6 DEF AdjustmentShares, TrueUps, Req
<1>8. ASSUME NEW m \in Month PROVE s[m] = SumTo(G[m], NReq)
  <2> DEFINE x == EventShares(a, m, "adjust_credit", Req)
  <2>1. \A i \in 1..NReq : x[i] = 0  BY DEF EventShares, EventShare, Req
  <2>2. SumTo(x, NReq) = 0
    <3> HIDE DEF x
    <3>1. QED  BY <2>1, SumToZero
  <2>3. periods[a][m]["adjust_credit"]
          = SumTo(EventShares(a, m, "adjust_credit", Rolled), NReq)
            + SumTo(AdjustmentShares(a, m, "adjust_credit", trued), NReq)
    BY <1>1, <1>8 DEF IInv, CountersExplained, PeriodBy
  <2>4. /\ EventShares(a, m, "adjust_credit", Rolled) = x
        /\ AdjustmentShares(a, m, "adjust_credit", trued) = AdjustmentShares(a, m, "adjust_credit", Req)
    BY <1>1, <1>8, AllLanded
  <2>5. G[m] = AdjustmentShares(a, m, "adjust_credit", Req) /\ G[m] \in [1..NReq -> Nat]
    BY <1>5, <1>8 DEF Month
  <2>6. SumTo(G[m], NReq) \in Nat  BY <2>5, SumToNat
  <2> HIDE DEF x, G
  <2>7. QED  BY <2>2, <2>3, <2>4, <2>5, <2>6
<1> HIDE DEF h, p, G
<1>9. SumTo([m \in Month |-> s[m]], LastMonth) = SumTo(h, NReq)
  <2> HIDE DEF s
  <2>1. Monthly(G, h, p)  BY <1>3, <1>4, <1>5, <1>6 DEF Monthly
  <2>2. MonthlySums(s, G)  BY <1>8 DEF MonthlySums
  <2>3. QED  BY <2>1, <2>2, MonthsAddUp
<1>10. [m \in Month |-> s[m]] = [m \in Month |-> periods[a][m]["adjust_credit"]]  OBVIOUS
<1>11. QED  BY <1>9, <1>10 DEF h

\* Request by request: what both pools paid is the bill and what was credited back.
LEMMA PaidIsBilled ==
  ASSUME IInv, Settled, Valued, Quiet, ~ cut, NEW a \in Account, NEW r \in Req,
         \A q \in DOMAIN events : billed[q] = Estimate(q) \/ q \in trued
  PROVE  CreditCharges(a, Req)[r] + TrueUps(a, "spend", Req)[r] + Allowances(a)[r]
           = Bills(a)[r] + TrueUps(a, "credit", Req)[r]
<1>1. TypeOK /\ DOMAIN adjustments \subseteq DOMAIN events  BY DEF IInv, RowsOwned, AccountsFirst
<1>2. CASE ~ (r \in DOMAIN events /\ Owner[r] = a)
  BY <1>1, <1>2 DEF CreditCharges, TrueUps, Allowances, Bills
<1>3. CASE r \in DOMAIN events /\ Owner[r] = a
  <2>1. /\ events[r].from_allowance \in Nat /\ events[r].from_credit \in Nat
        /\ billed[r] \in Nat /\ Estimate(r) \in Nat
    BY <1>1, <1>3 DEF TypeOK, Table, EventRow, Cost, Estimate
  <2>2. events[r].from_allowance + events[r].from_credit = Estimate(r)
    BY <1>3 DEF Valued, ValuedOf
  <2>3. CreditCharges(a, Req)[r] = events[r].from_credit /\ Allowances(a)[r] = events[r].from_allowance
        /\ Bills(a)[r] = billed[r]
    BY <1>3 DEF CreditCharges, Allowances, Bills
  <2>4. CASE r \in DOMAIN adjustments
    <3>1. adjustments[r].applied \in Nat /\ adjustments[r].direction \in {"spend", "credit"}
      BY <1>1, <2>4 DEF TypeOK, Table, AdjustmentRow, Cost
    <3>2. Corrects(r, adjustments[r].direction, adjustments[r].applied)
      BY <2>4 DEF Valued, Corrected
    <3>3. \A d : TrueUps(a, d, Req)[r] = IF adjustments[r].direction = d THEN adjustments[r].applied ELSE 0
      BY <1>3, <2>4 DEF TrueUps
    <3>4. QED  BY <2>1, <2>2, <2>3, <3>1, <3>2, <3>3 DEF Corrects
  <2>5. CASE r \notin DOMAIN adjustments
    <3>1. r \notin trued  BY <2>5, AllLanded
    <3>2. billed[r] = Estimate(r)  BY <1>3, <3>1
    <3>3. \A d : TrueUps(a, d, Req)[r] = 0  BY <2>5 DEF TrueUps
    <3>4. QED  BY <2>1, <2>2, <2>3, <3>2, <3>3
  <2>6. QED  BY <2>4, <2>5
<1>4. QED  BY <1>2, <1>3

LEMMA AlwaysValued == Spec => [](IInv /\ Settled /\ Valued)
<1>1. IInv /\ Valued /\ [Next]_vars => Valued'  BY NextValued DEF IInv
<1>2. QED  BY <1>1, InitValued, AlwaysSettled, PTL DEF Spec

\* After every difference was trued up, the pools have paid what the gateway billed, for
\* any number of accounts, requests, months and reconciliation runs (reconcile.ts
\* decideAdjustment against store-d1.ts applyUsageAdjustment).
THEOREM NetIsTheBill == Spec => []NetEqualsBill
<1>1. IInv /\ Settled /\ Valued => NetEqualsBill
  <2> SUFFICES ASSUME IInv, Settled, Valued, Quiet, ~ cut, NEW a \in Account,
                      \A r \in DOMAIN events : billed[r] = Estimate(r) \/ r \in trued
      PROVE  spent[a] + SumTo([m \in Month |-> periods[a][m]["allowance_spent"]], LastMonth)
               - SumTo([m \in Month |-> periods[a][m]["adjust_credit"]], LastMonth)
               = SumTo(Bills(a), NReq)
    BY DEF NetEqualsBill, Bills
  <2> DEFINE fc == CreditCharges(a, Req)
             ts == TrueUps(a, "spend", Req)
             tc == TrueUps(a, "credit", Req)
             fa == Allowances(a)
             bl == Bills(a)
             u == [r \in 1..NReq |-> fc[r] + ts[r]]
             v == [r \in 1..NReq |-> u[r] + fa[r]]
  <2>1. TypeOK  BY DEF IInv
  <2>2. /\ fc \in [1..NReq -> Nat] /\ ts \in [1..NReq -> Nat] /\ tc \in [1..NReq -> Nat]
        /\ fa \in [1..NReq -> Nat]
    BY <2>1, ColumnTypes, AllowancesAddUp
  <2>3. bl \in [1..NReq -> Nat]  BY <2>1 DEF Bills, TypeOK, Cost, Req
  <2>4. \A r \in 1..NReq : fc[r] + ts[r] + fa[r] = bl[r] + tc[r]
    BY PaidIsBilled DEF Req
  <2>5. spent[a] = SumTo(fc, NReq) + SumTo(ts, NReq)
    BY AllLanded DEF IInv, CountersExplained, SpentBy
  <2>6. SumTo([m \in Month |-> periods[a][m]["allowance_spent"]], LastMonth) = SumTo(fa, NReq)
    BY AllowancesAddUp
  <2>7. SumTo([m \in Month |-> periods[a][m]["adjust_credit"]], LastMonth) = SumTo(tc, NReq)
    BY CreditsBackAddUp
  <2> HIDE DEF fc, ts, tc, fa, bl
  <2>8. u \in [1..NReq -> Nat] /\ \A r \in 1..NReq : u[r] = fc[r] + ts[r]  BY <2>2
  <2> HIDE DEF u
  <2>9. v \in [1..NReq -> Nat] /\ \A r \in 1..NReq : v[r] = u[r] + fa[r]
    <3>1. \A r \in 1..NReq : u[r] \in Nat /\ fa[r] \in Nat  BY <2>2, <2>8
    <3>2. \A r \in 1..NReq : u[r] + fa[r] \in Nat  BY <3>1
    <3>3. QED  BY <3>2
  <2> HIDE DEF v
  <2>10. \A r \in 1..NReq : v[r] = bl[r] + tc[r]  BY <2>4, <2>8, <2>9
  <2>11. SumTo(u, NReq) = SumTo(fc, NReq) + SumTo(ts, NReq)  BY <2>2, <2>8, SumToPlus
  <2>12. SumTo(v, NReq) = SumTo(u, NReq) + SumTo(fa, NReq)
    <3>1. fa \in [1..NReq -> Nat] /\ u \in [1..NReq -> Nat] /\ NReq \in Nat  BY <2>2, <2>8
    <3>2. QED  BY <2>9, <3>1, SumToPlus
  <2>13. SumTo(v, NReq) = SumTo(bl, NReq) + SumTo(tc, NReq)  BY <2>2, <2>3, <2>9, <2>10, SumToPlus
  <2>14. /\ SumTo(fc, NReq) \in Nat /\ SumTo(ts, NReq) \in Nat /\ SumTo(tc, NReq) \in Nat
         /\ SumTo(fa, NReq) \in Nat /\ SumTo(bl, NReq) \in Nat
    BY <2>2, <2>3, SumToNat
  <2>15. spent[a] + SumTo(fa, NReq) - SumTo(tc, NReq) = SumTo(bl, NReq)
    BY <2>5, <2>11, <2>12, <2>13, <2>14
  <2>16. QED  BY <2>6, <2>7, <2>15 DEF bl
<1>2. QED  BY <1>1, AlwaysValued, PTL
-----------------------------------------------------------------------------
(***************************************************************************)
(* The overshoot of an account whose requests do not overlap.              *)
(***************************************************************************)

\* What one request may overshoot, and n of them.
Slack == AtLeastZero(MaxCost - 1)
Room(n) == n * Slack

LEMMA SlackNat == Slack \in Nat /\ (MaxCost > 0 => Slack = MaxCost - 1)
BY DEF Slack, AtLeastZero

LEMMA RoomNat ==
  ASSUME NEW n \in Nat
  PROVE  Room(n) \in Nat
BY SlackNat, ProductGrows DEF Room

LEMMA RoomGrows ==
  ASSUME NEW n \in Nat, NEW m \in Nat, n <= m
  PROVE  Room(n) <= Room(m)
BY SlackNat, ProductGrows DEF Room

\* One more month, one more request's worth.
LEMMA RoomStep ==
  ASSUME NEW n \in Nat, n >= 1
  PROVE  /\ Room(n - 1) \in Nat /\ Room(n) \in Nat
         /\ Room(n) = Room(n - 1) + Slack /\ Slack <= Room(n)
<1>1. n - 1 \in Nat  OBVIOUS
<1>2. Room(n - 1) \in Nat /\ Room(n) \in Nat  BY <1>1, RoomNat
<1>3. (n - 1) * Slack + Slack = n * Slack
  <2>1. \A i, j \in Int : (i - 1) * j + j = i * j  OBVIOUS
  <2>2. n \in Int /\ Slack \in Int  BY SlackNat
  <2>3. QED  BY ONLY <2>1, <2>2
<1>4. QED  BY <1>2, <1>3, SlackNat DEF Room

Used(a, m) == periods[a][m]["allowance_spent"]
Calm(a) == a \notin raced /\ ~ cut /\ DOMAIN adjustments = {}
Below(a, n) == spent[a] <= credit[a] + Room(n)

\* The allowance of no month is exceeded, and a month that went over the credit has
\* used its allowance up.
Bounded(a) ==
  /\ \A m \in Month : Used(a, m) <= Included /\ (m > month => Used(a, m) = 0)
  /\ Below(a, month)
  /\ Below(a, month - 1) \/ Used(a, month) >= Included

\* What the one request in flight of an account may still do.
Flight(a, r) ==
  LET l == local[r]
      p == l.period
  IN /\ l.credit <= credit[a] /\ p <= month
     /\ \A m \in Month : m > p => Used(a, m) = 0
     /\ pc[r] # "written" => l.spent = spent[a]
     /\ pc[r] \in {"authed", "admitted"} => l.from_allowance = 0 /\ l.from_credit = 0
     /\ pc[r] = "authed" => Below(a, p - 1) \/ Used(a, p) >= Included
     /\ pc[r] \in {"admitted", "metered"} =>
          spent[a] < credit[a] \/ (Below(a, p - 1) /\ Used(a, p) < Included)
     /\ pc[r] \in {"built", "inserted"} =>
          /\ Used(a, p) + l.from_allowance <= Included
          /\ l.from_credit > 0 => Used(a, p) + l.from_allowance = Included
     /\ pc[r] = "rolled" => Used(a, p) = Included
     /\ pc[r] \in {"built", "inserted", "rolled"} => spent[a] + l.from_credit <= credit[a] + Room(p)

Alone(r) == \A q \in Req : Owner[q] = Owner[r] /\ InFlight(q) => q = r
SerialOf(a) ==
  Calm(a) =>
    /\ Bounded(a)
    /\ \A r \in Req : Owner[r] = a /\ InFlight(r) => Flight(a, r) /\ Alone(r)
Serial == \A a \in Account : SerialOf(a)

LEMMA SerialTypes ==
  ASSUME TypeOK
  PROVE  /\ \A a \in Account : credit[a] \in Nat /\ spent[a] \in Nat
         /\ \A a \in Account, m \in Month : Used(a, m) \in Nat
         /\ \A r \in Req : local[r] \in Local /\ local[r].period \in Month
              /\ local[r].credit \in Nat /\ local[r].spent \in Nat /\ local[r].micro_usd \in 0..MaxCost
              /\ local[r].from_allowance \in Nat /\ local[r].from_credit \in Nat
              /\ Owner[r] \in Account
         /\ month \in Month /\ month \in Nat /\ month >= 1
         /\ \A m \in Month : m \in Nat /\ m >= 1
<1>1. "allowance_spent" \in Column  BY DEF Column
<1>2. \A m \in Month : m \in Nat /\ m >= 1  BY DEF Month
<1>3. \A a \in Account, m \in Month : Used(a, m) \in Nat  BY <1>1 DEF TypeOK, Used
<1>4. \A r \in Req : local[r] \in Local  BY DEF TypeOK
<1>5. \A l \in Local : /\ l.period \in Month /\ l.credit \in Nat /\ l.spent \in Nat
                       /\ l.micro_usd \in 0..MaxCost /\ l.from_allowance \in Nat /\ l.from_credit \in Nat
  BY DEF Local, Cost
<1>6. QED  BY <1>2, <1>3, <1>4, <1>5 DEF TypeOK

-----------------------------------------------------------------------------
(***************************************************************************)
(* The steps of the request in flight.                                     *)
(***************************************************************************)
LEMMA resolveClientSerial ==
  ASSUME TypeOK, NEW r \in Req, Bounded(Owner[r]), resolveClient(r)
  PROVE  Bounded(Owner[r])' /\ Flight(Owner[r], r)'
<1> DEFINE a == Owner[r]
           l == [Blank EXCEPT !.period = month, !.credit = credit[a], !.spent = spent[a]]
<1>1. /\ UNCHANGED <<spent, credit, periods, month>> /\ pc'[r] = "authed" /\ local'[r] = l
  BY DEF resolveClient, GoTo, TypeOK, tables
<1>2. /\ l.period = month /\ l.credit = credit[a] /\ l.spent = spent[a] /\ l.from_allowance = 0
      /\ l.from_credit = 0
  BY DEF Blank
<1> HIDE DEF l
<1>3. Bounded(a)'  BY <1>1 DEF Bounded, Used, Below
<1>4. QED  BY <1>1, <1>2, <1>3, SerialTypes DEF Bounded, Flight, Used, Below

LEMMA GateSerial ==
  ASSUME TypeOK, NEW r \in Req, Bounded(Owner[r]), Flight(Owner[r], r), Gate(r)
  PROVE  Bounded(Owner[r])' /\ (InFlight(r)' => Flight(Owner[r], r)')
<1> DEFINE a == Owner[r]
           l == local[r]
<1>1. pc[r] = "authed" /\ UNCHANGED <<spent, credit, periods, month>>  BY DEF Gate, tables
<1>2. Bounded(a)'  BY <1>1 DEF Bounded, Used, Below
<1>3. CASE pc'[r] = "done"  BY <1>2, <1>3 DEF InFlight
<1>4. CASE decideBalance(l.credit, l.spent, Included, Used(a, l.period)) = "allow"
  <2>1. pc'[r] = "admitted" /\ local' = local  BY <1>4 DEF Gate, GoTo, TypeOK, Used
  <2>2. l.spent < l.credit \/ Used(a, l.period) < Included
    BY <1>4, SerialTypes DEF decideBalance, remainingAllowanceMicroUsd, AtLeastZero
  <2>3. l.spent = spent[a] /\ l.credit <= credit[a]  BY <1>1 DEF Flight
  <2>4. spent[a] < credit[a] \/ (Below(a, l.period - 1) /\ Used(a, l.period) < Included)
    BY <1>1, <2>2, <2>3, SerialTypes DEF Flight
  <2>5. Flight(a, r)'  BY <1>1, <2>1, <2>4 DEF Flight, Used, Below
  <2>6. QED  BY <1>2, <2>5
<1>5. QED  BY <1>3, <1>4 DEF Gate, Finish, GoTo, TypeOK, Used

LEMMA ServeSerial ==
  ASSUME TypeOK, NEW r \in Req, Bounded(Owner[r]), Flight(Owner[r], r), NEW y \in Bill,
         ServeUnpriced(r, y) \/ \E x \in Cost : Serve(r, x, y)
  PROVE  Bounded(Owner[r])' /\ Flight(Owner[r], r)'
<1> DEFINE a == Owner[r]
           l == local[r]
<1>1. pc[r] = "admitted" /\ UNCHANGED <<spent, credit, periods, month>>
  BY DEF Serve, ServeUnpriced, tables
<1>2. Bounded(a)'  BY <1>1 DEF Bounded, Used, Below
<1>3. CASE ServeUnpriced(r, y)
  <2>1. pc'[r] = "built" /\ local' = local  BY <1>3 DEF ServeUnpriced, GoTo, TypeOK
  <2>2. l.from_allowance = 0 /\ l.from_credit = 0 /\ Used(a, l.period) <= Included
    BY <1>1, SerialTypes DEF Flight, Bounded
  <2>3. spent[a] <= credit[a] + Room(l.period)
    <3>1. l.period \in Nat /\ l.period >= 1  BY SerialTypes
    <3>2. /\ Room(l.period) \in Nat /\ Room(l.period - 1) \in Nat /\ Slack \in Nat
          /\ Room(l.period) = Room(l.period - 1) + Slack
      BY <3>1, RoomStep, SlackNat
    <3>3. spent[a] < credit[a] \/ Below(a, l.period - 1)  BY <1>1 DEF Flight
    <3>4. QED  BY <3>2, <3>3, SerialTypes DEF Below
  <2>4. Flight(a, r)'  BY <1>1, <2>1, <2>2, <2>3, SerialTypes DEF Flight, Used, Below
  <2>5. QED  BY <1>2, <2>4
<1>4. ASSUME NEW x \in Cost, Serve(r, x, y) PROVE Flight(a, r)'
  <2>1. pc'[r] = "metered" /\ local'[r] = [local[r] EXCEPT !.micro_usd = x, !.metered = TRUE]
    BY <1>4 DEF Serve, GoTo, TypeOK
  <2>2. /\ local'[r].period = l.period /\ local'[r].credit = l.credit /\ local'[r].spent = l.spent
    BY <2>1, SerialTypes DEF Local
  <2>3. QED  BY <1>1, <2>1, <2>2 DEF Flight, Used, Below
<1>5. QED  BY <1>2, <1>3, <1>4

\* The split of one charge, against the two pools.
LEMMA SplitIsBounded ==
  ASSUME NEW micro \in 0..MaxCost, NEW used \in Nat, used <= Included
  PROVE  LET s == allocateCharge(micro, Included, used)
         IN /\ s.allowance \in Nat /\ s.credit \in Nat /\ used + s.allowance <= Included
            /\ s.credit > 0 => used + s.allowance = Included
            /\ s.credit <= MaxCost
            /\ used < Included => s.credit <= Slack
BY DEF allocateCharge, remainingAllowanceMicroUsd, Lesser, AtLeastZero, Slack

\* A handler that stands before recordUsage with a row that fits.
LEMMA BuiltFlight ==
  ASSUME NEW r \in Req, NEW a \in Account, NEW m \in Month, m <= month,
         UNCHANGED <<spent, credit, periods, month>>, pc'[r] = "built",
         local'[r].period = m, local'[r].credit <= credit[a], local'[r].spent = spent[a],
         \A k \in Month : k > m => Used(a, k) = 0,
         Used(a, m) + local'[r].from_allowance <= Included,
         local'[r].from_credit > 0 => Used(a, m) + local'[r].from_allowance = Included,
         spent[a] + local'[r].from_credit <= credit[a] + Room(m)
  PROVE  Flight(a, r)'
BY DEF Flight, Used, Below

LEMMA buildEventSerial ==
  ASSUME TypeOK, NEW r \in Req, Bounded(Owner[r]), Flight(Owner[r], r), buildEvent(r)
  PROVE  Bounded(Owner[r])' /\ Flight(Owner[r], r)'
<1> DEFINE a == Owner[r]
           l == local[r]
           p == l.period
           m == BookingMonth(r)
           s == allocateCharge(l.micro_usd, Included, Used(a, m))
           n == local'[r]
<1>1. /\ pc[r] = "metered" /\ pc'[r] = "built" /\ UNCHANGED <<spent, credit, periods, month>>
      /\ n = [l EXCEPT !.period = m, !.from_allowance = s.allowance, !.from_credit = s.credit]
  BY DEF buildEvent, tables, GoTo, TypeOK, Used
<1>2. Bounded(a)'  BY <1>1 DEF Bounded, Used, Below
<1>3. /\ p \in Month /\ m \in Month /\ p \in Nat /\ m \in Nat /\ p >= 1 /\ p <= m /\ m <= month
      /\ credit[a] \in Nat /\ spent[a] \in Nat /\ Used(a, m) \in Nat /\ Used(a, p) \in Nat
      /\ l.micro_usd \in 0..MaxCost
  BY SerialTypes DEF Flight, BookingMonth
<1>4. Used(a, m) <= Included  BY <1>3 DEF Bounded
<1>5. /\ s.allowance \in Nat /\ s.credit \in Nat /\ Used(a, m) + s.allowance <= Included
      /\ s.credit > 0 => Used(a, m) + s.allowance = Included
      /\ s.credit <= MaxCost
      /\ Used(a, m) < Included => s.credit <= Slack
  BY <1>3, <1>4, SplitIsBounded
<1> HIDE DEF s, m
<1>6. /\ n.period = m /\ n.from_allowance = s.allowance /\ n.from_credit = s.credit
      /\ n.credit = l.credit /\ n.spent = l.spent
  BY <1>1, SerialTypes DEF Local
<1>7. /\ Room(p) = Room(p - 1) + Slack /\ Room(p - 1) \in Nat /\ Room(p) <= Room(m) /\ Slack <= Room(p)
      /\ Room(m) \in Nat /\ Slack \in Nat /\ (MaxCost > 0 => Slack = MaxCost - 1)
  <2> HIDE DEF p
  <2>1. /\ Room(p) = Room(p - 1) + Slack /\ Room(p - 1) \in Nat /\ Slack <= Room(p)
    BY <1>3, RoomStep
  <2>2. Room(p) <= Room(m) /\ Room(m) \in Nat  BY <1>3, RoomGrows, RoomNat
  <2>3. QED  BY <2>1, <2>2, SlackNat
<1>8. spent[a] + s.credit <= credit[a] + Room(m)
  <2>1. CASE spent[a] < credit[a]  BY <1>3, <1>5, <1>7, <2>1
  <2>2. CASE Below(a, p - 1) /\ Used(a, p) < Included
    <3>1. Used(a, m) < Included
      <4>1. m # p => Used(a, m) = 0  BY <1>3 DEF Flight
      <4>2. QED  BY <1>3, <2>2, <4>1
    <3>2. QED  BY <1>3, <1>5, <1>7, <2>2, <3>1 DEF Below
  <2>3. QED  BY <1>1, <2>1, <2>2 DEF Flight
<1>9. Flight(a, r)'
  <2>1. \A k \in Month : k > m => Used(a, k) = 0  BY <1>3, SerialTypes DEF Flight
  <2>2. l.credit <= credit[a] /\ l.spent = spent[a]  BY <1>1 DEF Flight
  <2>3. a \in Account  BY SerialTypes
  <2>4. /\ n.credit <= credit[a] /\ n.spent = spent[a]
        /\ Used(a, m) + n.from_allowance <= Included
        /\ n.from_credit > 0 => Used(a, m) + n.from_allowance = Included
        /\ spent[a] + n.from_credit <= credit[a] + Room(m)
    BY <1>5, <1>6, <1>8, <2>2
  <2> HIDE DEF a, l
  <2>5. QED  BY <1>1, <1>3, <1>6, <2>1, <2>3, <2>4, BuiltFlight
<1>10. QED  BY <1>2, <1>9
LEMMA insertEventSerial ==
  ASSUME TypeOK, NEW r \in Req, Bounded(Owner[r]), Flight(Owner[r], r), insertEvent(r)
  PROVE  Bounded(Owner[r])' /\ Flight(Owner[r], r)'
<1>1. /\ pc[r] = "built" /\ pc'[r] \in {"inserted", "written"}
      /\ UNCHANGED <<spent, credit, periods, month, local>>
  BY DEF insertEvent, GoTo, TypeOK
<1>2. QED  BY <1>1 DEF Bounded, Flight, Used, Below

LEMMA upsertPeriodSerial ==
  ASSUME TypeOK, NEW r \in Req, Bounded(Owner[r]), Flight(Owner[r], r), upsertPeriod(r)
  PROVE  Bounded(Owner[r])' /\ Flight(Owner[r], r)'
<1> DEFINE a == Owner[r]
           l == local[r]
           p == l.period
           e == Event(l)
<1>1. /\ p \in Month /\ p \in Nat /\ a \in Account /\ Used(a, p) \in Nat
      /\ l.from_allowance \in Nat /\ l.from_credit \in Nat
      /\ month \in Nat /\ month \in Month
  BY SerialTypes
<1>2. /\ e.period = p /\ e.from_allowance \in 0..l.from_allowance
      /\ e.metered = l.metered
      /\ l.metered => e.from_allowance = l.from_allowance /\ e.from_credit = l.from_credit
      /\ EventShare(e, "allowance_spent") = e.from_allowance
  BY <1>1 DEF Event, EventShare
<1> HIDE DEF e
<1>3. /\ pc[r] = "inserted" /\ UNCHANGED <<spent, credit, month, local>>
      /\ pc'[r] = IF e.metered /\ e.from_credit > 0 THEN "rolled" ELSE "written"
      /\ periods' = [periods EXCEPT ![a][p] = [c \in Column |-> @[c] + EventShare(e, c)]]
  BY <1>2 DEF upsertPeriod, GoTo, TypeOK, e
<1> DEFINE now(m) == periods'[a][m]["allowance_spent"]
<1>4. /\ now(p) = Used(a, p) + e.from_allowance
      /\ \A m \in Month \ {p} : now(m) = Used(a, m)
  <2>1. "allowance_spent" \in Column  BY DEF Column
  <2>2. QED  BY <1>1, <1>2, <1>3, <2>1 DEF Used, TypeOK
<1>5. /\ Used(a, p) + l.from_allowance <= Included /\ p <= month
      /\ l.from_credit > 0 => Used(a, p) + l.from_allowance = Included
      /\ \A m \in Month : m > p => Used(a, m) = 0
      /\ l.credit <= credit[a] /\ l.spent = spent[a]
      /\ spent[a] + l.from_credit <= credit[a] + Room(p)
  BY <1>3 DEF Flight
<1>6. /\ now(p) <= Included /\ now(p) >= Used(a, p)
      /\ pc'[r] = "rolled" => now(p) = Included
  BY <1>1, <1>2, <1>3, <1>4, <1>5
<1>7. \A m \in Month : /\ now(m) <= Included /\ (m > month => now(m) = 0)
                       /\ (m > p => now(m) = 0) /\ now(m) >= Used(a, m)
  <2> SUFFICES ASSUME NEW m \in Month
      PROVE  /\ now(m) <= Included /\ (m > month => now(m) = 0)
             /\ (m > p => now(m) = 0) /\ now(m) >= Used(a, m)
    OBVIOUS
  <2>1. m \in Nat /\ Used(a, m) \in Nat /\ Used(a, m) <= Included /\ (m > month => Used(a, m) = 0)
    BY <1>1, SerialTypes DEF Bounded
  <2> HIDE DEF now, p
  <2>2. CASE m = p  BY <1>1, <1>5, <1>6, <2>1, <2>2
  <2>3. CASE m # p
    <3>1. now(m) = Used(a, m)  BY <1>4, <2>3
    <3>2. QED  BY <1>5, <2>1, <3>1
  <2>4. QED  BY <2>2, <2>3
<1>8. Bounded(a)'
  <2>1. Below(a, month)' /\ (Below(a, month - 1)' \/ Used(a, month) >= Included)
    BY <1>3 DEF Bounded, Below
  <2>2. Used(a, month) >= Included => now(month) >= Included
    <3>1. now(month) >= Used(a, month) /\ now(month) <= Included  BY <1>1, <1>7
    <3>2. Used(a, month) \in Nat  BY <1>1, SerialTypes
    <3>3. now(month) = Used(a, month) \/ now(month) \in Nat
      BY <1>1, <1>2, <1>4
    <3> HIDE DEF now
    <3>4. QED  BY <3>1, <3>2, <3>3
  <2>3. QED  BY <1>3, <1>7, <2>1, <2>2 DEF Bounded, Used
<1>9. Flight(a, r)'
  <2>1. pc'[r] \in {"rolled", "written"}  BY <1>3
  <2>2. local'[r].period = p  BY <1>3
  <2>3. QED  BY <1>3, <1>5, <1>6, <1>7, <2>1, <2>2 DEF Flight, Used
<1>10. QED  BY <1>8, <1>9

LEMMA updateSpentSerial ==
  ASSUME TypeOK, NEW r \in Req, Bounded(Owner[r]), Flight(Owner[r], r), updateSpent(r)
  PROVE  Bounded(Owner[r])' /\ Flight(Owner[r], r)'
<1> DEFINE a == Owner[r]
           l == local[r]
           p == l.period
           x == Event(l).from_credit
<1>1. /\ p \in Month /\ p \in Nat /\ p >= 1 /\ a \in Account /\ l.from_credit \in Nat
      /\ month \in Nat /\ month \in Month /\ month >= 1 /\ spent[a] \in Nat /\ credit[a] \in Nat
  BY SerialTypes
<1>2. x \in 0..l.from_credit  BY <1>1 DEF Event
<1> HIDE DEF x
<1>3. /\ pc[r] = "rolled" /\ pc'[r] = "written" /\ UNCHANGED <<credit, periods, month, local>>
      /\ spent'[a] = spent[a] + x
  BY <1>1 DEF updateSpent, GoTo, TypeOK, x
<1>4. /\ Used(a, p) = Included /\ p <= month /\ spent[a] + l.from_credit <= credit[a] + Room(p)
      /\ \A m \in Month : m > p => Used(a, m) = 0
      /\ l.credit <= credit[a]
  BY <1>3 DEF Flight
<1>5. Room(p) \in Nat /\ Room(month) \in Nat /\ Room(month - 1) \in Nat /\ Room(p) <= Room(month)
      /\ (p < month => Room(p) <= Room(month - 1))
  <2> HIDE DEF p
  <2>1. month - 1 \in Nat /\ (p < month => p <= month - 1)  BY <1>1
  <2>2. QED  BY <1>1, <1>4, <2>1, RoomNat, RoomGrows
<1>6. /\ spent'[a] <= credit[a] + Room(month)
      /\ p < month => spent'[a] <= credit[a] + Room(month - 1)
  <2> HIDE DEF p
  <2>1. QED  BY <1>1, <1>2, <1>3, <1>4, <1>5
<1>7. (p = month => Used(a, month) >= Included) /\ (p < month \/ p = month)
  BY <1>1, <1>4
<1>8. Bounded(a)'  BY <1>3, <1>6, <1>7 DEF Bounded, Used, Below
<1>9. Flight(a, r)'  BY <1>3, <1>4 DEF Flight, Used
<1>10. QED  BY <1>8, <1>9

\* The steps that end the request.
LEMMA EndSerial ==
  ASSUME TypeOK, NEW r \in Req, Bounded(Owner[r]), UpstreamError(r) \/ Answer(r)
  PROVE  Bounded(Owner[r])' /\ ~ InFlight(r)'
<1>1. pc'[r] = "done" /\ UNCHANGED <<spent, credit, periods, month>>
  BY DEF UpstreamError, Answer, Finish, GoTo, TypeOK, tables
<1>2. QED  BY <1>1 DEF Bounded, Used, Below, InFlight
-----------------------------------------------------------------------------
(***************************************************************************)
(* Every step, for one account.                                            *)
(***************************************************************************)
\* A request that starts while no other of its account is in flight.
LEMMA StartAlone ==
  ASSUME TypeOK, NEW r \in Req, SerialOf(Owner[r]), resolveClient(r), Calm(Owner[r])'
  PROVE  SerialOf(Owner[r])'
<1> DEFINE a == Owner[r]
<1>1. /\ pc[r] = "start" /\ UNCHANGED <<adjustments, cut>> /\ a \notin raced'
      /\ raced' = IF \E q \in Req : q # r /\ Owner[q] = a /\ InFlight(q) THEN raced \cup {a} ELSE raced
  BY DEF resolveClient, Calm, tables
<1>2. Calm(a) /\ \A q \in Req : q # r /\ Owner[q] = a => ~ InFlight(q)
  BY <1>1 DEF Calm
<1>3. Bounded(a)' /\ Flight(a, r)'
  BY <1>2, resolveClientSerial DEF SerialOf
<1>4. \A q \in Req : Owner[q] = a /\ InFlight(q)' => q = r
  <2>1. \A q \in Req \ {r} : pc'[q] = pc[q]  BY DEF resolveClient, GoTo, TypeOK
  <2>2. QED  BY <1>2, <2>1 DEF InFlight
<1>5. QED  BY <1>3, <1>4 DEF SerialOf, Alone

\* A step of the one request in flight.
LEMMA OwnStep ==
  ASSUME TypeOK, NEW r \in Req, SerialOf(Owner[r]), RequestStep(r), Calm(Owner[r])'
  PROVE  SerialOf(Owner[r])'
<1> DEFINE a == Owner[r]
<1>1. CASE resolveClient(r)  BY <1>1, StartAlone
<1>2. ~ Reject(r) /\ ~ Crash(r)  BY DEF Calm, Reject, Crash
<1>3. CASE Step(r)
  <2>1. /\ pc[r] \in {"authed", "admitted", "metered", "built", "inserted", "rolled", "written"}
        /\ UNCHANGED <<adjustments, cut, raced>>
    BY <1>3 DEF Step, Gate, Serve, ServeUnpriced, UpstreamError, buildEvent, insertEvent, upsertPeriod,
                updateSpent, Answer, tables
  <2>2. Calm(a) /\ InFlight(r)  BY <2>1 DEF Calm, InFlight
  <2>3. Bounded(a) /\ Flight(a, r) /\ Alone(r)  BY <2>2 DEF SerialOf
  <2>4. Bounded(a)' /\ (InFlight(r)' => Flight(a, r)')
    BY <1>3, <2>3, GateSerial, ServeSerial, buildEventSerial, insertEventSerial, upsertPeriodSerial,
       updateSpentSerial, EndSerial DEF Step
  <2>5. \A q \in Req : Owner[q] = a /\ InFlight(q)' => q = r
    <3>1. \A q \in Req \ {r} : pc'[q] = pc[q]  BY OtherRequests
    <3>2. QED  BY <2>3, <3>1 DEF InFlight, Alone
  <2>6. QED  BY <2>4, <2>5 DEF SerialOf, Alone
<1>4. QED  BY <1>1, <1>2, <1>3 DEF RequestStep

\* A step of a request moves no money and no handler of another account.
LEMMA OtherAccount ==
  ASSUME TypeOK, NEW r \in Req, NEW a \in Account, a # Owner[r], RequestStep(r)
  PROVE  /\ spent'[a] = spent[a] /\ periods'[a] = periods[a]
         /\ a \in raced' <=> a \in raced
<1>1. Owner[r] \in Account  OBVIOUS
<1>2. spent'[a] = spent[a]
  BY <1>1 DEF RequestStep, Step, resolveClient, Reject, Crash, Gate, Serve, ServeUnpriced,
         UpstreamError, buildEvent, insertEvent, upsertPeriod, updateSpent, Answer, tables, TypeOK
<1>3. periods'[a] = periods[a]
  BY <1>1 DEF RequestStep, Step, resolveClient, Reject, Crash, Gate, Serve, ServeUnpriced,
         UpstreamError, buildEvent, insertEvent, upsertPeriod, updateSpent, Answer, tables, TypeOK
<1>4. a \in raced' <=> a \in raced
  BY <1>1 DEF RequestStep, Step, resolveClient, Reject, Crash, Gate, Serve, ServeUnpriced,
         UpstreamError, buildEvent, insertEvent, upsertPeriod, updateSpent, Answer
<1>5. QED  BY <1>2, <1>3, <1>4

LEMMA OtherStep ==
  ASSUME TypeOK, NEW r \in Req, NEW a \in Account, a # Owner[r], SerialOf(a), RequestStep(r)
  PROVE  SerialOf(a)'
<1> SUFFICES ASSUME Calm(a)'
             PROVE  /\ Bounded(a)'
                    /\ \A q \in Req : Owner[q] = a /\ InFlight(q)' => Flight(a, q)' /\ Alone(q)'
  BY DEF SerialOf
<1>1. /\ spent'[a] = spent[a] /\ periods'[a] = periods[a] /\ (a \in raced' <=> a \in raced)
      /\ UNCHANGED <<credit, adjustments, month>> /\ (cut => cut')
      /\ \A q \in Req \ {r} : pc'[q] = pc[q] /\ local'[q] = local[q]
  BY OtherAccount, OtherRequests
<1>2. Calm(a)  BY <1>1 DEF Calm
<1>3. Bounded(a) /\ \A q \in Req : Owner[q] = a /\ InFlight(q) => Flight(a, q) /\ Alone(q)
  BY <1>2 DEF SerialOf
<1>4. Bounded(a)'  BY <1>1, <1>3 DEF Bounded, Used, Below
<1>5. ASSUME NEW q \in Req, Owner[q] = a, InFlight(q)' PROVE Flight(a, q)' /\ Alone(q)'
  <2>1. q # r /\ pc'[q] = pc[q] /\ local'[q] = local[q] /\ InFlight(q)  BY <1>1, <1>5 DEF InFlight
  <2>2. Flight(a, q) /\ Alone(q)  BY <1>3, <1>5, <2>1
  <2>3. Flight(a, q)'  BY <1>1, <2>1, <2>2 DEF Flight, Used, Below
  <2>4. Alone(q)'  BY <1>1, <1>5, <2>2 DEF Alone, InFlight
  <2>5. QED  BY <2>3, <2>4
<1>6. QED  BY <1>4, <1>5

\* More credit never hurts.
LEMMA CreditGrows ==
  ASSUME TypeOK, TypeOK', NEW a \in Account, SerialOf(a), credit'[a] >= credit[a],
         UNCHANGED <<spent, periods, month, pc, local, raced, adjustments, cut>>
  PROVE  SerialOf(a)'
<1> SUFFICES ASSUME Calm(a)'
             PROVE  /\ Bounded(a)'
                    /\ \A q \in Req : Owner[q] = a /\ InFlight(q)' => Flight(a, q)' /\ Alone(q)'
  BY DEF SerialOf
<1>1. Bounded(a) /\ \A q \in Req : Owner[q] = a /\ InFlight(q) => Flight(a, q) /\ Alone(q)
  BY DEF SerialOf, Calm
<1>2. credit[a] \in Nat /\ credit'[a] \in Nat /\ spent[a] \in Nat  BY DEF TypeOK
<1>3. \A x \in Int : spent[a] + x <= credit[a] => spent[a] + x <= credit'[a]  BY <1>2
<1>4. \A m \in Month : Room(m) \in Nat /\ Room(m - 1) \in Nat
  BY SerialTypes, RoomStep
<1>5. \A m \in Month : /\ Below(a, m) => spent[a] <= credit'[a] + Room(m)
                       /\ Below(a, m - 1) => spent[a] <= credit'[a] + Room(m - 1)
  BY <1>2, <1>4 DEF Below
<1>6. month \in Month  BY SerialTypes
<1>7. Bounded(a)'  BY <1>1, <1>5, <1>6 DEF Bounded, Used, Below
<1>8. ASSUME NEW q \in Req, Owner[q] = a, InFlight(q)' PROVE Flight(a, q)' /\ Alone(q)'
  <2>1. InFlight(q)  BY <1>8 DEF InFlight
  <2>2. Flight(a, q) /\ Alone(q)  BY <1>1, <1>8, <2>1
  <2> DEFINE l == local[q]
             p == l.period
  <2>3. /\ p \in Month /\ l.credit \in Nat /\ l.from_credit \in Nat  BY SerialTypes
  <2>4. l.credit <= credit[a] => l.credit <= credit'[a]  BY <1>2, <2>3
  <2>5. spent[a] < credit[a] => spent[a] < credit'[a]  BY <1>2
  <2>6. Below(a, p - 1) => spent[a] <= credit'[a] + Room(p - 1)  BY <1>5, <2>3
  <2>7. spent[a] + l.from_credit <= credit[a] + Room(p) => spent[a] + l.from_credit <= credit'[a] + Room(p)
    <3>1. Room(p) \in Nat  BY <1>4, <2>3
    <3> HIDE DEF p, l
    <3>2. QED  BY <1>2, <2>3, <3>1
  <2>8. Flight(a, q)'  BY <2>2, <2>4, <2>5, <2>6, <2>7 DEF Flight, Used, Below
  <2>9. Alone(q)'  BY <2>2 DEF Alone, InFlight
  <2>10. QED  BY <2>8, <2>9
<1>9. QED  BY <1>7, <1>8

\* A new month opens a new allowance, and room for one more overshoot.
LEMMA NextMonthSerial ==
  ASSUME TypeOK, NEW a \in Account, SerialOf(a), NextMonth
  PROVE  SerialOf(a)'
<1> SUFFICES ASSUME Calm(a)'
             PROVE  /\ Bounded(a)'
                    /\ \A q \in Req : Owner[q] = a /\ InFlight(q)' => Flight(a, q)' /\ Alone(q)'
  BY DEF SerialOf
<1>1. month' = month + 1 /\ UNCHANGED <<spent, credit, periods, pc, local, raced, adjustments, cut>>
  BY DEF NextMonth, tables, requestVars
<1>2. Bounded(a) /\ \A q \in Req : Owner[q] = a /\ InFlight(q) => Flight(a, q) /\ Alone(q)
  BY <1>1 DEF SerialOf, Calm
<1>3. month \in Nat /\ month + 1 \in Nat /\ (month + 1) - 1 = month
      /\ credit[a] \in Nat /\ spent[a] \in Nat
  BY SerialTypes
<1>4. Room(month) \in Nat /\ Room(month + 1) \in Nat /\ Room(month) <= Room(month + 1)
  BY <1>3, RoomNat, RoomGrows
<1>5. spent[a] <= credit[a] + Room(month) /\ spent[a] <= credit[a] + Room(month + 1)
  BY <1>2, <1>3, <1>4 DEF Bounded, Below
<1>6. \A m \in Month : Used(a, m) <= Included /\ (m > month + 1 => Used(a, m) = 0)
  BY <1>2, <1>3, SerialTypes DEF Bounded
<1>7. Bounded(a)'  BY <1>1, <1>3, <1>5, <1>6 DEF Bounded, Used, Below
<1>8. ASSUME NEW q \in Req, Owner[q] = a, InFlight(q)' PROVE Flight(a, q)' /\ Alone(q)'
  <2>1. InFlight(q)  BY <1>1, <1>8 DEF InFlight
  <2>2. Flight(a, q) /\ Alone(q)  BY <1>2, <1>8, <2>1
  <2>3. local[q].period <= month + 1  BY <1>3, <2>2, SerialTypes DEF Flight
  <2>4. Flight(a, q)'  BY <1>1, <2>2, <2>3 DEF Flight, Used, Below
  <2>5. Alone(q)'  BY <1>1, <2>2 DEF Alone, InFlight
  <2>6. QED  BY <2>4, <2>5
<1>9. QED  BY <1>7, <1>8

LEMMA NextSerial ==
  ASSUME IInv, Serial, [Next]_vars
  PROVE  Serial'
<1> SUFFICES ASSUME NEW a \in Account PROVE SerialOf(a)'
  BY DEF Serial
<1>1. TypeOK /\ TypeOK' /\ SerialOf(a)  BY NextIInv DEF IInv, Serial
<1>2. UNCHANGED vars \/ AppendOnly  BY NextAppendOnly
<1>3. credit'[a] >= credit[a]
  BY <1>1, <1>2 DEF AppendOnly, vars, tables, TypeOK
<1>4. ASSUME NEW r \in Req, RequestStep(r) PROVE SerialOf(a)'
  <2>1. CASE a # Owner[r]  BY <1>1, <1>4, <2>1, OtherStep
  <2>2. CASE a = Owner[r]
    <3>1. CASE Calm(a)'  BY <1>1, <1>4, <2>2, <3>1, OwnStep
    <3>2. CASE ~ Calm(a)'  BY <3>2 DEF SerialOf
    <3>3. QED  BY <3>1, <3>2
  <2>3. QED  BY <2>1, <2>2
<1>5. CASE \/ UNCHANGED vars
           \/ \E b \in Account : createAccount(b)
           \/ \E c \in Caller : GrantStep(c)
  <2>1. CASE cut'  BY <2>1 DEF SerialOf, Calm
  <2>2. CASE ~ cut'
    <3>1. UNCHANGED <<spent, periods, month, pc, local, raced, adjustments, cut>>
      BY <1>5, <2>2 DEF vars, tables, requestVars, createAccount, GrantStep, insertGrant, updateCredit,
                        replyGrant, cutGrant
    <3>2. QED  BY <1>1, <1>3, <3>1, CreditGrows
  <2>3. QED  BY <2>1, <2>2
<1>6. CASE NextMonth  BY <1>1, <1>6, NextMonthSerial
<1>7. ASSUME NEW w \in Worker, WorkStep(w) PROVE SerialOf(a)'
  <2>1. CASE cut' \/ DOMAIN adjustments' # {}  BY <2>1 DEF SerialOf, Calm
  <2>2. CASE ~ cut' /\ DOMAIN adjustments' = {}
    <3>1. ~ cutAdjustment(w)  BY <2>2 DEF cutAdjustment
    <3>2. ~ moveMoney(w)
      BY <2>2 DEF moveMoney, IInv, RowsOwned, WorkerOwns
    <3>3. UNCHANGED <<spent, periods, month, pc, local, raced, adjustments, cut>>
      BY <1>7, <2>2, <3>1, <3>2 DEF WorkStep, decideAdjustment, insertAdjustment, Insert, tables, requestVars
    <3>4. QED  BY <1>1, <1>3, <3>3, CreditGrows
  <2>3. QED  BY <2>1, <2>2
<1>8. QED  BY <1>4, <1>5, <1>6, <1>7 DEF Next, RequestStep, GrantStep, WorkStep

LEMMA InitSerial == Init => Serial
<1> SUFFICES ASSUME Init, NEW a \in Account PROVE SerialOf(a)
  BY DEF Serial
<1>1. "allowance_spent" \in Column  BY DEF Column
<1>2. \A m \in Month : Used(a, m) = 0  BY <1>1 DEF Init, Used
<1>3. Room(1) \in Nat /\ Room(0) \in Nat  BY RoomNat
<1>4. Bounded(a)  BY <1>2, <1>3 DEF Init, Bounded, Below
<1>5. \A r \in Req : ~ InFlight(r)  BY DEF Init, InFlight
<1>6. QED  BY <1>4, <1>5 DEF SerialOf

\* What the pre-flight gate guarantees, for any number of accounts, requests, months,
\* grants and prices: while an account's requests do not overlap and nothing is cut or
\* trued up, no month's allowance is exceeded and the credit is overshot by less than
\* one request a month (balance.ts decideBalance and allocateCharge, chat.ts 9-12).
THEOREM OvershootIsBounded == Spec => []SerialOvershoot
<1>1. Serial => SerialOvershoot
  BY DEF Serial, SerialOf, Calm, Bounded, Used, Below, Room, Slack, SerialOvershoot
<1>2. IInv /\ Serial /\ [Next]_vars => Serial'  BY NextSerial
<1>3. QED  BY <1>1, <1>2, InitIInv, InitSerial, NextIInv, PTL DEF Spec

-----------------------------------------------------------------------------
(***************************************************************************)
(* Metering implements the two ledgers of Books.                           *)
(*                                                                         *)
(* The entries as functions of the tables C (accounts created), G (grants),*)
(* A (adjustments) and E (events).                                         *)
(***************************************************************************)
Direction(A, d) == {r \in DOMAIN A : A[r].direction = d}

CreditsOf(C, G, A) ==
  [o \in ({"signup"} \X C) \cup ({"grant"} \X DOMAIN G) \cup ({"true-up"} \X Direction(A, "credit")) |->
     CASE o[1] = "signup" -> Entry(o[2], Signup)
       [] o[1] = "grant"  -> Entry(G[o[2]].account, G[o[2]].micro_usd)
       [] OTHER           -> Entry(Owner[o[2]], A[o[2]].applied)]

SpendsOf(E, A) ==
  [o \in ({"charge"} \X DOMAIN E) \cup ({"true-up"} \X Direction(A, "spend")) |->
     IF o[1] = "charge" THEN Entry(Owner[o[2]], E[o[2]].from_credit)
                        ELSE Entry(Owner[o[2]], A[o[2]].applied)]

LEMMA CreditEntryOf ==
  /\ CreditEntry = CreditsOf(created, grants, adjustments)
  /\ CreditEntry' = CreditsOf(created', grants', adjustments')
BY DEF CreditEntry, CreditEntries, CreditsOf, TruedUp, Direction

LEMMA SpendEntryOf ==
  /\ SpendEntry = SpendsOf(events, adjustments)
  /\ SpendEntry' = SpendsOf(events', adjustments')
BY DEF SpendEntry, SpendEntries, SpendsOf, TruedUp, Direction

LEMMA CreditDomain ==
  ASSUME NEW C, NEW G, NEW A
  PROVE  /\ CreditsOf(C, G, A) = [o \in DOMAIN CreditsOf(C, G, A) |-> CreditsOf(C, G, A)[o]]
         /\ \A o : o \in DOMAIN CreditsOf(C, G, A) <=>
              \/ \E a \in C : o = <<"signup", a>>
              \/ \E k \in DOMAIN G : o = <<"grant", k>>
              \/ \E r \in Direction(A, "credit") : o = <<"true-up", r>>
<1> DEFINE D == ({"signup"} \X C) \cup ({"grant"} \X DOMAIN G) \cup ({"true-up"} \X Direction(A, "credit"))
<1>1. DOMAIN CreditsOf(C, G, A) = D  BY DEF CreditsOf
<1>2. CreditsOf(C, G, A) = [o \in DOMAIN CreditsOf(C, G, A) |-> CreditsOf(C, G, A)[o]]  BY DEF CreditsOf
<1>3. \A o : o \in D <=>
              \/ \E a \in C : o = <<"signup", a>>
              \/ \E k \in DOMAIN G : o = <<"grant", k>>
              \/ \E r \in Direction(A, "credit") : o = <<"true-up", r>>
  OBVIOUS
<1>4. QED  BY <1>1, <1>2, <1>3

LEMMA CreditValues ==
  ASSUME NEW C, NEW G, NEW A
  PROVE  /\ \A a \in C : CreditsOf(C, G, A)[<<"signup", a>>] = Entry(a, Signup)
         /\ \A k \in DOMAIN G : CreditsOf(C, G, A)[<<"grant", k>>] = Entry(G[k].account, G[k].micro_usd)
         /\ \A r \in Direction(A, "credit") : CreditsOf(C, G, A)[<<"true-up", r>>] = Entry(Owner[r], A[r].applied)
BY DEF CreditsOf

LEMMA SpendDomain ==
  ASSUME NEW E, NEW A
  PROVE  /\ SpendsOf(E, A) = [o \in DOMAIN SpendsOf(E, A) |-> SpendsOf(E, A)[o]]
         /\ \A o : o \in DOMAIN SpendsOf(E, A) <=>
              \/ \E r \in DOMAIN E : o = <<"charge", r>>
              \/ \E r \in Direction(A, "spend") : o = <<"true-up", r>>
<1> DEFINE D == ({"charge"} \X DOMAIN E) \cup ({"true-up"} \X Direction(A, "spend"))
<1>1. DOMAIN SpendsOf(E, A) = D  BY DEF SpendsOf
<1>2. SpendsOf(E, A) = [o \in DOMAIN SpendsOf(E, A) |-> SpendsOf(E, A)[o]]  BY DEF SpendsOf
<1>3. \A o : o \in D <=> \/ \E r \in DOMAIN E : o = <<"charge", r>>
                         \/ \E r \in Direction(A, "spend") : o = <<"true-up", r>>
  OBVIOUS
<1>4. QED  BY <1>1, <1>2, <1>3

LEMMA SpendValues ==
  ASSUME NEW E, NEW A
  PROVE  /\ \A r \in DOMAIN E : SpendsOf(E, A)[<<"charge", r>>] = Entry(Owner[r], E[r].from_credit)
         /\ \A r \in Direction(A, "spend") : SpendsOf(E, A)[<<"true-up", r>>] = Entry(Owner[r], A[r].applied)
BY DEF SpendsOf

-----------------------------------------------------------------------------
(***************************************************************************)
(* What an insert does to the entries.                                     *)
(***************************************************************************)
\* f has one entry more than e, o, and o is a well-formed one.
Entered(e, f, o) ==
  /\ o \notin DOMAIN e
  /\ \A p : p \in DOMAIN f <=> p \in DOMAIN e \/ p = o
  /\ f[o] \in [account : Account, amount : Nat]
  /\ \A p \in DOMAIN e : f[p] = e[p]

LEMMA DirectionInsert ==
  ASSUME NEW A, NEW r, NEW row, r \notin DOMAIN A, NEW d
  PROVE  Direction(Insert(A, r, row), d) =
           IF row.direction = d THEN Direction(A, d) \cup {r} ELSE Direction(A, d)
<1> DEFINE B == Insert(A, r, row)
<1>1. /\ DOMAIN B = DOMAIN A \cup {r} /\ B[r] = row
      /\ \A q \in DOMAIN A : B[q] = A[q]
  BY DEF Insert
<1> HIDE DEF B
<1>2. \A q : q \in Direction(B, d) <=> (q \in Direction(A, d) \/ (q = r /\ row.direction = d))
  BY <1>1 DEF Direction
<1>3. Direction(B, d) = IF row.direction = d THEN Direction(A, d) \cup {r} ELSE Direction(A, d)
  BY <1>2
<1>4. QED  BY <1>3 DEF B

LEMMA SignupEntered ==
  ASSUME NEW C, NEW G, NEW A, NEW a \in Account, a \notin C
  PROVE  /\ Entered(CreditsOf(C, G, A), CreditsOf(C \cup {a}, G, A), <<"signup", a>>)
         /\ CreditsOf(C \cup {a}, G, A)[<<"signup", a>>] = Entry(a, Signup)
<1> DEFINE e == CreditsOf(C, G, A)
           f == CreditsOf(C \cup {a}, G, A)
           o == <<"signup", a>>
<1>1. o \notin DOMAIN e  BY CreditDomain
<1>2. \A p : p \in DOMAIN f <=> p \in DOMAIN e \/ p = o  BY CreditDomain
<1>3. f[o] = Entry(a, Signup)  BY CreditValues
<1>4. f[o] \in [account : Account, amount : Nat]  BY <1>3, ConstantsAssumption DEF Entry
<1>5. \A p \in DOMAIN e : f[p] = e[p]  BY CreditDomain, CreditValues
<1>6. QED  BY <1>1, <1>2, <1>3, <1>4, <1>5 DEF Entered

LEMMA GrantEntered ==
  ASSUME NEW C, NEW G, NEW A, NEW k, k \notin DOMAIN G, NEW row \in GrantRow
  PROVE  Entered(CreditsOf(C, G, A), CreditsOf(C, Insert(G, k, row), A), <<"grant", k>>)
<1> DEFINE H == Insert(G, k, row)
           e == CreditsOf(C, G, A)
           f == CreditsOf(C, H, A)
           o == <<"grant", k>>
<1>0. /\ DOMAIN H = DOMAIN G \cup {k} /\ H[k] = row
      /\ \A j \in DOMAIN G : H[j] = G[j]
  BY DEF Insert
<1> HIDE DEF H
<1>1. o \notin DOMAIN e  BY CreditDomain
<1>2. \A p : p \in DOMAIN f <=> p \in DOMAIN e \/ p = o  BY <1>0, CreditDomain
<1>3. f[o] = Entry(row.account, row.micro_usd)  BY <1>0, CreditValues
<1>4. f[o] \in [account : Account, amount : Nat]  BY <1>3, ConstantsAssumption DEF Entry, GrantRow, Grant
<1>5. \A p \in DOMAIN e : f[p] = e[p]  BY <1>0, CreditDomain, CreditValues
<1>6. QED  BY <1>1, <1>2, <1>4, <1>5 DEF Entered, H

\* A true-up enters the book of its direction and leaves the other alone.
LEMMA TrueUpCredits ==
  ASSUME NEW C, NEW G, NEW A, NEW r \in Req, r \notin DOMAIN A, NEW row \in AdjustmentRow
  PROVE  IF row.direction = "credit"
         THEN Entered(CreditsOf(C, G, A), CreditsOf(C, G, Insert(A, r, row)), <<"true-up", r>>)
         ELSE CreditsOf(C, G, Insert(A, r, row)) = CreditsOf(C, G, A)
<1> DEFINE B == Insert(A, r, row)
           e == CreditsOf(C, G, A)
           f == CreditsOf(C, G, B)
           o == <<"true-up", r>>
<1>a. /\ B[r] = row /\ \A q \in DOMAIN A : B[q] = A[q]
  BY DEF Insert
<1>b. Direction(A, "credit") \subseteq DOMAIN A  BY DEF Direction
<1>0. /\ B[r] = row /\ \A q \in DOMAIN A : B[q] = A[q]
      /\ Direction(B, "credit") = IF row.direction = "credit" THEN Direction(A, "credit") \cup {r}
                                                              ELSE Direction(A, "credit")
      /\ Direction(A, "credit") \subseteq DOMAIN A
  BY <1>a, <1>b, DirectionInsert
<1> HIDE DEF B
<1>1. CASE row.direction = "credit"
  <2>1. o \notin DOMAIN e  BY <1>0, CreditDomain
  <2>2. \A p : p \in DOMAIN f <=> p \in DOMAIN e \/ p = o  BY <1>0, <1>1, CreditDomain
  <2>3. f[o] = Entry(Owner[r], row.applied)  BY <1>0, <1>1, CreditValues
  <2>4. Owner[r] \in Account /\ row.applied \in Nat
    BY ConstantsAssumption DEF AdjustmentRow, Cost
  <2>5. \A p \in DOMAIN e : f[p] = e[p]  BY <1>0, <1>1, CreditDomain, CreditValues
  <2>6. QED  BY <1>1, <2>1, <2>2, <2>3, <2>4, <2>5 DEF Entered, Entry, B
<1>2. CASE row.direction # "credit"
  <2>1. DOMAIN f = DOMAIN e  BY <1>0, <1>2, CreditDomain
  <2>2. \A p \in DOMAIN e : f[p] = e[p]  BY <1>0, <1>2, CreditDomain, CreditValues
  <2>3. f = e  BY <2>1, <2>2, CreditDomain
  <2>4. QED  BY <1>2, <2>3 DEF B
<1>3. QED  BY <1>1, <1>2

LEMMA TrueUpSpends ==
  ASSUME NEW E, NEW A, NEW r \in Req, r \notin DOMAIN A, NEW row \in AdjustmentRow
  PROVE  IF row.direction = "spend"
         THEN Entered(SpendsOf(E, A), SpendsOf(E, Insert(A, r, row)), <<"true-up", r>>)
         ELSE SpendsOf(E, Insert(A, r, row)) = SpendsOf(E, A)
<1> DEFINE B == Insert(A, r, row)
           e == SpendsOf(E, A)
           f == SpendsOf(E, B)
           o == <<"true-up", r>>
<1>a. /\ B[r] = row /\ \A q \in DOMAIN A : B[q] = A[q]
  BY DEF Insert
<1>b. Direction(A, "spend") \subseteq DOMAIN A  BY DEF Direction
<1>0. /\ B[r] = row /\ \A q \in DOMAIN A : B[q] = A[q]
      /\ Direction(B, "spend") = IF row.direction = "spend" THEN Direction(A, "spend") \cup {r}
                                                            ELSE Direction(A, "spend")
      /\ Direction(A, "spend") \subseteq DOMAIN A
  BY <1>a, <1>b, DirectionInsert
<1> HIDE DEF B
<1>1. CASE row.direction = "spend"
  <2>1. o \notin DOMAIN e  BY <1>0, SpendDomain
  <2>2. \A p : p \in DOMAIN f <=> p \in DOMAIN e \/ p = o  BY <1>0, <1>1, SpendDomain
  <2>3. f[o] = Entry(Owner[r], row.applied)  BY <1>0, <1>1, SpendValues
  <2>4. Owner[r] \in Account /\ row.applied \in Nat
    BY ConstantsAssumption DEF AdjustmentRow, Cost
  <2>5. \A p \in DOMAIN e : f[p] = e[p]  BY <1>0, <1>1, SpendDomain, SpendValues
  <2>6. QED  BY <1>1, <2>1, <2>2, <2>3, <2>4, <2>5 DEF Entered, Entry, B
<1>2. CASE row.direction # "spend"
  <2>1. DOMAIN f = DOMAIN e  BY <1>0, <1>2, SpendDomain
  <2>2. \A p \in DOMAIN e : f[p] = e[p]  BY <1>0, <1>2, SpendDomain, SpendValues
  <2>3. f = e  BY <2>1, <2>2, SpendDomain
  <2>4. QED  BY <1>2, <2>3 DEF B
<1>3. QED  BY <1>1, <1>2

LEMMA ChargeEntered ==
  ASSUME NEW E, NEW A, NEW r \in Req, r \notin DOMAIN E, NEW row \in EventRow
  PROVE  Entered(SpendsOf(E, A), SpendsOf(Insert(E, r, row), A), <<"charge", r>>)
<1> DEFINE F == Insert(E, r, row)
           e == SpendsOf(E, A)
           f == SpendsOf(F, A)
           o == <<"charge", r>>
<1>0. /\ DOMAIN F = DOMAIN E \cup {r} /\ F[r] = row
      /\ \A q \in DOMAIN E : F[q] = E[q]
  BY DEF Insert
<1> HIDE DEF F
<1>1. o \notin DOMAIN e  BY SpendDomain
<1>2. \A p : p \in DOMAIN f <=> p \in DOMAIN e \/ p = o  BY <1>0, SpendDomain
<1>3. f[o] = Entry(Owner[r], row.from_credit)  BY <1>0, SpendValues
<1>4. Owner[r] \in Account /\ row.from_credit \in Nat
  BY ConstantsAssumption DEF EventRow, Cost
<1>5. \A p \in DOMAIN e : f[p] = e[p]  BY <1>0, SpendDomain, SpendValues
<1>6. QED  BY <1>1, <1>2, <1>3, <1>4, <1>5 DEF Entered, Entry, F

-----------------------------------------------------------------------------
(***************************************************************************)
(* Every step is a step of each book, or leaves it alone.                  *)
(***************************************************************************)
CreditStep == [Credits!Next]_(Credits!vars)
SpendStep == [Spends!Next]_(Spends!vars)

LEMMA CreditFrame ==
  ASSUME UNCHANGED <<created, credit, grants, adjustments, paidKeys, trued>>
  PROVE  UNCHANGED Credits!vars
BY DEF Credits!vars, CreditEntry, CreditEntries, CreditPaid, TruedUp

LEMMA SpendFrame ==
  ASSUME UNCHANGED <<spent, events, adjustments, trued>>, Charged' = Charged
  PROVE  UNCHANGED Spends!vars
BY DEF Spends!vars, SpendEntry, SpendEntries, SpendPaid, TruedUp

LEMMA CreditEnter ==
  ASSUME NEW o, Entered(CreditEntry, CreditEntry', o)
  PROVE  Credits!Enter(o)
<1>1. DOMAIN CreditEntry' = DOMAIN CreditEntry \cup {o}  BY DEF Entered
<1>2. QED  BY <1>1 DEF Entered, Credits!Enter

LEMMA SpendEnter ==
  ASSUME NEW o, Entered(SpendEntry, SpendEntry', o)
  PROVE  Spends!Enter(o)
<1>1. DOMAIN SpendEntry' = DOMAIN SpendEntry \cup {o}  BY DEF Entered
<1>2. QED  BY <1>1 DEF Entered, Spends!Enter

LEMMA ChargedFrame ==
  ASSUME UNCHANGED landed
  PROVE  Charged' = Charged
BY DEF Charged

\* The signup grant is entered and paid in the batch that creates the account.
LEMMA CreateAccountBooks ==
  ASSUME TypeOK, RowsOwned, NEW a \in Account, createAccount(a)
  PROVE  CreditStep /\ SpendStep
<1> DEFINE o == <<"signup", a>>
<1> USE DEF createAccount
<1>1. SpendStep
  BY SpendFrame, ChargedFrame DEF SpendStep, requestVars, workVars
<1>2. Entered(CreditEntry, CreditEntry', o) /\ CreditEntry'[o] = Entry(a, Signup)
  BY SignupEntered, CreditEntryOf
<1>3. CreditPaid' = CreditPaid \cup {o} /\ o \notin CreditPaid
  <2>1. TruedUp("credit")' = TruedUp("credit") /\ trued' = trued /\ paidKeys' = paidKeys
    BY DEF TruedUp, workVars, grantVars
  <2>2. QED  BY <2>1 DEF CreditPaid
<1>4. credit' = [credit EXCEPT ![a] = @ + Signup]
  <2>1. credit[a] = 0 /\ Signup \in Nat  BY ConstantsAssumption DEF RowsOwned, AccountsFirst
  <2>2. credit[a] + Signup = Signup  BY <2>1
  <2>3. QED  BY <2>2
<1>5. Credits!Paid(o, CreditEntry'[o])
  <2>1. Credits!Paid(o, Entry(a, Signup))  BY <1>3, <1>4 DEF Credits!Paid, Entry
  <2>2. QED  BY <1>2, <2>1
<1>6. o \in CreditOp  BY DEF CreditOp
<1>7. Credits!EnterPaid(o)  BY <1>2, <1>5, CreditEnter DEF Credits!EnterPaid
<1>8. QED  BY <1>1, <1>6, <1>7 DEF CreditStep, Credits!Next

\* A top-up is entered by the insert that takes effect, and paid by the update after it.
LEMMA GrantBooks ==
  ASSUME TypeOK, RowsOwned, NEW c \in Caller,
         \/ \E k \in Key, a \in Account, amount \in Grant : insertGrant(c, k, a, amount)
         \/ updateCredit(c)
         \/ replyGrant(c)
         \/ cutGrant(c)
  PROVE  CreditStep /\ SpendStep
<1>1. ASSUME NEW k \in Key, NEW a \in Account, NEW amount \in Grant, insertGrant(c, k, a, amount)
      PROVE  CreditStep /\ SpendStep
  <2> DEFINE o == <<"grant", k>>
             row == [account |-> a, micro_usd |-> amount]
  <2> USE <1>1 DEF insertGrant
  <2>1. SpendStep
    BY SpendFrame, ChargedFrame DEF SpendStep, requestVars, workVars
  <2>2. CASE k \in DOMAIN grants
    BY <2>1, <2>2, CreditFrame DEF CreditStep, workVars
  <2>3. CASE k \notin DOMAIN grants
    <3>1. grants' = Insert(grants, k, row) /\ created' = created /\ adjustments' = adjustments
      BY <2>3
    <3>2. row \in GrantRow  BY DEF GrantRow
    <3>3. Entered(CreditEntry, CreditEntry', o)
      BY <2>3, <3>1, <3>2, GrantEntered, CreditEntryOf
    <3>4. CreditPaid' = CreditPaid /\ credit' = credit
      BY DEF CreditPaid, TruedUp, workVars
    <3>5. o \in CreditOp  BY DEF CreditOp
    <3>6. Credits!EnterOpen(o)  BY <3>3, <3>4, CreditEnter DEF Credits!EnterOpen
    <3>7. QED  BY <2>1, <3>5, <3>6 DEF CreditStep, Credits!Next
  <2>4. QED  BY <2>2, <2>3
<1>2. CASE updateCredit(c)
  <2> DEFINE k == call[c].key
             o == <<"grant", k>>
             g == grants[k]
  <2> USE <1>2 DEF updateCredit
  <2>1. SpendStep
    BY SpendFrame, ChargedFrame DEF SpendStep, requestVars, workVars
  <2>2. k \in DOMAIN grants /\ k \notin paidKeys /\ k \in Key
    BY DEF RowsOwned, CallerOwns, TypeOK, Table
  <2>3. o \in DOMAIN CreditEntry /\ CreditEntry[o] = Entry(g.account, g.micro_usd)
    BY <2>2, CreditEntryOf, CreditDomain, CreditValues
  <2>4. CreditPaid' = CreditPaid \cup {o} /\ o \notin CreditPaid
    <3>1. TruedUp("credit")' = TruedUp("credit") /\ trued' = trued /\ created' = created
      BY DEF TruedUp, workVars
    <3>2. QED  BY <2>2, <3>1 DEF CreditPaid
  <2>5. credit' = [credit EXCEPT ![g.account] = @ + g.micro_usd]  OBVIOUS
  <2>6. Credits!Paid(o, Entry(g.account, g.micro_usd))  BY <2>4, <2>5 DEF Credits!Paid, Entry
  <2>7. CreditEntry' = CreditEntry  BY CreditEntryOf
  <2>8. Credits!Pay(o)  BY <2>3, <2>6, <2>7 DEF Credits!Pay
  <2>9. o \in CreditOp  BY <2>2 DEF CreditOp
  <2>10. QED  BY <2>1, <2>8, <2>9 DEF CreditStep, Credits!Next
<1>3. CASE replyGrant(c) \/ cutGrant(c)
  <2>1. UNCHANGED <<created, credit, spent, grants, events, adjustments, paidKeys, trued, landed>>
    BY <1>3 DEF replyGrant, cutGrant, tables, requestVars, workVars
  <2>2. QED  BY <2>1, CreditFrame, SpendFrame, ChargedFrame DEF CreditStep, SpendStep
<1>4. QED  BY <1>1, <1>2, <1>3

\* A charge is entered by the insert of its event and paid by the last update of
\* recordUsage; no other step of a request touches a book.
LEMMA RequestBooks ==
  ASSUME TypeOK, RowsOwned, NEW r \in Req,
         resolveClient(r) \/ Step(r) \/ Reject(r) \/ Crash(r)
  PROVE  CreditStep /\ SpendStep
<1> DEFINE o == <<"charge", r>>
<1>1. CreditStep
  <2>1. UNCHANGED <<created, credit, grants, adjustments, paidKeys, trued>>
    BY DEF resolveClient, Step, Reject, Crash, Gate, Serve, ServeUnpriced, UpstreamError,
           buildEvent, insertEvent, upsertPeriod, updateSpent, Answer, tables, grantVars, workVars
  <2>2. QED  BY <2>1, CreditFrame DEF CreditStep
<1>2. CASE insertEvent(r)
  <2> USE <1>2 DEF insertEvent
  <2>1. Charged' = Charged  BY ChargedFrame
  <2>2. CASE r \in DOMAIN events
    BY <1>1, <2>1, <2>2, SpendFrame DEF SpendStep, workVars
  <2>3. CASE r \notin DOMAIN events
    <3>1. events' = Insert(events, r, Event(local[r])) /\ adjustments' = adjustments  BY <2>3
    <3>2. Event(local[r]) \in EventRow  BY EventType DEF TypeOK
    <3>3. Entered(SpendEntry, SpendEntry', o)
      BY <2>3, <3>1, <3>2, ChargeEntered, SpendEntryOf
    <3>4. SpendPaid' = SpendPaid /\ spent' = spent
      BY <2>1 DEF SpendPaid, TruedUp, workVars
    <3>5. o \in SpendOp  BY DEF SpendOp
    <3>6. Spends!EnterOpen(o)  BY <3>3, <3>4, SpendEnter DEF Spends!EnterOpen
    <3>7. QED  BY <1>1, <3>5, <3>6 DEF SpendStep, Spends!Next
  <2>4. QED  BY <1>1, <2>2, <2>3
<1>3. CASE updateSpent(r)
  <2> DEFINE e == events[r]
  <2> USE <1>3 DEF updateSpent
  <2>1. r \in DOMAIN events /\ e = Event(local[r]) /\ landed[r] = {"period"}
    BY DEF RowsOwned, RequestOwns
  <2>2. o \in DOMAIN SpendEntry /\ SpendEntry[o] = Entry(Owner[r], e.from_credit)
    BY <2>1, SpendEntryOf, SpendDomain, SpendValues
  <2>3. Charged' = Charged \cup {r} /\ r \notin Charged
    BY <2>1 DEF Charged, TypeOK
  <2>4. SpendPaid' = SpendPaid \cup {o} /\ o \notin SpendPaid
    <3>1. TruedUp("spend")' = TruedUp("spend") /\ trued' = trued  BY DEF TruedUp, workVars
    <3>2. QED  BY <2>3, <3>1 DEF SpendPaid
  <2>5. spent' = [spent EXCEPT ![Owner[r]] = @ + e.from_credit]  BY <2>1
  <2>6. Spends!Paid(o, Entry(Owner[r], e.from_credit))  BY <2>4, <2>5 DEF Spends!Paid, Entry
  <2>7. SpendEntry' = SpendEntry  BY SpendEntryOf
  <2>8. Spends!Pay(o)  BY <2>2, <2>6, <2>7 DEF Spends!Pay
  <2>9. o \in SpendOp  BY DEF SpendOp
  <2>10. QED  BY <1>1, <2>8, <2>9 DEF SpendStep, Spends!Next
<1>4. CASE upsertPeriod(r)
  <2>1. landed' = [landed EXCEPT ![r] = @ \cup {"period"}]  BY <1>4 DEF upsertPeriod
  <2>2. Charged' = Charged  BY <2>1 DEF Charged, TypeOK
  <2>3. UNCHANGED <<spent, events, adjustments, trued>>  BY <1>4 DEF upsertPeriod, workVars
  <2>4. QED  BY <1>1, <2>2, <2>3, SpendFrame DEF SpendStep
<1>5. CASE \/ resolveClient(r) \/ Reject(r) \/ Crash(r) \/ Gate(r) \/ UpstreamError(r)
           \/ buildEvent(r) \/ Answer(r)
           \/ \E estimate \in Cost, cost \in Bill : Serve(r, estimate, cost)
           \/ \E cost \in Bill : ServeUnpriced(r, cost)
  <2>1. UNCHANGED <<spent, events, adjustments, trued, landed>>
    BY <1>5 DEF resolveClient, Reject, Crash, Gate, Serve, ServeUnpriced, UpstreamError,
                buildEvent, Answer, tables, workVars
  <2>2. QED  BY <1>1, <2>1, SpendFrame, ChargedFrame DEF SpendStep
<1>6. QED  BY <1>2, <1>3, <1>4, <1>5 DEF Step

\* A true-up is entered by the insert of its audit row and paid by the batch after
\* it, in the book of its direction; the other book does not see it.
LEMMA WorkBooks ==
  ASSUME TypeOK, RowsOwned, NEW w \in Worker,
         \/ \E r \in Req : decideAdjustment(w, r)
         \/ insertAdjustment(w)
         \/ moveMoney(w)
         \/ cutAdjustment(w)
  PROVE  CreditStep /\ SpendStep
<1> DEFINE r == work[w].req
           o == <<"true-up", r>>
<1>1. CASE (\E q \in Req : decideAdjustment(w, q)) \/ cutAdjustment(w)
  <2>1. UNCHANGED <<created, credit, spent, grants, events, adjustments, paidKeys, trued, landed>>
    BY <1>1 DEF decideAdjustment, cutAdjustment, tables, requestVars, grantVars
  <2>2. QED  BY <2>1, CreditFrame, SpendFrame, ChargedFrame DEF CreditStep, SpendStep
<1>2. CASE insertAdjustment(w)
  <2> USE <1>2 DEF insertAdjustment
  <2>1. Charged' = Charged  BY ChargedFrame DEF requestVars
  <2>2. CASE r \in DOMAIN adjustments
    BY <2>1, <2>2, CreditFrame, SpendFrame DEF CreditStep, SpendStep, grantVars
  <2>3. CASE r \notin DOMAIN adjustments
    <3> DEFINE row == [period |-> events[r].period, direction |-> work[w].direction,
                       applied |-> work[w].applied]
    <3>1. /\ adjustments' = Insert(adjustments, r, row)
          /\ UNCHANGED <<created, credit, spent, grants, events, paidKeys, trued>>
      BY <2>3 DEF grantVars
    <3>2. r \in Req /\ row \in AdjustmentRow
      <4>1. work[w] \in Work /\ work[w].pc = "decided"  BY DEF TypeOK
      <4>2. work[w] \in [pc: {"decided", "audited"}, req: Req,
                         direction: {"spend", "credit"}, applied: Cost]
        BY <4>1 DEF Work, Idle
      <4>3. r \in DOMAIN events  BY DEF RowsOwned, WorkerOwns
      <4>4. events[r].period \in Month  BY <4>3 DEF TypeOK, Table, EventRow
      <4>5. QED  BY <4>2, <4>4 DEF AdjustmentRow
    <3>3. o \in CreditOp /\ o \in SpendOp  BY <3>2 DEF CreditOp, SpendOp
    <3>4. r \notin trued  BY <2>3 DEF RowsOwned, WorkerOwns
    <3> HIDE DEF row
    <3>5. \A d : trued' \cap TruedUp(d)' = trued \cap TruedUp(d)
      <4>1. \A d : TruedUp(d) = Direction(adjustments, d) /\ TruedUp(d)' = Direction(adjustments', d)
        BY DEF TruedUp, Direction
      <4>2. \A d : Direction(adjustments', d) =
              IF row.direction = d THEN Direction(adjustments, d) \cup {r} ELSE Direction(adjustments, d)
        <5>1. \A d : Direction(Insert(adjustments, r, row), d) =
                IF row.direction = d THEN Direction(adjustments, d) \cup {r} ELSE Direction(adjustments, d)
          BY ONLY <2>3, DirectionInsert
        <5>2. QED  BY ONLY <3>1, <5>1
      <4>3. QED  BY <3>1, <3>4, <4>1, <4>2
    <3>6. CreditPaid' = CreditPaid /\ credit' = credit  BY <3>1, <3>5 DEF CreditPaid
    <3>7. SpendPaid' = SpendPaid /\ spent' = spent  BY <2>1, <3>1, <3>5 DEF SpendPaid
    <3>8. IF row.direction = "credit" THEN Entered(CreditEntry, CreditEntry', o)
                                      ELSE CreditEntry' = CreditEntry
      BY <2>3, <3>1, <3>2, TrueUpCredits, CreditEntryOf
    <3>9. IF row.direction = "spend" THEN Entered(SpendEntry, SpendEntry', o)
                                     ELSE SpendEntry' = SpendEntry
      BY <2>3, <3>1, <3>2, TrueUpSpends, SpendEntryOf
    <3>10. CreditStep
      <4>1. CASE row.direction = "credit"
        <5>1. Credits!EnterOpen(o)  BY <3>6, <3>8, <4>1, CreditEnter DEF Credits!EnterOpen
        <5>2. QED  BY <3>3, <5>1 DEF CreditStep, Credits!Next
      <4>2. CASE row.direction # "credit"
        BY <3>6, <3>8, <4>2 DEF CreditStep, Credits!vars
      <4>3. QED  BY <4>1, <4>2
    <3>11. SpendStep
      <4>1. CASE row.direction = "spend"
        <5>1. Spends!EnterOpen(o)  BY <3>7, <3>9, <4>1, SpendEnter DEF Spends!EnterOpen
        <5>2. QED  BY <3>3, <5>1 DEF SpendStep, Spends!Next
      <4>2. CASE row.direction # "spend"
        BY <3>7, <3>9, <4>2 DEF SpendStep, Spends!vars
      <4>3. QED  BY <4>1, <4>2
    <3>12. QED  BY <3>10, <3>11
  <2>4. QED  BY <2>2, <2>3
<1>3. CASE moveMoney(w)
  <2> DEFINE a == Owner[r]
             row == adjustments[r]
  <2> USE <1>3 DEF moveMoney
  <2>1. r \in DOMAIN adjustments /\ r \notin trued /\ r \in Req
    BY DEF RowsOwned, WorkerOwns, TypeOK, Table
  <2>2. row.direction \in {"spend", "credit"}  BY <2>1 DEF TypeOK, Table, AdjustmentRow
  <2>3. /\ UNCHANGED <<created, grants, events, adjustments, paidKeys>> /\ Charged' = Charged
        /\ trued' = trued \cup {r}
    BY ChargedFrame DEF requestVars, grantVars
  <2>4. CreditEntry' = CreditEntry /\ SpendEntry' = SpendEntry
    BY <2>3, CreditEntryOf, SpendEntryOf
  <2>5. o \in CreditOp /\ o \in SpendOp  BY <2>1 DEF CreditOp, SpendOp
  <2>6. \A d : trued' \cap TruedUp(d)' = IF row.direction = d THEN (trued \cap TruedUp(d)) \cup {r}
                                                              ELSE trued \cap TruedUp(d)
    BY <2>1, <2>3 DEF TruedUp
  <2>7. CASE row.direction = "credit"
    <3>1. credit' = [credit EXCEPT ![a] = @ + row.applied] /\ spent' = spent  BY <2>7
    <3>2. SpendPaid' = SpendPaid  BY <2>3, <2>6, <2>7 DEF SpendPaid
    <3>3. CreditPaid' = CreditPaid \cup {o} /\ o \notin CreditPaid
      BY <2>1, <2>3, <2>6, <2>7 DEF CreditPaid
    <3>4. o \in DOMAIN CreditEntry /\ CreditEntry[o] = Entry(a, row.applied)
      <4>1. r \in Direction(adjustments, "credit")  BY <2>1, <2>7 DEF Direction
      <4>2. o \in DOMAIN CreditsOf(created, grants, adjustments)  BY ONLY <4>1, CreditDomain
      <4>3. CreditsOf(created, grants, adjustments)[o] = Entry(a, row.applied)  BY ONLY <4>1, CreditValues
      <4>4. QED  BY ONLY <4>2, <4>3, CreditEntryOf
    <3>5. Credits!Paid(o, Entry(a, row.applied))  BY <3>1, <3>3 DEF Credits!Paid, Entry
    <3>6. Credits!Pay(o)  BY <2>4, <3>4, <3>5 DEF Credits!Pay
    <3>7. SpendStep  BY <2>4, <3>1, <3>2 DEF SpendStep, Spends!vars
    <3>8. QED  BY <2>5, <3>6, <3>7 DEF CreditStep, Credits!Next
  <2>8. CASE row.direction = "spend"
    <3>1. spent' = [spent EXCEPT ![a] = @ + row.applied] /\ credit' = credit  BY <2>8
    <3>2. CreditPaid' = CreditPaid  BY <2>3, <2>6, <2>8 DEF CreditPaid
    <3>3. SpendPaid' = SpendPaid \cup {o} /\ o \notin SpendPaid
      BY <2>1, <2>3, <2>6, <2>8 DEF SpendPaid
    <3>4. o \in DOMAIN SpendEntry /\ SpendEntry[o] = Entry(a, row.applied)
      <4>1. r \in Direction(adjustments, "spend")  BY <2>1, <2>8 DEF Direction
      <4>2. o \in DOMAIN SpendsOf(events, adjustments)  BY ONLY <4>1, SpendDomain
      <4>3. SpendsOf(events, adjustments)[o] = Entry(a, row.applied)  BY ONLY <4>1, SpendValues
      <4>4. QED  BY ONLY <4>2, <4>3, SpendEntryOf
    <3>5. Spends!Paid(o, Entry(a, row.applied))  BY <3>1, <3>3 DEF Spends!Paid, Entry
    <3>6. Spends!Pay(o)  BY <2>4, <3>4, <3>5 DEF Spends!Pay
    <3>7. CreditStep  BY <2>4, <3>1, <3>2 DEF CreditStep, Credits!vars
    <3>8. QED  BY <2>5, <3>6, <3>7 DEF SpendStep, Spends!Next
  <2>9. QED  BY <2>2, <2>7, <2>8
<1>4. QED  BY <1>1, <1>2, <1>3

LEMMA NextBooks == IInv /\ [Next]_vars => CreditStep /\ SpendStep
<1> SUFFICES ASSUME TypeOK, RowsOwned, [Next]_vars
             PROVE  CreditStep /\ SpendStep
  BY DEF IInv
<1>1. CASE \E a \in Account : createAccount(a)  BY <1>1, CreateAccountBooks
<1>2. CASE NextMonth \/ UNCHANGED vars
  <2>1. UNCHANGED <<created, credit, spent, grants, events, adjustments, paidKeys, trued, landed>>
    BY <1>2 DEF NextMonth, vars, tables, requestVars, grantVars, workVars
  <2>2. QED  BY <2>1, CreditFrame, SpendFrame, ChargedFrame DEF CreditStep, SpendStep
<1>3. CASE \E r \in Req : resolveClient(r) \/ Step(r) \/ Reject(r) \/ Crash(r)
  BY <1>3, RequestBooks
<1>4. ASSUME NEW c \in Caller,
             \/ \E k \in Key, a \in Account, amount \in Grant : insertGrant(c, k, a, amount)
             \/ updateCredit(c)
             \/ replyGrant(c)
             \/ cutGrant(c)
      PROVE  CreditStep /\ SpendStep
  BY <1>4, GrantBooks
<1>5. ASSUME NEW w \in Worker,
             \/ \E r \in Req : decideAdjustment(w, r)
             \/ insertAdjustment(w)
             \/ moveMoney(w)
             \/ cutAdjustment(w)
      PROVE  CreditStep /\ SpendStep
  BY <1>5, WorkBooks
<1>6. QED  BY <1>1, <1>2, <1>3, <1>4, <1>5 DEF Next

LEMMA InitBooks == Init => Credits!Init /\ Spends!Init
<1> SUFFICES ASSUME Init PROVE Credits!Init /\ Spends!Init  OBVIOUS
<1>1. /\ created = {} /\ DOMAIN grants = {} /\ DOMAIN events = {} /\ DOMAIN adjustments = {}
      /\ paidKeys = {} /\ trued = {} /\ Charged = {}
      /\ credit = [a \in Account |-> 0] /\ spent = [a \in Account |-> 0]
  BY DEF Init, Charged
<1>2. \A d : TruedUp(d) = {}  BY <1>1 DEF TruedUp
<1>3. CreditEntries = {} /\ SpendEntries = {} /\ CreditPaid = {} /\ SpendPaid = {}
  BY <1>1, <1>2 DEF CreditEntries, SpendEntries, CreditPaid, SpendPaid
<1>4. CreditEntry = [o \in {} |-> <<>>] /\ SpendEntry = [o \in {} |-> <<>>]
  BY <1>3 DEF CreditEntry, SpendEntry
<1>5. QED  BY <1>1, <1>3, <1>4 DEF Credits!Init, Spends!Init

\* Whatever is retried, raced, cut or rejected, the two money columns move only by
\* operations that are entered once and paid at most once, on the account and by the
\* amount of their first row (store-d1.ts createAccount, grantCredit, recordUsage,
\* applyUsageAdjustment).
THEOREM MeteringImplementsBooks == Spec => ColumnsMoveOnce
<1>1. [Next]_vars /\ IInv => CreditStep /\ SpendStep  BY NextBooks
<1>2. QED
  BY <1>1, InitBooks, AlwaysIInv, PTL
  DEF Spec, ColumnsMoveOnce, Credits!Spec, Spends!Spec, CreditStep, SpendStep
=============================================================================
