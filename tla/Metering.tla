------------------------------ MODULE Metering ------------------------------
(***************************************************************************)
(* The money of the control plane: the D1 tables of store-d1.ts and the    *)
(* callers that move money through them.                                   *)
(*                                                                         *)
(*   - a request handler (routes/chat.ts, routes/nonchat.ts) or the        *)
(*     finalize step of a long-run job (routes/longrun-workflow.ts):       *)
(*     authenticate, gate on the two pools, go upstream, split the charge  *)
(*     and recordUsage;                                                    *)
(*   - an operator or a store redemption calling grantCredit;              *)
(*   - a reconciliation run calling applyUsageAdjustment.                  *)
(*                                                                         *)
(* One action is one D1 statement (or one atomic batch) together with the  *)
(* code up to the next await.  Between two statements anything else may    *)
(* run, and the caller may be cut: its isolate dies, or the statement      *)
(* rejects.  A statement that lands and then rejects is that statement     *)
(* followed by a cut.                                                      *)
(***************************************************************************)
EXTENDS Integers, Balance, Sums

CONSTANTS
  Account,     \* account ids
  NReq,        \* requests are 1..NReq; a request id is minted once (index.ts)
  Owner,       \* the account whose device sends request r
  Jobs,        \* the requests that are long-run jobs: recording is retried
  NKey,        \* grant idempotency keys are 1..NKey
  Caller,      \* concurrent grantCredit calls
  Worker,      \* concurrent reconciliation runs
  LastMonth,   \* UTC months are 1..LastMonth
  Included,    \* plan.monthlyIncludedMicroUsd
  Signup,      \* plan.signup_credit_micro_usd
  MaxCost,     \* bound on the price of one request (max_output_tokens)
  Bill,        \* what the gateway's log may say one request cost
  MaxGrant,    \* bound on one top-up
  MaxTries     \* retries of a workflow step

Req == 1..NReq
Key == 1..NKey
Month == 1..LastMonth

ASSUME ConstantsAssumption ==
  /\ NReq \in Nat /\ NKey \in Nat /\ LastMonth \in Nat \ {0}
  /\ Owner \in [Req -> Account] /\ Jobs \subseteq Req
  /\ Included \in Nat /\ Signup \in Nat
  /\ MaxCost \in Nat /\ Bill \subseteq 0..MaxCost /\ MaxGrant \in Nat /\ MaxTries \in Nat

VARIABLES
  \* The tables.
  created,      \* accounts that have a row (and, by the same batch, a signup grant)
  credit,       \* accounts.credit_micro_usd
  spent,        \* accounts.spent_micro_usd
  grants,       \* credit_grants by idempotency key; signup grants and the
                \* grant rows of downward true-ups aside
  events,       \* usage_events by request id
  periods,      \* usage_periods by account and month
  adjustments,  \* usage_adjustments by the request of their gateway log row
  \* The world.
  month,        \* the current UTC month
  billed,       \* what the gateway's log says request r cost
  \* The callers.
  pc, local,    \* request handlers
  call,         \* grantCredit calls
  work,         \* applyUsageAdjustment calls
  \* What callers were told, and history.
  answer,       \* the answer request r got
  replies,      \* answers of grantCredit: key and applied flag
  landed,       \* which counter updates of request r landed
  paidKeys,     \* keys whose credit landed
  trued,        \* requests whose true-up landed
  raced,        \* accounts that ever had two requests in flight
  cut           \* TRUE once any caller was cut

tables == <<created, credit, spent, grants, events, periods, adjustments>>
requestVars == <<pc, local, answer, landed, raced>>
grantVars == <<call, replies, paidKeys>>
workVars == <<work, trued>>
vars == <<tables, month, billed, requestVars, grantVars, workVars, cut>>

-----------------------------------------------------------------------------
(***************************************************************************)
(* Rows.                                                                   *)
(***************************************************************************)
Cost == 0..MaxCost
Grant == 1..MaxGrant

Column == {"micro_usd", "requests", "unmetered_requests",
           "allowance_spent", "adjust_spend", "adjust_credit"}

EventRow == [period: Month, micro_usd: Cost, metered: BOOLEAN,
             from_allowance: Cost, from_credit: Cost]

GrantRow == [account: Account, micro_usd: Grant]

AdjustmentRow == [period: Month, direction: {"spend", "credit"}, applied: Cost]

\* INSERT OR IGNORE of a row whose key is not in the table.
Insert(table, key, row) ==
  [k \in DOMAIN table \cup {key} |-> IF k = key THEN row ELSE table[k]]

\* What one usage event adds to a column of its month.
EventShare(event, c) ==
  CASE c = "micro_usd" -> IF event.metered THEN event.micro_usd ELSE 0
    [] c = "requests" -> 1
    [] c = "unmetered_requests" -> IF event.metered THEN 0 ELSE 1
    [] c = "allowance_spent" -> event.from_allowance
    [] OTHER -> 0

\* What one true-up adds to a column of its event's month.
AdjustmentShare(adjustment, c) ==
  CASE c = "adjust_spend" ->
         IF adjustment.direction = "spend" THEN adjustment.applied ELSE 0
    [] c = "adjust_credit" ->
         IF adjustment.direction = "credit" THEN adjustment.applied ELSE 0
    [] OTHER -> 0

-----------------------------------------------------------------------------
(***************************************************************************)
(* Initially the database is migrated and empty.                           *)
(***************************************************************************)
Phase == {"start", "authed", "admitted", "metered", "built", "inserted",
          "rolled", "written", "done"}

Blank == [period |-> 1, credit |-> 0, spent |-> 0, micro_usd |-> 0,
          metered |-> FALSE, from_allowance |-> 0, from_credit |-> 0, tries |-> 0]

Idle == [pc |-> "idle"]

Init ==
  /\ created = {}
  /\ credit = [a \in Account |-> 0]
  /\ spent = [a \in Account |-> 0]
  /\ grants = [k \in {} |-> Idle]
  /\ events = [r \in {} |-> Blank]
  /\ periods = [a \in Account |-> [m \in Month |-> [c \in Column |-> 0]]]
  /\ adjustments = [r \in {} |-> Blank]
  /\ month = 1
  /\ billed = [r \in Req |-> 0]
  /\ pc = [r \in Req |-> "start"]
  /\ local = [r \in Req |-> Blank]
  /\ call = [c \in Caller |-> Idle]
  /\ work = [w \in Worker |-> Idle]
  /\ answer = [r \in Req |-> "none"]
  /\ replies = {}
  /\ landed = [r \in Req |-> {}]
  /\ paidKeys = {}
  /\ trued = {}
  /\ raced = {}
  /\ cut = FALSE

\* The account row and its opening grant, in one batch.
createAccount(a) ==
  /\ a \notin created
  /\ created' = created \cup {a}
  /\ credit' = [credit EXCEPT ![a] = Signup]
  /\ UNCHANGED <<spent, grants, events, periods, adjustments, month, billed>>
  /\ UNCHANGED <<requestVars, grantVars, workVars, cut>>

\* The UTC calendar month rolls.
NextMonth ==
  /\ month < LastMonth
  /\ month' = month + 1
  /\ UNCHANGED <<tables, billed, requestVars, grantVars, workVars, cut>>

-----------------------------------------------------------------------------
(***************************************************************************)
(* One request.                                                            *)
(***************************************************************************)
InFlight(r) == pc[r] \notin {"start", "done"}

GoTo(r, phase) == pc' = [pc EXCEPT ![r] = phase]

\* The handler ends; its locals die with it.
Finish(r, a) ==
  /\ GoTo(r, "done")
  /\ local' = [local EXCEPT ![r] = Blank]
  /\ answer' = [answer EXCEPT ![r] = a]

\* resolveClient reads the account row once; the month is that of ctx.now.
resolveClient(r) ==
  /\ pc[r] = "start"
  /\ Owner[r] \in created
  /\ local' = [local EXCEPT ![r] = [Blank EXCEPT !.period = month,
                                                 !.credit = credit[Owner[r]],
                                                 !.spent = spent[Owner[r]]]]
  /\ GoTo(r, "authed")
  /\ raced' = IF \E q \in Req : q # r /\ Owner[q] = Owner[r] /\ InFlight(q)
              THEN raced \cup {Owner[r]}
              ELSE raced
  /\ UNCHANGED <<tables, month, billed, answer, landed, grantVars, workVars, cut>>

\* The dual-pool gate: the account as it was at authentication, the period row
\* as it is now.
Gate(r) ==
  /\ pc[r] = "authed"
  /\ LET l == local[r]
         used == periods[Owner[r]][l.period]["allowance_spent"]
     IN IF decideBalance(l.credit, l.spent, Included, used) = "allow"
        THEN GoTo(r, "admitted") /\ UNCHANGED <<local, answer>>
        ELSE Finish(r, "refused")
  /\ UNCHANGED <<tables, month, billed, landed, raced, grantVars, workVars, cut>>

\* The upstream answers with something the meter prices at `estimate`; the
\* gateway's own log will say `cost`.
Serve(r, estimate, cost) ==
  /\ pc[r] = "admitted"
  /\ local' = [local EXCEPT ![r] = [@ EXCEPT !.micro_usd = estimate, !.metered = TRUE]]
  /\ billed' = [billed EXCEPT ![r] = cost]
  /\ GoTo(r, "metered")
  /\ UNCHANGED <<tables, month, answer, landed, raced, grantVars, workVars, cut>>

\* It answers with no readable usage, or not in time: an unmetered event is
\* built, with no period read.  A job either has a price or fails.
ServeUnpriced(r, cost) ==
  /\ pc[r] = "admitted"
  /\ r \notin Jobs
  /\ billed' = [billed EXCEPT ![r] = cost]
  /\ GoTo(r, "built")
  /\ UNCHANGED <<tables, month, local, answer, landed, raced, grantVars, workVars, cut>>

\* No upstream credential, the provider refuses, or its body has no text: no
\* ledger row.
UpstreamError(r) ==
  /\ pc[r] = "admitted"
  /\ Finish(r, "upstream_error")
  /\ UNCHANGED <<tables, month, billed, landed, raced, grantVars, workVars, cut>>

\* The month a charge is booked in: a handler's own, the current one for a job.
BookingMonth(r) == IF r \in Jobs THEN month ELSE local[r].period

\* buildEvent / meterJob: a fresh read of the period row, then the split.
buildEvent(r) ==
  /\ pc[r] = "metered"
  /\ LET m == BookingMonth(r)
         split == allocateCharge(local[r].micro_usd, Included,
                                 periods[Owner[r]][m]["allowance_spent"])
     IN local' = [local EXCEPT ![r] = [@ EXCEPT !.period = m,
                                                !.from_allowance = split.allowance,
                                                !.from_credit = split.credit]]
  /\ GoTo(r, "built")
  /\ UNCHANGED <<tables, month, billed, answer, landed, raced, grantVars, workVars, cut>>

\* The row recordUsage writes: no share of either pool unless it is metered.
Event(l) ==
  [period         |-> l.period,
   micro_usd      |-> l.micro_usd,
   metered        |-> l.metered,
   from_allowance |-> IF l.metered THEN l.from_allowance ELSE 0,
   from_credit    |-> IF l.metered THEN l.from_credit ELSE 0]

\* Mutant: meta.changes is not looked at, so a retry charges again.
insertEventUngated(r) ==
  /\ pc[r] = "built"
  /\ GoTo(r, "inserted")
  /\ events' = IF r \in DOMAIN events THEN events ELSE Insert(events, r, Event(local[r]))
  /\ UNCHANGED <<created, credit, spent, grants, periods, adjustments, month, billed>>
  /\ UNCHANGED <<local, answer, landed, raced, grantVars, workVars, cut>>

\* Mutant: INSERT OR REPLACE.
insertEventReplacing(r) ==
  /\ pc[r] = "built"
  /\ GoTo(r, IF r \in DOMAIN events THEN "written" ELSE "inserted")
  /\ events' = Insert(events, r, Event(local[r]))
  /\ UNCHANGED <<created, credit, spent, grants, periods, adjustments, month, billed>>
  /\ UNCHANGED <<local, answer, landed, raced, grantVars, workVars, cut>>

\* recordUsage, first statement.  An ignored insert returns at once.
insertEvent(r) ==
  /\ pc[r] = "built"
  /\ IF r \in DOMAIN events
     THEN GoTo(r, "written") /\ UNCHANGED events
     ELSE GoTo(r, "inserted") /\ events' = Insert(events, r, Event(local[r]))
  /\ UNCHANGED <<created, credit, spent, grants, periods, adjustments, month, billed>>
  /\ UNCHANGED <<local, answer, landed, raced, grantVars, workVars, cut>>

\* recordUsage, second statement: the period upsert.
upsertPeriod(r) ==
  /\ pc[r] = "inserted"
  /\ LET event == Event(local[r])
     IN /\ periods' = [periods EXCEPT ![Owner[r]][event.period] =
                         [c \in Column |-> @[c] + EventShare(event, c)]]
        /\ GoTo(r, IF event.metered /\ event.from_credit > 0 THEN "rolled" ELSE "written")
  /\ landed' = [landed EXCEPT ![r] = @ \cup {"period"}]
  /\ UNCHANGED <<created, credit, spent, grants, events, adjustments, month, billed>>
  /\ UNCHANGED <<local, answer, raced, grantVars, workVars, cut>>

\* Mutant: the new balance is computed from the account row read at the start.
updateSpentStale(r) ==
  /\ pc[r] = "rolled"
  /\ spent' = [spent EXCEPT ![Owner[r]] = local[r].spent + Event(local[r]).from_credit]
  /\ landed' = [landed EXCEPT ![r] = @ \cup {"account"}]
  /\ GoTo(r, "written")
  /\ UNCHANGED <<created, credit, grants, events, periods, adjustments, month, billed>>
  /\ UNCHANGED <<local, answer, raced, grantVars, workVars, cut>>

\* recordUsage, third statement: prepaid spend.
updateSpent(r) ==
  /\ pc[r] = "rolled"
  /\ spent' = [spent EXCEPT ![Owner[r]] = @ + Event(local[r]).from_credit]
  /\ landed' = [landed EXCEPT ![r] = @ \cup {"account"}]
  /\ GoTo(r, "written")
  /\ UNCHANGED <<created, credit, grants, events, periods, adjustments, month, billed>>
  /\ UNCHANGED <<local, answer, raced, grantVars, workVars, cut>>

\* The handler answers prism-usage-recorded: true; a job is marked succeeded.
Answer(r) ==
  /\ pc[r] = "written"
  /\ Finish(r, "recorded")
  /\ UNCHANGED <<tables, month, billed, landed, raced, grantVars, workVars, cut>>

\* Mutant: recordQuietly swallows the error and reports true.
RejectSwallowed(r) ==
  /\ pc[r] \in {"metered", "built", "inserted", "rolled", "written"}
  /\ cut' = TRUE
  /\ Finish(r, "recorded")
  /\ UNCHANGED <<tables, month, billed, landed, raced, grantVars, workVars>>

\* Mutant: a workflow step is retried without counting.
RejectForever(r) ==
  /\ pc[r] \in {"metered", "built", "inserted", "rolled", "written"}
  /\ cut' = TRUE
  /\ IF r \in Jobs
     THEN GoTo(r, "metered") /\ UNCHANGED <<local, answer>>
     ELSE Finish(r, "unrecorded")
  /\ UNCHANGED <<tables, month, billed, landed, raced, grantVars, workVars>>

\* A D1 call rejects.  recordQuietly reports prism-usage-recorded: false; the
\* period read is outside it and becomes a 500; a workflow step runs again from
\* its first line until its retries are used up.
Reject(r) ==
  /\ pc[r] \in {"metered", "built", "inserted", "rolled", "written"}
  /\ cut' = TRUE
  /\ IF r \in Jobs /\ local[r].tries < MaxTries
     THEN /\ GoTo(r, "metered")
          /\ local' = [local EXCEPT ![r].tries = @ + 1]
          /\ UNCHANGED answer
     ELSE Finish(r, CASE r \in Jobs -> "failed"
                      [] r \notin Jobs /\ pc[r] = "metered" -> "internal"
                      [] OTHER -> "unrecorded")
  /\ UNCHANGED <<tables, month, billed, landed, raced, grantVars, workVars>>

\* The isolate dies.  (A job's step would be run again: that is Reject.)
Crash(r) ==
  /\ InFlight(r)
  /\ r \notin Jobs
  /\ cut' = TRUE
  /\ Finish(r, "none")
  /\ UNCHANGED <<tables, month, billed, landed, raced, grantVars, workVars>>

\* The steps a live handler takes by itself.
Step(r) ==
  \/ Gate(r)
  \/ \E estimate \in Cost, cost \in Bill : Serve(r, estimate, cost)
  \/ \E cost \in Bill : ServeUnpriced(r, cost)
  \/ UpstreamError(r)
  \/ buildEvent(r)
  \/ insertEvent(r)
  \/ upsertPeriod(r)
  \/ updateSpent(r)
  \/ Answer(r)

-----------------------------------------------------------------------------
(***************************************************************************)
(* grantCredit, called by an operator or a store redemption.  A retry is   *)
(* another call with the same key.                                         *)
(***************************************************************************)
\* Mutant: meta.changes is not looked at, so a replay credits again.
insertGrantUngated(c, k, a, amount) ==
  /\ call[c].pc = "idle"
  /\ a \in created
  /\ grants' = IF k \in DOMAIN grants THEN grants
               ELSE Insert(grants, k, [account |-> a, micro_usd |-> amount])
  /\ call' = [call EXCEPT ![c] = [pc |-> "crediting", key |-> k, applied |-> TRUE]]
  /\ UNCHANGED <<created, credit, spent, events, periods, adjustments, month, billed>>
  /\ UNCHANGED <<requestVars, replies, paidKeys, workVars, cut>>

\* The grant row; its idempotency key is unique.
insertGrant(c, k, a, amount) ==
  /\ call[c].pc = "idle"
  /\ a \in created
  /\ IF k \in DOMAIN grants
     THEN /\ UNCHANGED grants
          /\ call' = [call EXCEPT ![c] = [pc |-> "reading", key |-> k, applied |-> FALSE]]
     ELSE /\ grants' = Insert(grants, k, [account |-> a, micro_usd |-> amount])
          /\ call' = [call EXCEPT ![c] = [pc |-> "crediting", key |-> k, applied |-> TRUE]]
  /\ UNCHANGED <<created, credit, spent, events, periods, adjustments, month, billed>>
  /\ UNCHANGED <<requestVars, replies, paidKeys, workVars, cut>>

updateCredit(c) ==
  /\ call[c].pc = "crediting"
  /\ LET grant == grants[call[c].key]
     IN credit' = [credit EXCEPT ![grant.account] = @ + grant.micro_usd]
  /\ paidKeys' = paidKeys \cup {call[c].key}
  /\ call' = [call EXCEPT ![c].pc = "reading"]
  /\ UNCHANGED <<created, spent, grants, events, periods, adjustments, month, billed>>
  /\ UNCHANGED <<requestVars, replies, workVars, cut>>

replyGrant(c) ==
  /\ call[c].pc = "reading"
  /\ replies' = replies \cup {[key |-> call[c].key, applied |-> call[c].applied]}
  /\ call' = [call EXCEPT ![c] = Idle]
  /\ UNCHANGED <<tables, month, billed, requestVars, paidKeys, workVars, cut>>

cutGrant(c) ==
  /\ call[c].pc # "idle"
  /\ call' = [call EXCEPT ![c] = Idle]
  /\ cut' = TRUE
  /\ UNCHANGED <<tables, month, billed, requestVars, replies, paidKeys, workVars>>

-----------------------------------------------------------------------------
(***************************************************************************)
(* applyUsageAdjustment, called by a reconciliation run for one gateway    *)
(* row.  Several runs may hold the same row.                               *)
(***************************************************************************)
\* Mutant: only the share paid from credit counts as the estimate.
EstimateFromCredit(r) == events[r].from_credit

\* What the ledger says request r cost.
Estimate(r) == IF events[r].metered THEN events[r].micro_usd ELSE 0

\* The ledger row is read and decideAdjustment finds a difference.
decideAdjustment(w, r) ==
  /\ work[w].pc = "idle"
  /\ r \in DOMAIN events
  /\ billed[r] # Estimate(r)
  /\ LET delta == billed[r] - Estimate(r)
     IN work' = [work EXCEPT ![w] =
          [pc |-> "decided", req |-> r,
           direction |-> IF delta > 0 THEN "spend" ELSE "credit",
           applied |-> IF delta > 0 THEN delta ELSE -delta]]
  /\ UNCHANGED <<tables, month, billed, requestVars, grantVars, trued, cut>>

\* Mutant: the money is moved whether or not the audit row is new.
insertAdjustmentUngated(w) ==
  /\ work[w].pc = "decided"
  /\ LET r == work[w].req
     IN adjustments' = IF r \in DOMAIN adjustments THEN adjustments
                       ELSE Insert(adjustments, r,
                              [period |-> events[r].period,
                               direction |-> work[w].direction,
                               applied |-> work[w].applied])
  /\ work' = [work EXCEPT ![w].pc = "audited"]
  /\ UNCHANGED <<created, credit, spent, grants, events, periods, month, billed>>
  /\ UNCHANGED <<requestVars, grantVars, trued, cut>>

\* The audit row is the idempotency gate.
insertAdjustment(w) ==
  /\ work[w].pc = "decided"
  /\ LET r == work[w].req
     IN IF r \in DOMAIN adjustments
        THEN /\ work' = [work EXCEPT ![w] = Idle]
             /\ UNCHANGED adjustments
        ELSE /\ work' = [work EXCEPT ![w].pc = "audited"]
             /\ adjustments' = Insert(adjustments, r,
                  [period |-> events[r].period,
                   direction |-> work[w].direction,
                   applied |-> work[w].applied])
  /\ UNCHANGED <<created, credit, spent, grants, events, periods, month, billed>>
  /\ UNCHANGED <<requestVars, grantVars, trued, cut>>

\* The money, and the month's own counter, in one batch.  (The grant row of a
\* downward true-up is written with it and holds what the audit row holds.)
moveMoney(w) ==
  /\ work[w].pc = "audited"
  /\ LET r == work[w].req
         a == Owner[r]
         row == adjustments[r]
     IN /\ spent' = IF row.direction = "spend"
                    THEN [spent EXCEPT ![a] = @ + row.applied] ELSE spent
        /\ credit' = IF row.direction = "credit"
                     THEN [credit EXCEPT ![a] = @ + row.applied] ELSE credit
        /\ periods' = [periods EXCEPT ![a][row.period] =
                         [c \in Column |-> @[c] + AdjustmentShare(row, c)]]
        /\ trued' = trued \cup {r}
  /\ work' = [work EXCEPT ![w] = Idle]
  /\ UNCHANGED <<created, grants, events, adjustments, month, billed>>
  /\ UNCHANGED <<requestVars, grantVars, cut>>

cutAdjustment(w) ==
  /\ work[w].pc # "idle"
  /\ work' = [work EXCEPT ![w] = Idle]
  /\ cut' = TRUE
  /\ UNCHANGED <<tables, month, billed, requestVars, grantVars, trued>>

-----------------------------------------------------------------------------
Next ==
  \/ \E a \in Account : createAccount(a)
  \/ NextMonth
  \/ \E r \in Req : resolveClient(r) \/ Step(r) \/ Reject(r) \/ Crash(r)
  \/ \E c \in Caller :
       \/ \E k \in Key, a \in Account, amount \in Grant : insertGrant(c, k, a, amount)
       \/ updateCredit(c)
       \/ replyGrant(c)
       \/ cutGrant(c)
  \/ \E w \in Worker :
       \/ \E r \in Req : decideAdjustment(w, r)
       \/ insertAdjustment(w)
       \/ moveMoney(w)
       \/ cutAdjustment(w)

Spec == Init /\ [][Next]_vars

\* A live handler goes on: Workers run it to its answer, the upstream call is
\* aborted at upstreamTimeoutMs, and a workflow step is driven by the engine.
\* Nobody has to call, and nothing has to fail.
FairSpec == Spec /\ \A r \in Req : WF_vars(Step(r))

-----------------------------------------------------------------------------
(***************************************************************************)
(* The audit: the columns re-summed from the rows of a table.  S, T and K  *)
(* restrict the sum to some rows.                                          *)
(***************************************************************************)
CreditCharges(a, S) ==
  [r \in Req |-> IF r \in S /\ r \in DOMAIN events /\ Owner[r] = a
                 THEN events[r].from_credit ELSE 0]

TrueUps(a, d, T) ==
  [r \in Req |-> IF /\ r \in T /\ r \in DOMAIN adjustments /\ Owner[r] = a
                    /\ adjustments[r].direction = d
                 THEN adjustments[r].applied ELSE 0]

TopUps(a, K) ==
  [k \in Key |-> IF k \in K /\ k \in DOMAIN grants /\ grants[k].account = a
                 THEN grants[k].micro_usd ELSE 0]

EventShares(a, m, c, S) ==
  [r \in Req |-> IF /\ r \in S /\ r \in DOMAIN events /\ Owner[r] = a
                    /\ events[r].period = m
                 THEN EventShare(events[r], c) ELSE 0]

AdjustmentShares(a, m, c, T) ==
  [r \in Req |-> IF /\ r \in T /\ r \in DOMAIN adjustments /\ Owner[r] = a
                    /\ adjustments[r].period = m
                 THEN AdjustmentShare(adjustments[r], c) ELSE 0]

SpentBy(a, S, T) ==
  SumTo(CreditCharges(a, S), NReq) + SumTo(TrueUps(a, "spend", T), NReq)

CreditBy(a, K, T) ==
  (IF a \in created THEN Signup ELSE 0)
    + SumTo(TopUps(a, K), NKey) + SumTo(TrueUps(a, "credit", T), NReq)

PeriodBy(a, m, c, S, T) ==
  SumTo(EventShares(a, m, c, S), NReq) + SumTo(AdjustmentShares(a, m, c, T), NReq)

Charged == {r \in Req : "account" \in landed[r]}
Rolled == {r \in Req : "period" \in landed[r]}

\* No caller is between two statements.
Quiet ==
  /\ \A r \in Req : ~InFlight(r)
  /\ \A c \in Caller : call[c].pc = "idle"
  /\ \A w \in Worker : work[w].pc = "idle"

-----------------------------------------------------------------------------
(***************************************************************************)
(* Properties.                                                             *)
(***************************************************************************)
Local == [period: Month, credit: Nat, spent: Nat, micro_usd: Cost,
          metered: BOOLEAN, from_allowance: Cost, from_credit: Cost,
          tries: 0..MaxTries]

Answers == {"none", "refused", "upstream_error", "recorded", "unrecorded",
            "internal", "failed"}

Call == {Idle} \cup [pc: {"crediting", "reading"}, key: Key, applied: BOOLEAN]

Work == {Idle} \cup [pc: {"decided", "audited"}, req: Req,
                     direction: {"spend", "credit"}, applied: Cost]

\* The rows of a table keyed by a subset of S.
Table(table, S, Row) ==
  /\ DOMAIN table \subseteq S
  /\ table \in [DOMAIN table -> Row]

\* The type invariant: every column is a natural, every row has its shape, and
\* every caller is at a known statement.
TypeOK ==
  /\ created \subseteq Account
  /\ credit \in [Account -> Nat]
  /\ spent \in [Account -> Nat]
  /\ Table(grants, Key, GrantRow)
  /\ Table(events, Req, EventRow)
  /\ periods \in [Account -> [Month -> [Column -> Nat]]]
  /\ Table(adjustments, Req, AdjustmentRow)
  /\ month \in Month
  /\ billed \in [Req -> Cost]
  /\ pc \in [Req -> Phase]
  /\ local \in [Req -> Local]
  /\ call \in [Caller -> Call]
  /\ work \in [Worker -> Work]
  /\ answer \in [Req -> Answers]
  /\ replies \subseteq [key: Key, applied: BOOLEAN]
  /\ landed \in [Req -> SUBSET {"period", "account"}]
  /\ paidKeys \subseteq Key
  /\ trued \subseteq Req
  /\ raced \subseteq Account
  /\ cut \in BOOLEAN

\* Every counter equals the re-sum of exactly the rows whose update landed:
\* an update lands at most once, for the amount in the row, on the account and
\* in the month of the row (store-d1.ts, the UPDATEs of recordUsage, grantCredit
\* and applyUsageAdjustment).
CountersExplained ==
  \A a \in Account :
    /\ spent[a] = SpentBy(a, Charged, trued)
    /\ credit[a] = CreditBy(a, paidKeys, trued)
    /\ \A m \in Month, c \in Column : periods[a][m][c] = PeriodBy(a, m, c, Rolled, trued)

\* A handler between the statements of recordUsage holds the row it inserted,
\* and knows which counters are still to come.
RequestOwns ==
  \A r \in Req :
    /\ pc[r] \in {"inserted", "rolled"} => r \in DOMAIN events /\ events[r] = Event(local[r])
    /\ pc[r] = "inserted" => landed[r] = {}
    /\ pc[r] = "rolled" => landed[r] = {"period"}
    /\ r \notin DOMAIN events => landed[r] = {}

\* At most one call holds a grant that is not credited yet.
CallerOwns ==
  /\ paidKeys \subseteq DOMAIN grants
  /\ \A c \in Caller : call[c].pc = "crediting" =>
       /\ call[c].key \in DOMAIN grants \ paidKeys
       /\ \A d \in Caller \ {c} : call[d].pc = "crediting" => call[d].key # call[c].key

\* At most one run holds an adjustment whose money has not moved yet.
WorkerOwns ==
  /\ trued \subseteq DOMAIN adjustments
  /\ \A w \in Worker :
       /\ work[w].pc # "idle" => work[w].req \in DOMAIN events
       /\ work[w].pc = "audited" =>
            /\ work[w].req \in DOMAIN adjustments \ trued
            /\ \A v \in Worker \ {w} : work[v].pc = "audited" => work[v].req # work[w].req

\* Rows belong to accounts that exist, and an adjustment to an event.
AccountsFirst ==
  /\ \A a \in Account \ created : credit[a] = 0
  /\ \A r \in Req : InFlight(r) => Owner[r] \in created
  /\ \A r \in DOMAIN events : Owner[r] \in created
  /\ \A k \in DOMAIN grants : grants[k].account \in created
  /\ DOMAIN adjustments \subseteq DOMAIN events

\* Between the statements of one call nobody else can finish its work for it: an
\* INSERT OR IGNORE that took effect gives its caller the row's counter updates
\* for itself (store-d1.ts, the meta.changes gates).
RowsOwned == RequestOwns /\ CallerOwns /\ WorkerOwns /\ AccountsFirst

\* The counters never stand above the rows they summarise: whatever crashes,
\* rejects or is retried, an account is under-charged and never over-charged,
\* and no credit appears that no grant row explains (store-d1.ts, recordUsage,
\* grantCredit, applyUsageAdjustment).
NeverAboveLedger ==
  \A a \in Account :
    /\ spent[a] <= SpentBy(a, Req, Req)
    /\ credit[a] <= CreditBy(a, Key, Req)
    /\ \A m \in Month, c \in Column : periods[a][m][c] <= PeriodBy(a, m, c, Req, Req)

\* When nothing was ever cut and no call is in flight, every counter equals the
\* re-sum of its rows exactly: no interleaving of whole calls loses or repeats
\* an update.
ExactUnlessCut ==
  (Quiet /\ ~cut) =>
    \A a \in Account :
      /\ spent[a] = SpentBy(a, Req, Req)
      /\ credit[a] = CreditBy(a, Key, Req)
      /\ \A m \in Month, c \in Column : periods[a][m][c] = PeriodBy(a, m, c, Req, Req)

\* What the pre-flight gate does guarantee: as long as an account's requests
\* did not overlap and nothing was cut or trued up, its allowance is never
\* exceeded and credit is overshot by less than one request per month
\* (balance.ts decideBalance, allocateCharge; chat.ts steps 9-12).
SerialOvershoot ==
  \A a \in Account :
    (a \notin raced /\ ~cut /\ DOMAIN adjustments = {}) =>
      /\ \A m \in Month : periods[a][m]["allowance_spent"] <= Included
      /\ spent[a] <= credit[a] + month * AtLeastZero(MaxCost - 1)

\* prism-usage-recorded: true is never sent for a charge that did not reach
\* every counter (chat.ts, recordQuietly).
RecordedIsCharged ==
  \A r \in Req \ Jobs : answer[r] = "recorded" =>
    /\ r \in DOMAIN events
    /\ r \in Rolled
    /\ events[r].from_credit > 0 => r \in Charged

\* After every difference was trued up, what both pools paid, less what was
\* credited back, is what the gateway billed for the recorded requests
\* (reconcile.ts decideAdjustment against store-d1.ts applyUsageAdjustment).
NetEqualsBill ==
  (Quiet /\ ~cut /\ \A r \in DOMAIN events : billed[r] = Estimate(r) \/ r \in trued) =>
    \A a \in Account :
      LET perMonth(c) == SumTo([m \in Month |-> periods[a][m][c]], LastMonth)
      IN spent[a] + perMonth("allowance_spent") - perMonth("adjust_credit")
           = SumTo([r \in Req |-> IF r \in DOMAIN events /\ Owner[r] = a
                                  THEN billed[r] ELSE 0], NReq)

\* A row, once inserted, never changes or disappears, and no money column ever
\* goes down (balance.ts: "Monotonic"; migrations 0002, 0003).
AppendOnly ==
  /\ \A r \in DOMAIN events : r \in DOMAIN events' /\ events'[r] = events[r]
  /\ \A k \in DOMAIN grants : k \in DOMAIN grants' /\ grants'[k] = grants[k]
  /\ \A r \in DOMAIN adjustments :
       r \in DOMAIN adjustments' /\ adjustments'[r] = adjustments[r]
  /\ \A a \in Account :
       /\ spent'[a] >= spent[a]
       /\ credit'[a] >= credit[a]
       /\ \A m \in Month, c \in Column : periods'[a][m][c] >= periods[a][m][c]
LedgerAppendOnly == [][AppendOnly]_vars

\* A request that was admitted is eventually answered or abandoned, retries of
\* a job's recording included.
AdmittedSettles == \A r \in Req : pc[r] = "admitted" ~> pc[r] = "done"

-----------------------------------------------------------------------------
(***************************************************************************)
(* What the repository says and the code does not keep (see the findings). *)
(***************************************************************************)

\* README.md: "an account can overshoot by at most one request".
OvershootAtMostOneRequest ==
  \A a \in Account : spent[a] <= credit[a] + AtLeastZero(MaxCost - 1)

\* store.ts: grantCredit's applied:false means "already granted".
ReplayWasGranted ==
  \A reply \in replies : ~reply.applied => reply.key \in paidKeys
=============================================================================
