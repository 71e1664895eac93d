---------------------------- MODULE DoorsProofs ----------------------------
(***************************************************************************)
(* What the operators of Meter return, for every usage, price, plan and    *)
(* requested length; and what the doors of Doors then answer, charge and   *)
(* record, for any number of requests and edits, any catalog and any plan. *)
(***************************************************************************)
EXTENDS Doors, SumsProofs

(***************************************************************************)
(* Prices and plans.                                                       *)
(***************************************************************************)
Pair == [input : Nat, output : Nat]

LEMMA ExactIsNat ==
  ASSUME NEW usage \in Pair, NEW price \in Pair
  PROVE  exactMicroUsd(usage, price) \in Nat
BY DEF exactMicroUsd, Pair

LEMMA MTokIsPositive == MTok \in Nat /\ MTok > 0
BY SMT DEF MTok

\* priceUsage charges the least whole micro-USD that covers the tokens: never less
\* than the exact cost, and less than one micro-USD more (meter.ts priceUsage).
THEOREM MeasuredCovers ==
  ASSUME NEW usage \in Pair, NEW price \in Pair
  PROVE  /\ priceUsage(usage, price) \in Nat
         /\ priceUsage(usage, price) * MTok - exactMicroUsd(usage, price) \in 0..(MTok - 1)
<1> DEFINE x == exactMicroUsd(usage, price)
<1>1. x \in Nat  BY ExactIsNat
<1> HIDE DEF x
<1>2. ((x + MTok - 1) \div MTok) \in Nat /\ ((x + MTok - 1) \div MTok) * MTok - x \in 0..(MTok - 1)
  BY <1>1, Rounding, MTokIsPositive
<1>3. QED  BY <1>2 DEF x, priceUsage

\* An aborted stream's estimate never charges more than the measurement of the same
\* tokens would, and at most one micro-USD less (meter.ts priceEstimatedUsage).
THEOREM EstimateBelowMeasured ==
  ASSUME NEW usage \in Pair, NEW price \in Pair
  PROVE  priceEstimatedUsage(usage, price) \in
           (priceUsage(usage, price) - 1)..priceUsage(usage, price)
<1> DEFINE x == exactMicroUsd(usage, price)
<1>1. x \in Nat  BY ExactIsNat
<1> HIDE DEF x
<1>2. x \div MTok \in (((x + MTok - 1) \div MTok) - 1)..((x + MTok - 1) \div MTok)
  BY <1>1, Rounding, MTokIsPositive
<1>3. QED  BY <1>2 DEF x, priceUsage, priceEstimatedUsage

\* Four bytes make a token, the rest of less than four none, so that no estimate
\* counts a token that was not relayed (meter.ts estimateStreamUsage).
THEOREM EstimateCountsWholeTokens ==
  ASSUME NEW promptBytes \in Nat, NEW outputBytes \in Nat
  PROVE  LET u == estimateStreamUsage(promptBytes, outputBytes)
         IN /\ u \in Pair
            /\ promptBytes - u.input * ESTIMATE_BYTES_PER_TOKEN \in 0..3
            /\ outputBytes - u.output * ESTIMATE_BYTES_PER_TOKEN \in 0..3
<1>1. ASSUME NEW b \in Nat
      PROVE  /\ estimateTokensFromBytes(b) \in Nat
             /\ b - estimateTokensFromBytes(b) * ESTIMATE_BYTES_PER_TOKEN \in 0..3
  BY DEF estimateTokensFromBytes, ESTIMATE_BYTES_PER_TOKEN
<1>2. QED  BY <1>1 DEF estimateStreamUsage, Pair

\* What a provider reports is usable whole or not at all, and never below what either
\* of its counts says (meter.ts extractUsage).
THEOREM UsageIsWhole ==
  ASSUME NEW usageMetadata \in [input : Int, output : Int],
         NEW usage \in [input : Int, output : Int, reasoning : Nat]
  PROVE  LET u == extractUsage(usageMetadata, usage)
         IN /\ u \in Pair \cup {NoUsage}
            /\ u = NoUsage <=> ~ Usable(usageMetadata) /\ ~ Usable(usage)
            /\ ~ Usable(usageMetadata) /\ Usable(usage) =>
                 u.output >= usage.output /\ u.output >= usage.reasoning
BY DEF extractUsage, Usable, NoUsage, Unusable, Pair

\* The tokens a request may cost are bounded by the plan, whatever it asks for and
\* whether or not the model has a limit, and the request gets at least one token
\* (plans.ts effectiveMaxTokens).
THEOREM TokensWithinPlan ==
  ASSUME NEW requested \in Int, NEW planMax \in Nat \ {0},
         NEW modelMax \in (Nat \ {0}) \cup {Unusable}
  PROVE  LET n == effectiveMaxTokens(requested, planMax, modelMax)
         IN /\ n \in 1..planMax
            /\ modelMax # Unusable => n <= modelMax
            /\ requested > 0 => n <= requested
BY DEF effectiveMaxTokens, Least, Greatest, Unusable

\* One of up to three lengths is the nearest.
LEMMA NearestExists ==
  ASSUME NEW base \in Int, NEW x \in Int, NEW y \in Int, NEW z \in Int
  PROVE  \E a \in {x, y, z} : \A b \in {x, y, z} :
           \/ Distance(a, base) < Distance(b, base)
           \/ Distance(a, base) = Distance(b, base) /\ a <= b
<1> DEFINE Nearer(a, b) == \/ Distance(a, base) < Distance(b, base)
                           \/ Distance(a, base) = Distance(b, base) /\ a <= b
<1>1. \A a, b \in Int : Nearer(a, b) \/ Nearer(b, a)
  BY DEF Distance
<1>2. \A a, b, c \in Int : Nearer(a, b) /\ Nearer(b, c) => Nearer(a, c)
  BY DEF Distance
<1> HIDE DEF Nearer
<1>3. \E a \in {x, y, z} : \A b \in {x, y, z} : Nearer(a, b)
  BY <1>1, <1>2
<1>4. QED  BY <1>3 DEF Nearer

\* Every length a family is sent is one it takes, and where it takes only some, none
\* of them is nearer to what was asked (video-duration.ts clampVideoDurationSec).
THEOREM LengthIsTaken ==
  ASSUME NEW family \in DOMAIN videoDurationSpec, NEW requestedSec \in Int
  PROVE  LET spec == videoDurationSpec[family]
             sec  == clampVideoDurationSec(family, requestedSec)
         IN IF spec.allowedSec = {} THEN sec \in spec.min..spec.max
            ELSE /\ sec \in spec.allowedSec
                 /\ requestedSec # Unusable =>
                      \A a \in spec.allowedSec : Distance(sec, requestedSec) <= Distance(a, requestedSec)
<1> DEFINE spec == videoDurationSpec[family]
           base == IF requestedSec = Unusable THEN spec.defaultSec ELSE requestedSec
<1>1. CASE spec.allowedSec = {}
  <2>1. spec.min \in Nat /\ spec.max \in Nat /\ spec.min <= spec.max /\ spec.defaultSec \in Nat
    BY <1>1 DEF videoDurationSpec, Span, Choices
  <2>2. base \in Int  BY <2>1
  <2> HIDE DEF spec, base
  <2>3. Least(spec.max, Greatest(spec.min, base)) \in spec.min..spec.max
    BY <2>1, <2>2 DEF Least, Greatest
  <2>4. QED  BY <1>1, <2>3 DEF clampVideoDurationSec, spec, base
<1>2. CASE spec.allowedSec # {}
  <2>1. /\ spec.allowedSec \in {{4, 6, 8}, {6, 10}, {5, 8}}
        /\ spec.defaultSec \in Nat
    BY <1>2 DEF videoDurationSpec, Span, Choices
  <2>2. base \in Int  BY <2>1
  <2> HIDE DEF spec, base
  <2>3. \E a \in spec.allowedSec : \A b \in spec.allowedSec :
          \/ Distance(a, base) < Distance(b, base)
          \/ Distance(a, base) = Distance(b, base) /\ a <= b
    <3>1. \/ spec.allowedSec = {4, 6, 8} \/ spec.allowedSec = {6, 10, 10}
          \/ spec.allowedSec = {5, 8, 8}
      BY <2>1
    <3>2. QED  BY <2>2, <3>1, NearestExists
  <2>4. LET sec == Nearest(spec.allowedSec, base)
        IN /\ sec \in spec.allowedSec
           /\ \A b \in spec.allowedSec :
                \/ Distance(sec, base) < Distance(b, base)
                \/ Distance(sec, base) = Distance(b, base) /\ sec <= b
    BY <2>3 DEF Nearest
  <2>5. \A a \in spec.allowedSec : Distance(a, base) \in Int
    BY <2>1, <2>2 DEF Distance
  <2>6. \A a \in spec.allowedSec :
          Distance(Nearest(spec.allowedSec, base), base) <= Distance(a, base)
    BY <2>4, <2>5
  <2>7. clampVideoDurationSec(family, requestedSec) = Nearest(spec.allowedSec, base)
    BY <1>2, Zenon DEF clampVideoDurationSec, spec, base
  <2>8. requestedSec # Unusable => base = requestedSec  BY DEF base
  <2>9. QED  BY <1>2, <2>4, <2>6, <2>7, <2>8 DEF spec
<1>3. QED  BY <1>1, <1>2

-----------------------------------------------------------------------------
(***************************************************************************)
(* The invariant of the doors, request by request.                         *)
(***************************************************************************)
At == {"idle", "plan", "price", "balance", "run", "rerun", "wait", "rehost", "split", "record",
       "reread", "answered"}
Code == {"none", "invalid_request", "rate_limited", "unavailable", "model_not_found",
         "model_unsupported", "model_not_entitled", "model_unpriced", "quota_exhausted", "accepted",
         "upstream_timeout", "upstream_error", "stream", "ok", "internal"}
RatePair == [input : RateOrNone, output : RateOrNone]
EventRow == [basis : {"none", "unpriced", "measured"}, micro_usd : Nat, allowance : Int, credit : Int]
OverrideRow == [set : BOOLEAN, input : Nat, output : Nat, unit : RateOrNone]
ReqRow ==
  [at : At, in : Input \cup {<<>>}, plan : PlanRow \cup {<<>>}, credit : Int, spent : Int,
   price : RatePair, unit : RateOrNone, left : Int, usage : RatePair, body : Body \cup {"none"},
   event : EventRow, answer : Code, recorded : BOOLEAN]

Before == {"idle", "plan", "price", "balance", "run", "rerun"}
Gated == {"price", "balance", "run", "rerun", "wait", "rehost", "split"}
IsChat(q) == q.in.door = "chat"
UnitsOf(in) == IF in.model.unit = "k_characters" THEN kCharacters(in.chars) ELSE 1
Fits(q) == q.unit \in Nat /\ (q.unit = 0 \/ q.left >= q.unit)

\* What a request that got past a gate may rely on.
Gates(q) ==
  /\ q.at # "idle" => q.in \in Input
  /\ q.at \in Gated \cup {"plan"} => q.plan \in PlanRow
  /\ q.at \in Gated => q.in.model.modality = q.in.door
  /\ q.at \in Gated \ {"price"} => IF IsChat(q) THEN q.price \in Pair ELSE q.unit \in Nat
  /\ q.at \in Gated \ {"price", "balance"} /\ ~ IsChat(q) => Fits(q)
  /\ q.at \in {"wait", "rehost"} => ~ IsChat(q)

\* A measured event costs what was used, at the price of the gate.
Priced(q) ==
  /\ q.in \in Input
  /\ IF IsChat(q)
     THEN q.event.micro_usd * MTok - exactMicroUsd(q.usage, q.price) \in 0..(MTok - 1)
     ELSE q.event.micro_usd = UnitsOf(q.in) * q.unit /\ Fits(q)

Events(q) ==
  /\ q.at \in Before \cup {"wait", "rehost"} => q.event = NoRow
  /\ q.at \in {"record", "split", "reread"} => q.event.basis # "none"
  /\ q.event.basis # "measured" =>
       q.event.micro_usd = 0 /\ q.event.allowance = 0 /\ q.event.credit = 0
  /\ q.event.basis = "measured" => Priced(q)
  /\ q.at = "record" \/ q.recorded => q.event.allowance + q.event.credit = q.event.micro_usd
  /\ q.at \in {"record", "split"} \/ q.recorded =>
       (q.event.micro_usd > 0 => q.answer \in {"ok", "internal"})

\* The row is the event, or there is none.
Ledger(q, w) ==
  /\ ~ q.recorded => w = NoRow
  /\ q.recorded => w = q.event /\ q.at \in {"reread", "answered"} /\ q.event.basis # "none"

\* A request whose work the provider bills.
Spends(q) ==
  /\ q.at \notin Before
  /\ q.at = "answered" => \/ q.event # NoRow
                          \/ q.answer \in {"stream", "internal"}
                          \/ IsChat(q) /\ q.answer = "upstream_error"

Good(r) ==
  /\ Gates(req[r]) /\ Events(req[r]) /\ Ledger(req[r], row[r])
  /\ r \in billed => Spends(req[r])

Typed ==
  /\ req \in [Request -> ReqRow] /\ row \in [Request -> EventRow]
  /\ override \in [Catalog -> OverrideRow] /\ plan \in PlanRow
  /\ credit \in Int /\ spent \in Int /\ allowanceSpent \in Int /\ billed \subseteq Request

IInv == Typed /\ \A r \in Request : Good(r)

-----------------------------------------------------------------------------
(***************************************************************************)
(* The ways a request's record changes.                                    *)
(***************************************************************************)
LEMMA RowTypes ==
  /\ NoRow \in EventRow /\ Unpriced \in EventRow
  /\ NoRow.basis = "none" /\ NoRow.micro_usd = 0 /\ NoRow.allowance = 0 /\ NoRow.credit = 0
  /\ Unpriced.basis = "unpriced" /\ Unpriced.micro_usd = 0
  /\ Unpriced.allowance = 0 /\ Unpriced.credit = 0
  /\ Unusable \in RateOrNone /\ NoPrice \in RatePair /\ NoUsage \in RatePair
BY DEF NoRow, Unpriced, EventRow, RateOrNone, NoPrice, NoUsage, RatePair

\* What a measured event starts as.
Measured(micro) == [NoRow EXCEPT !.basis = "measured", !.micro_usd = micro]

LEMMA MeasuredRow ==
  ASSUME NEW micro \in Nat
  PROVE  LET e == Measured(micro)
         IN /\ e \in EventRow /\ e.basis = "measured" /\ e.micro_usd = micro
            /\ e.allowance = 0 /\ e.credit = 0
<1> DEFINE e == Measured(micro)
<1>1. NoRow \in EventRow  BY RowTypes
<1>2. /\ e.basis = "measured" /\ e.micro_usd = micro
      /\ e.allowance = NoRow.allowance /\ e.credit = NoRow.credit
  BY <1>1 DEF Measured, EventRow
<1>3. e \in EventRow  BY <1>1 DEF Measured, EventRow
<1>4. QED  BY <1>2, <1>3, RowTypes

\* The fields only a gate sets, and those only a runner sets.
SameGate(n, q) ==
  /\ n.in = q.in /\ n.plan = q.plan /\ n.credit = q.credit /\ n.spent = q.spent
  /\ n.price = q.price /\ n.unit = q.unit /\ n.left = q.left
SameRun(n, q) == n.usage = q.usage /\ n.event = q.event /\ n.recorded = q.recorded

\* Each with the fields it sets.
Moved(q, p) == [q EXCEPT !.at = p]
WithBody(q, p, body) == [q EXCEPT !.at = p, !.body = body]
WithEvent(q, p, e, a) == [q EXCEPT !.at = p, !.event = e, !.answer = a]
WithUsage(q, p, e, u) == [q EXCEPT !.at = p, !.event = e, !.usage = u, !.answer = "ok"]
WithPlan(q, x) == [q EXCEPT !.at = "price", !.plan = x]
WithPrice(q, x, u) == [q EXCEPT !.at = "balance", !.price = x, !.unit = u]
WithLeft(q, x) == [q EXCEPT !.at = "run", !.left = x]
WithSplit(q, x, y) == [q EXCEPT !.at = "record", !.event.allowance = x, !.event.credit = y]
WithRow(q, p) == [q EXCEPT !.at = p, !.recorded = TRUE]
Refused(q, x) == [q EXCEPT !.at = "answered", !.in = x, !.answer = "invalid_request"]
Entered(q, x, p, c, s) == [q EXCEPT !.at = "plan", !.in = x, !.plan = p, !.credit = c, !.spent = s]
WithAnswer(q, a) == [q EXCEPT !.at = "answered", !.answer = a]

LEMMA AnswerShape ==
  ASSUME NEW q \in ReqRow, NEW a \in Code
  PROVE  LET n == WithAnswer(q, a)
         IN n \in ReqRow /\ n.at = "answered" /\ n.answer = a /\ SameGate(n, q) /\ SameRun(n, q)
BY DEF WithAnswer, ReqRow, SameGate, SameRun, At

LEMMA MoveShape ==
  ASSUME NEW q \in ReqRow, NEW p \in At
  PROVE  LET n == Moved(q, p)
         IN n \in ReqRow /\ n.at = p /\ n.answer = q.answer /\ SameGate(n, q) /\ SameRun(n, q)
BY DEF Moved, ReqRow, SameGate, SameRun, At

LEMMA BodyShape ==
  ASSUME NEW q \in ReqRow, NEW p \in At, NEW body \in Body
  PROVE  LET n == WithBody(q, p, body)
         IN n \in ReqRow /\ n.at = p /\ n.answer = q.answer /\ SameGate(n, q) /\ SameRun(n, q)
BY DEF WithBody, ReqRow, SameGate, SameRun, At

LEMMA ThenShape ==
  ASSUME NEW q \in ReqRow, NEW p \in At, NEW e \in EventRow, NEW a \in Code
  PROVE  LET n == WithEvent(q, p, e, a)
         IN /\ n \in ReqRow /\ n.at = p /\ n.event = e /\ n.answer = a /\ SameGate(n, q)
            /\ n.usage = q.usage /\ n.recorded = q.recorded
BY DEF WithEvent, ReqRow, SameGate

LEMMA MeterShape ==
  ASSUME NEW q \in ReqRow, NEW p \in At, NEW e \in EventRow, NEW u \in RatePair
  PROVE  LET n == WithUsage(q, p, e, u)
         IN /\ n \in ReqRow /\ n.at = p /\ n.event = e /\ n.answer = "ok" /\ SameGate(n, q)
            /\ n.usage = u /\ n.recorded = q.recorded
BY DEF WithUsage, ReqRow, SameGate, Code

LEMMA PlanShape ==
  ASSUME NEW q \in ReqRow, NEW x \in PlanRow
  PROVE  LET n == WithPlan(q, x)
         IN /\ n \in ReqRow /\ n.at = "price" /\ n.plan = x /\ n.in = q.in
            /\ n.answer = q.answer /\ SameRun(n, q)
BY DEF WithPlan, ReqRow, SameRun, At

LEMMA PriceShape ==
  ASSUME NEW q \in ReqRow, NEW x \in RatePair, NEW u \in RateOrNone
  PROVE  LET n == WithPrice(q, x, u)
         IN /\ n \in ReqRow /\ n.at = "balance" /\ n.price = x /\ n.unit = u /\ n.in = q.in
            /\ n.plan = q.plan /\ n.answer = q.answer /\ SameRun(n, q)
BY DEF WithPrice, ReqRow, SameRun, At

LEMMA RunShape ==
  ASSUME NEW q \in ReqRow, NEW x \in Int
  PROVE  LET n == WithLeft(q, x)
         IN /\ n \in ReqRow /\ n.at = "run" /\ n.left = x /\ n.in = q.in /\ n.plan = q.plan
            /\ n.price = q.price /\ n.unit = q.unit /\ n.answer = q.answer /\ SameRun(n, q)
BY DEF WithLeft, ReqRow, SameRun, At

LEMMA SplitShape ==
  ASSUME NEW q \in ReqRow, NEW x \in Int, NEW y \in Int
  PROVE  LET n == WithSplit(q, x, y)
         IN /\ n \in ReqRow /\ n.at = "record" /\ n.answer = q.answer /\ SameGate(n, q)
            /\ n.usage = q.usage /\ n.recorded = q.recorded
            /\ n.event.basis = q.event.basis /\ n.event.micro_usd = q.event.micro_usd
            /\ n.event.allowance = x /\ n.event.credit = y
BY DEF WithSplit, ReqRow, SameGate, At, EventRow

LEMMA RecordedShape ==
  ASSUME NEW q \in ReqRow, NEW p \in At
  PROVE  LET n == WithRow(q, p)
         IN /\ n \in ReqRow /\ n.at = p /\ n.answer = q.answer /\ SameGate(n, q)
            /\ n.usage = q.usage /\ n.event = q.event /\ n.recorded
BY DEF WithRow, ReqRow, SameGate

LEMMA BlankRow ==
  /\ Blank \in ReqRow /\ Blank.at = "idle" /\ Blank.event = NoRow /\ ~ Blank.recorded
  /\ Blank.answer = "none"
BY RowTypes DEF Blank, ReqRow, At, Code

LEMMA RefusedShape ==
  ASSUME NEW q \in ReqRow, NEW x \in Input
  PROVE  LET n == Refused(q, x)
         IN n \in ReqRow /\ n.at = "answered" /\ n.in = x /\ SameRun(n, q)
BY DEF Refused, ReqRow, At, Code, SameRun

LEMMA EnterShape ==
  ASSUME NEW q \in ReqRow, NEW x \in Input, NEW p \in PlanRow, NEW c \in Int, NEW s \in Int
  PROVE  LET n == Entered(q, x, p, c, s)
         IN n \in ReqRow /\ n.at = "plan" /\ n.in = x /\ n.plan = p /\ SameRun(n, q)
BY DEF Entered, ReqRow, At, SameRun

-----------------------------------------------------------------------------
(***************************************************************************)
(* Steps of a request.                                                     *)
(***************************************************************************)
\* Request r gets the record n; at most its own row and its own bill change.
LEMMA Install ==
  ASSUME IInv, NEW r \in Request, NEW n \in ReqRow, req' = [req EXCEPT ![r] = n],
         row' = row \/ row' = [row EXCEPT ![r] = req[r].event],
         billed' = billed \/ billed' = billed \cup {r},
         UNCHANGED <<plan, override, credit>>, spent' \in Int, allowanceSpent' \in Int,
         Gates(n), Events(n), Ledger(n, row'[r]), r \in billed' => Spends(n)
  PROVE  IInv'
<1>1. req \in [Request -> ReqRow] /\ row \in [Request -> EventRow]  BY DEF IInv, Typed
<1>2. req[r].event \in EventRow  BY <1>1 DEF ReqRow
<1>3. req' \in [Request -> ReqRow] /\ row' \in [Request -> EventRow]  BY <1>1, <1>2
<1>4. Typed'  BY <1>3 DEF IInv, Typed
<1>5. ASSUME NEW d \in Request, d # r PROVE Good(d)'
  <2>1. req'[d] = req[d] /\ row'[d] = row[d] /\ (d \in billed' <=> d \in billed)
    BY <1>1, <1>5
  <2>2. QED  BY <2>1 DEF IInv, Good
<1>6. Good(r)'
  <2>1. req'[r] = n  BY <1>1
  <2>2. QED  BY <2>1 DEF Good
<1>7. QED  BY <1>4, <1>5, <1>6 DEF IInv

\* A request that is not past its record has no row.
LEMMA NoRowYet ==
  ASSUME IInv, NEW r \in Request
  PROVE  /\ req[r] \in ReqRow /\ Gates(req[r]) /\ Events(req[r]) /\ Ledger(req[r], row[r])
         /\ req[r].at \notin {"reread", "answered"} => ~ req[r].recorded /\ row[r] = NoRow
         /\ req[r].at \in Before => r \notin billed
         /\ spent \in Int /\ allowanceSpent \in Int
BY DEF IInv, Typed, Good, Ledger, Spends

\* An answer from anywhere: it keeps what was recorded.
LEMMA Answers ==
  ASSUME NEW q \in ReqRow, NEW a \in Code, Gates(q), Events(q), NEW w, Ledger(q, w),
         q.at \notin {"idle", "answered"}, q.recorded => a \in {"ok", "internal"}
  PROVE  LET n == WithAnswer(q, a)
         IN n \in ReqRow /\ Gates(n) /\ Events(n) /\ Ledger(n, w) /\ n.at = "answered" /\ n.answer = a
            /\ n.event = q.event /\ n.in = q.in
<1> DEFINE n == WithAnswer(q, a)
<1>1. n \in ReqRow /\ n.at = "answered" /\ n.answer = a /\ SameGate(n, q) /\ SameRun(n, q)
  BY AnswerShape
<1> HIDE DEF n
<1>2. Gates(n)  BY <1>1 DEF Gates, SameGate, Gated
<1>3. Priced(q) => Priced(n)  BY <1>1 DEF Priced, Fits, IsChat, SameGate, SameRun
<1>4. Events(n)  BY <1>1, <1>3 DEF Events, SameRun, Before, Ledger
<1>5. Ledger(n, w)  BY <1>1 DEF Ledger, SameRun
<1>6. QED  BY <1>1, <1>2, <1>4, <1>5 DEF n, SameGate, SameRun

LEMMA AnswerIInv ==
  ASSUME IInv, NEW r \in Request, NEW a \in Code, Answer(r, a),
         req[r].at \notin {"idle", "answered"}, req[r].recorded => a \in {"ok", "internal"},
         UNCHANGED <<plan, override, credit, spent, allowanceSpent, row>>,
         billed' = billed \/ billed' = billed \cup {r},
         r \in billed' => \/ req[r].event # NoRow \/ a \in {"stream", "internal"}
                          \/ IsChat(req[r]) /\ a = "upstream_error"
  PROVE  IInv'
<1> DEFINE q == req[r]
           n == WithAnswer(q, a)
<1>1. /\ n \in ReqRow /\ Gates(n) /\ Events(n) /\ Ledger(n, row[r]) /\ n.at = "answered"
      /\ n.answer = a /\ n.event = q.event /\ n.in = q.in
  BY NoRowYet, Answers
<1>2. req' = [req EXCEPT ![r] = n]  BY DEF Answer, Become, WithAnswer
<1> HIDE DEF n
<1>3. r \in billed' => Spends(n)  BY <1>1 DEF Spends, IsChat, Before
<1>4. spent' \in Int /\ allowanceSpent' \in Int  BY NoRowYet
<1>5. QED  BY <1>1, <1>2, <1>3, <1>4, Install

\* An unpriced event.
LEMMA UnpricedIInv ==
  ASSUME IInv, NEW r \in Request, NEW a \in Code, Then(r, "record", Unpriced, a),
         req[r].at \in {"run", "rerun", "wait", "rehost"},
         UNCHANGED <<plan, override, credit, spent, allowanceSpent, row>>,
         billed' = billed \/ billed' = billed \cup {r}
  PROVE  IInv'
<1> DEFINE q == req[r]
           n == WithEvent(q, "record", Unpriced, a)
<1>1. /\ n \in ReqRow /\ n.at = "record" /\ n.event = Unpriced /\ n.answer = a /\ SameGate(n, q)
      /\ n.usage = q.usage /\ n.recorded = q.recorded
  <2>1. q \in ReqRow /\ "record" \in At /\ Unpriced \in EventRow  BY NoRowYet, RowTypes DEF At
  <2>2. QED  BY <2>1, ThenShape
<1>2. req' = [req EXCEPT ![r] = n]  BY DEF Then, Become, WithEvent
<1> HIDE DEF n
<1>3. Gates(n)  BY <1>1, NoRowYet DEF Gates, SameGate, Gated
<1>4. Events(n)  BY <1>1, RowTypes DEF Events, Before
<1>5. Ledger(n, row[r])  BY <1>1, NoRowYet DEF Ledger
<1>6. Spends(n)  BY <1>1 DEF Spends, Before
<1>7. spent' \in Int /\ allowanceSpent' \in Int  BY NoRowYet
<1>8. QED  BY <1>1, <1>2, <1>3, <1>4, <1>5, <1>6, <1>7, Install

LEMMA UnitsArePositive ==
  ASSUME NEW in \in Input
  PROVE  UnitsOf(in) \in Nat /\ UnitsOf(in) >= 1
<1>1. in.chars \in Nat  BY DoorsAssumption DEF InputShape
<1>2. (in.chars + 999) \div 1000 \in Int  BY <1>1
<1>3. kCharacters(in.chars) \in Nat /\ kCharacters(in.chars) >= 1
  BY <1>2 DEF kCharacters, Greatest
<1>4. QED  BY <1>3 DEF UnitsOf

\* A served unit.
LEMMA ServedIInv ==
  ASSUME IInv, NEW r \in Request, Served(r), req[r].at \in {"run", "wait", "rehost"},
         ~ IsChat(req[r]),
         UNCHANGED <<plan, override, credit, spent, allowanceSpent, row>>,
         billed' = billed \/ billed' = billed \cup {r}
  PROVE  IInv'
<1> DEFINE q == req[r]
           micro == priceUnits(UnitsOf(q.in), q.unit)
           n == WithEvent(q, "split", Measured(micro), "ok")
<1>1. q \in ReqRow /\ Gates(q) /\ ~ q.recorded /\ row[r] = NoRow  BY NoRowYet
<1>2. q.in \in Input /\ Fits(q) /\ q.in.model.modality = q.in.door /\ q.plan \in PlanRow
  BY <1>1 DEF Gates, Gated
<1>3. micro = UnitsOf(q.in) * q.unit /\ micro \in Nat
  <2>1. UnitsOf(q.in) \in Nat /\ UnitsOf(q.in) >= 1  BY <1>2, UnitsArePositive
  <2>2. QED  BY <1>2, <2>1 DEF priceUnits, Greatest, Fits
<1>4. req' = [req EXCEPT ![r] = n]
  BY DEF Served, Then, Become, WithEvent, Measured, UnitsOf, billableUnits
<1> HIDE DEF micro
<1>5. LET e == Measured(micro)
      IN /\ e \in EventRow /\ e.basis = "measured" /\ e.micro_usd = micro
         /\ e.allowance = 0 /\ e.credit = 0
  BY <1>3, MeasuredRow
<1>6. /\ n \in ReqRow /\ n.at = "split" /\ n.event = Measured(micro) /\ n.answer = "ok"
      /\ SameGate(n, q) /\ n.usage = q.usage /\ n.recorded = q.recorded
  <2>1. "split" \in At /\ "ok" \in Code /\ Measured(micro) \in EventRow  BY <1>5 DEF At, Code
  <2>2. QED  BY <1>1, <2>1, ThenShape
<1> HIDE DEF n
<1>7. Gates(n)  BY <1>2, <1>6 DEF Gates, SameGate, Gated, Fits, IsChat
<1>8. Priced(n)  BY <1>2, <1>3, <1>5, <1>6 DEF Priced, SameGate, Fits, IsChat
<1>9. Events(n)  BY <1>1, <1>5, <1>6, <1>8 DEF Events, Before
<1>10. Ledger(n, row[r])  BY <1>1, <1>6 DEF Ledger
<1>11. Spends(n)  BY <1>6 DEF Spends, Before
<1>12. spent' \in Int /\ allowanceSpent' \in Int  BY NoRowYet
<1>13. QED  BY <1>4, <1>6, <1>7, <1>9, <1>10, <1>11, <1>12, Install

-----------------------------------------------------------------------------
(***************************************************************************)
(* The gates.                                                              *)
(***************************************************************************)
LEMMA EnterIInv ==
  ASSUME IInv, NEW r \in Request, NEW in \in Input, requireCaller(r, in) \/ invalidRequest(r, in)
  PROVE  IInv'
<1>1. /\ req[r].at = "idle" /\ UNCHANGED <<plan, override, credit, spent, allowanceSpent, row, billed>>
      /\ \/ req' = [req EXCEPT ![r] = Entered(Blank, in, plan, credit, spent)]
         \/ req' = [req EXCEPT ![r] = Refused(Blank, in)]
  BY DEF requireCaller, invalidRequest, Become, Entered, Refused, money
<1>2. ~ req[r].recorded /\ row[r] = NoRow /\ r \notin billed /\ spent \in Int /\ allowanceSpent \in Int
  BY <1>1, NoRowYet DEF Before
<1>3. plan \in PlanRow /\ credit \in Int  BY DEF IInv, Typed
<1>4. ASSUME NEW n \in ReqRow, req' = [req EXCEPT ![r] = n], n.at \in {"plan", "answered"},
             n.in = in, n.at = "plan" => n.plan \in PlanRow, SameRun(n, Blank)
      PROVE  IInv'
  <2>1. Gates(n)  BY <1>4 DEF Gates, Gated
  <2>2. n.event = NoRow /\ ~ n.recorded  BY <1>4, BlankRow DEF SameRun
  <2>3. Events(n) /\ Ledger(n, row'[r])  BY <1>1, <1>2, <1>4, <2>2, RowTypes DEF Events, Ledger
  <2>4. QED  BY <1>1, <1>2, <1>4, <2>1, <2>3, Install
<1>5. CASE req' = [req EXCEPT ![r] = Entered(Blank, in, plan, credit, spent)]
  <2> DEFINE n == Entered(Blank, in, plan, credit, spent)
  <2>1. n \in ReqRow /\ n.at = "plan" /\ n.in = in /\ n.plan = plan /\ SameRun(n, Blank)
    BY <1>2, <1>3, BlankRow, EnterShape
  <2> HIDE DEF n
  <2>2. QED  BY <1>3, <1>4, <1>5, <2>1 DEF n
<1>6. CASE req' = [req EXCEPT ![r] = Refused(Blank, in)]
  <2> DEFINE n == Refused(Blank, in)
  <2>1. n \in ReqRow /\ n.at = "answered" /\ n.in = in /\ SameRun(n, Blank)
    BY BlankRow, RefusedShape
  <2> HIDE DEF n
  <2>2. QED  BY <1>4, <1>6, <2>1 DEF n
<1>7. QED  BY <1>1, <1>5, <1>6

\* A request that goes on to the next gate, or to the runner.
LEMMA GoOn ==
  ASSUME IInv, NEW r \in Request, NEW n \in ReqRow, req' = [req EXCEPT ![r] = n],
         req[r].at \in Before, n.at \in Before, SameRun(n, req[r]), Gates(n),
         UNCHANGED <<plan, override, credit, spent, allowanceSpent, row, billed>>
  PROVE  IInv'
<1>1. ~ req[r].recorded /\ row[r] = NoRow /\ r \notin billed /\ spent \in Int /\ allowanceSpent \in Int
  BY NoRowYet DEF Before
<1>2. n.event = NoRow /\ ~ n.recorded
  BY <1>1, NoRowYet DEF SameRun, Events
<1>3. Events(n) /\ Ledger(n, row'[r])  BY <1>1, <1>2, RowTypes DEF Events, Ledger, Before
<1>4. QED  BY <1>1, <1>3, Install

LEMMA gatePlanIInv ==
  ASSUME IInv, NEW r \in Request, gatePlan(r) \/ RateLimited(r)
  PROVE  IInv'
<1> DEFINE q == req[r]
           g == gateModel(PlanOf(r), q.in)
<1>1. q.at = "plan" /\ UNCHANGED <<plan, override, credit, spent, allowanceSpent, row, billed>>
  BY DEF gatePlan, RateLimited, money
<1>2. q \in ReqRow /\ Gates(q) /\ q.in \in Input /\ ~ q.recorded /\ r \notin billed
  BY <1>1, NoRowYet DEF Gates, Before
<1>3. (g # "pass" => g \in Code) /\ (g = "pass" => q.in.model.modality = q.in.door)
  BY DEF gateModel, Code
<1>4. ASSUME NEW a \in Code, Answer(r, a) PROVE IInv'
  BY <1>1, <1>2, <1>4, AnswerIInv
<1>5. CASE RateLimited(r)  BY <1>4, <1>5 DEF RateLimited, Code
<1>6. CASE gatePlan(r) /\ g # "pass"  BY <1>3, <1>4, <1>6 DEF gatePlan
<1>7. CASE gatePlan(r) /\ g = "pass"
  <2>1. PlanOf(r) \in PlanRow
    <3>1. CASE ~ Chat(r)  BY <3>1 DEF PlanOf, IInv, Typed
    <3>2. CASE Chat(r)  BY <1>1, <1>2, <3>2 DEF PlanOf, Gates
    <3>3. QED  BY <3>1, <3>2
  <2> DEFINE n == WithPlan(q, PlanOf(r))
  <2>2. n \in ReqRow /\ n.at = "price" /\ n.plan = PlanOf(r) /\ n.in = q.in /\ SameRun(n, q)
    BY <1>2, <2>1, PlanShape
  <2>3. req' = [req EXCEPT ![r] = n]  BY <1>7 DEF gatePlan, Become, WithPlan
  <2> HIDE DEF n
  <2>4. Gates(n)  BY <1>2, <1>3, <1>7, <2>1, <2>2 DEF Gates, Gated
  <2>5. QED  BY <1>1, <2>2, <2>3, <2>4, GoOn DEF Before
<1>8. QED  BY <1>5, <1>6, <1>7

LEMMA gatePriceIInv == ASSUME IInv, NEW r \in Request, gatePrice(r) PROVE IInv'
<1> DEFINE q == req[r]
           m == q.in.model
           price == resolvePrice(m, override[m])
           unit == resolveUnitPrice(m, override[m])
<1>1. q.at = "price" /\ UNCHANGED <<plan, override, credit, spent, allowanceSpent, row, billed>>
  BY DEF gatePrice, money
<1>2. /\ q \in ReqRow /\ Gates(q) /\ q.in \in Input /\ ~ q.recorded /\ r \notin billed
      /\ q.in.model.modality = q.in.door /\ q.plan \in PlanRow
  BY <1>1, NoRowYet DEF Gates, Before, Gated
<1>3. m \in Catalog  BY <1>2, DoorsAssumption DEF InputShape
<1>4. override[m] \in OverrideRow  BY <1>3 DEF IInv, Typed
<1>5. m.price \in RatePair /\ m.unitPrice \in RateOrNone  BY <1>3, DoorsAssumption DEF RatePair
<1>6. price \in RatePair  BY <1>4, <1>5, RowTypes DEF resolvePrice, OverrideRow, RatePair, RateOrNone
<1>7. unit \in RateOrNone  BY <1>4, <1>5 DEF resolveUnitPrice, OverrideRow
<1>8. Usable(price) => price \in Pair
  BY <1>6 DEF Usable, RatePair, RateOrNone, Pair, Unusable
<1>9. unit >= 0 => unit \in Nat  BY <1>7 DEF RateOrNone, Unusable
<1>10. ASSUME NEW a \in Code, Answer(r, a) PROVE IInv'
  BY <1>1, <1>2, <1>10, AnswerIInv
<1>11. CASE req' = [req EXCEPT ![r] = WithPrice(q, price, unit)]
            /\ IF Chat(r) THEN Usable(price) ELSE unit >= 0
  <2> HIDE DEF price, unit
  <2> DEFINE n == WithPrice(q, price, unit)
  <2>1. /\ n \in ReqRow /\ n.at = "balance" /\ n.price = price /\ n.unit = unit /\ n.in = q.in
        /\ n.plan = q.plan /\ SameRun(n, q)
    BY <1>2, <1>6, <1>7, PriceShape
  <2> HIDE DEF n
  <2>2. Gates(n)  BY <1>2, <1>8, <1>9, <1>11, <2>1 DEF Gates, Gated, IsChat, Chat
  <2>3. QED  BY <1>1, <1>11, <2>1, <2>2, GoOn DEF Before, n
<1>12. \/ Answer(r, "model_unpriced") \/ Answer(r, "unavailable")
       \/ /\ req' = [req EXCEPT ![r] = WithPrice(q, price, unit)]
          /\ IF Chat(r) THEN Usable(price) ELSE unit >= 0
  BY DEF gatePrice, Become, WithPrice
<1>13. QED  BY <1>10, <1>11, <1>12 DEF Code

LEMMA RemainingIsInt ==
  ASSUME IInv, NEW r \in Request, req[r].plan \in PlanRow
  PROVE  Remaining(r) \in Int
<1>1. req[r].plan.monthly_included \in Int /\ allowanceSpent \in Int  BY DoorsAssumption DEF IInv, Typed
<1>2. req[r].credit \in Int /\ req[r].spent \in Int  BY DEF IInv, Typed, ReqRow
<1>3. remainingAllowanceMicroUsd(req[r].plan.monthly_included, allowanceSpent) \in Int
  BY <1>1 DEF remainingAllowanceMicroUsd, AtLeastZero
<1>4. AtLeastZero(req[r].credit - req[r].spent) \in Int  BY <1>2 DEF AtLeastZero
<1>5. QED  BY <1>3, <1>4 DEF Remaining

LEMMA gateBalanceIInv == ASSUME IInv, NEW r \in Request, gateBalance(r) PROVE IInv'
<1> DEFINE q == req[r]
<1>1. q.at = "balance" /\ UNCHANGED <<plan, override, credit, spent, allowanceSpent, row, billed>>
  BY DEF gateBalance, money
<1>2. /\ q \in ReqRow /\ Gates(q) /\ q.in \in Input /\ ~ q.recorded /\ r \notin billed
      /\ q.in.model.modality = q.in.door /\ q.plan \in PlanRow
      /\ IF IsChat(q) THEN q.price \in Pair ELSE q.unit \in Nat
  BY <1>1, NoRowYet DEF Gates, Before, Gated
<1>3. ASSUME NEW a \in Code, Answer(r, a) PROVE IInv'
  BY <1>1, <1>2, <1>3, AnswerIInv
<1>4. \/ Answer(r, "unavailable") \/ Answer(r, "quota_exhausted") \/ Answer(r, "invalid_request")
      \/ Answer(r, "accepted")
      \/ /\ req' = [req EXCEPT ![r] = WithLeft(q, Remaining(r))]
         /\ ~ Chat(r) => CoversUnit(r)
  BY DEF gateBalance, Become, WithLeft
<1>5. CASE req' = [req EXCEPT ![r] = WithLeft(q, Remaining(r))] /\ (~ Chat(r) => CoversUnit(r))
  <2> DEFINE n == WithLeft(q, Remaining(r))
  <2>1. /\ n \in ReqRow /\ n.at = "run" /\ n.left = Remaining(r) /\ n.in = q.in /\ n.plan = q.plan
        /\ n.price = q.price /\ n.unit = q.unit /\ SameRun(n, q)
    BY <1>2, RemainingIsInt, RunShape
  <2> HIDE DEF n
  <2>2. ~ IsChat(q) => Fits(n)  BY <1>2, <1>5, <2>1 DEF Fits, CoversUnit, Chat, IsChat
  <2>3. Gates(n)  BY <1>2, <2>1, <2>2 DEF Gates, Gated, IsChat
  <2>4. QED  BY <1>1, <1>5, <2>1, <2>3, GoOn DEF Before, n
<1>6. QED  BY <1>3, <1>4, <1>5 DEF Code

-----------------------------------------------------------------------------
(***************************************************************************)
(* The runners.                                                            *)
(***************************************************************************)
LEMMA BillOne ==
  ASSUME NEW r, NEW w, Bill(r, w)
  PROVE  billed' = billed \/ billed' = billed \cup {r}
BY DEF Bill

\* A measured chat answer costs its tokens; without usage or price it costs nothing.
LEMMA MeterChatIInv ==
  ASSUME IInv, NEW r \in Request, NEW usage \in Pair \cup {NoUsage}, meterChat(r, usage),
         req[r].at \in {"run", "rerun"}, IsChat(req[r]),
         UNCHANGED <<plan, override, credit, spent, allowanceSpent, row>>,
         billed' = billed \/ billed' = billed \cup {r}
  PROVE  IInv'
<1> DEFINE q == req[r]
           m == meterResponse(usage, q.price)
           p == IF m.metered /\ m.micro_usd > 0 THEN "split" ELSE "record"
           e == IF m.metered THEN Measured(m.micro_usd) ELSE Unpriced
           n == WithUsage(q, p, e, usage)
<1>1. /\ q \in ReqRow /\ Gates(q) /\ ~ q.recorded /\ row[r] = NoRow
      /\ spent \in Int /\ allowanceSpent \in Int
  BY NoRowYet
<1>2. q.in \in Input /\ q.in.model.modality = q.in.door /\ q.plan \in PlanRow /\ q.price \in Pair
  BY <1>1 DEF Gates, Gated
<1>3. usage \in RatePair /\ (Usable(usage) => usage \in Pair)
  BY RowTypes DEF Pair, RatePair, RateOrNone, NoUsage, Usable, Unusable
<1>4. /\ m.metered \in BOOLEAN
      /\ m.metered => /\ m.micro_usd \in Nat /\ usage \in Pair
                      /\ m.micro_usd * MTok - exactMicroUsd(usage, q.price) \in 0..(MTok - 1)
  <2>1. CASE Usable(usage) /\ Usable(q.price)
    <3>1. m = [metered |-> TRUE, micro_usd |-> priceUsage(usage, q.price)]
      BY <2>1 DEF meterResponse
    <3>2. /\ priceUsage(usage, q.price) \in Nat
          /\ priceUsage(usage, q.price) * MTok - exactMicroUsd(usage, q.price) \in 0..(MTok - 1)
      BY <1>2, <1>3, <2>1, MeasuredCovers
    <3>3. QED  BY <1>3, <2>1, <3>1, <3>2
  <2>2. CASE ~ (Usable(usage) /\ Usable(q.price))
    BY <2>2 DEF meterResponse
  <2>3. QED  BY <2>1, <2>2
<1>5. req' = [req EXCEPT ![r] = n]  BY DEF meterChat, Become, WithUsage, Measured
<1> HIDE DEF m
<1>6. /\ e \in EventRow /\ e.allowance = 0 /\ e.credit = 0 /\ e.basis # "none"
      /\ e.basis = "measured" => m.metered /\ e.micro_usd = m.micro_usd
      /\ e.basis # "measured" => e.micro_usd = 0 /\ ~ m.metered
  BY <1>4, MeasuredRow, RowTypes
<1>7. p \in At /\ p \in {"split", "record"} /\ (p = "record" => e.micro_usd = 0)
  BY <1>4, <1>6 DEF At
<1> HIDE DEF e, p
<1>8. /\ n \in ReqRow /\ n.at = p /\ n.event = e /\ n.answer = "ok" /\ SameGate(n, q)
      /\ n.usage = usage /\ n.recorded = q.recorded
  BY <1>1, <1>3, <1>6, <1>7, MeterShape
<1> HIDE DEF n
<1>9. Gates(n)  BY <1>2, <1>7, <1>8 DEF Gates, Gated, SameGate, IsChat
<1>10. n.event.basis = "measured" => Priced(n)
  BY <1>2, <1>4, <1>6, <1>8 DEF Priced, SameGate, IsChat
<1>11. Events(n)  BY <1>1, <1>6, <1>7, <1>8, <1>10 DEF Events, Before
<1>12. Ledger(n, row'[r])  BY <1>1, <1>8 DEF Ledger
<1>13. Spends(n)  BY <1>7, <1>8 DEF Spends, Before
<1>14. QED  BY <1>1, <1>5, <1>8, <1>9, <1>11, <1>12, <1>13, Install

LEMMA runChatIInv ==
  ASSUME IInv, NEW r \in Request, req[r].at \in {"run", "rerun"}, Chat(r), NEW w \in Wire,
         NEW body, NEW u \in Report, runChat(r, w, body, u.usageMetadata, u.usage)
  PROVE  IInv'
<1> DEFINE usage == extractUsage(u.usageMetadata, u.usage)
           outcome == Outcome(r, w)
<1>1. /\ UNCHANGED <<plan, override, credit, spent, allowanceSpent, row>>
      /\ chatOutcome(r, outcome, body, usage)
      /\ billed' = billed \/ billed' = billed \cup {r}
  BY BillOne DEF runChat, money
<1>2. IsChat(req[r]) /\ ~ req[r].recorded  BY NoRowYet DEF Chat, IsChat
<1>3. usage \in Pair \cup {NoUsage}
  <2>1. /\ u.usageMetadata \in [input : Int, output : Int]
        /\ u.usage \in [input : Int, output : Int, reasoning : Nat]
    BY DoorsAssumption DEF RateOrNone, Unusable
  <2>2. QED  BY <2>1, UsageIsWhole
<1> HIDE DEF usage, outcome
<1>4. \/ Then(r, "record", Unpriced, "upstream_timeout")
      \/ Answer(r, "upstream_error") \/ Answer(r, "stream") \/ meterChat(r, usage)
  BY <1>1 DEF chatOutcome
<1>5. CASE Then(r, "record", Unpriced, "upstream_timeout")
  <2>1. "upstream_timeout" \in Code  BY DEF Code
  <2>2. QED  BY <1>1, <1>5, <2>1, UnpricedIInv
<1>6. ASSUME NEW a \in {"upstream_error", "stream"}, Answer(r, a) PROVE IInv'
  <2>1. a \in Code  BY DEF Code
  <2>2. QED  BY <1>1, <1>2, <1>6, <2>1, AnswerIInv
<1>7. CASE meterChat(r, usage)  BY <1>1, <1>2, <1>3, <1>7, MeterChatIInv
<1>8. QED  BY <1>4, <1>5, <1>6, <1>7

LEMMA submitAgreementIInv == ASSUME IInv, NEW r \in Request, submitAgreement(r) PROVE IInv'
<1> DEFINE q == req[r]
           n == Moved(q, "rerun")
<1>1. /\ q.at = "run" /\ IsChat(q) /\ UNCHANGED <<plan, override, credit, spent, allowanceSpent, row, billed>>
      /\ req' = [req EXCEPT ![r] = n]
  BY DEF submitAgreement, money, Become, Moved, Chat, IsChat
<1>2. q \in ReqRow /\ Gates(q) /\ "rerun" \in At  BY NoRowYet DEF At
<1>3. n \in ReqRow /\ n.at = "rerun" /\ SameGate(n, q) /\ SameRun(n, q)  BY <1>2, MoveShape
<1> HIDE DEF n
<1>4. Gates(n)  BY <1>1, <1>2, <1>3 DEF Gates, Gated, SameGate, IsChat
<1>5. QED  BY <1>1, <1>3, <1>4, GoOn DEF Before

\* Without the binding nobody is called.
LEMMA UnavailableIsNotCalled ==
  ASSUME IInv, NEW r \in Request, req[r].at = "run", ~ Chat(r), NEW w \in Wire,
         Outcome(r, w) = "unavailable"
  PROVE  ~ Called(r)
<1> DEFINE route == req[r].in.model.route
<1>1. req[r].in \in Input /\ req[r].in.model.modality = req[r].in.door
  BY NoRowYet DEF Gates, Gated
<1>2. req[r].in.model \in Catalog /\ req[r].in.door \in Modality  BY <1>1, DoorsAssumption DEF InputShape
<1>3. route \in {"binding", "rest", "batch"}
  BY <1>1, <1>2, DoorsAssumption DEF Modality, Chat
<1>4. runViaRest(w) # "unavailable"  BY DEF runViaRest
<1>5. runViaBinding(w) = "unavailable" => "ai" \notin has  BY DEF runViaBinding
<1>6. runDeepgramBatchStt(w) = "unavailable" => "ai" \notin has  BY DEF runDeepgramBatchStt
<1>7. CASE route = "rest"
  <2>1. Outcome(r, w) = runViaRest(w)  BY <1>7, Zenon DEF Outcome
  <2>2. QED  BY <1>4, <2>1
<1>8. CASE route = "batch"
  <2>1. Outcome(r, w) = runDeepgramBatchStt(w)  BY <1>8, Zenon DEF Outcome
  <2>2. QED  BY <1>6, <1>8, <2>1 DEF Called
<1>9. CASE route = "binding"
  <2>1. Outcome(r, w) = runViaBinding(w)  BY <1>9, Zenon DEF Outcome
  <2>2. QED  BY <1>5, <1>9, <2>1 DEF Called
<1>10. QED  BY <1>3, <1>7, <1>8, <1>9

LEMMA runUpstreamIInv ==
  ASSUME IInv, NEW r \in Request, req[r].at = "run", ~ Chat(r), NEW w \in Wire, NEW body \in Body,
         runUpstream(r, w, body)
  PROVE  IInv'
<1> DEFINE q == req[r]
           outcome == Outcome(r, w)
           b == IF w = "garbled" THEN "empty" ELSE body
<1>1. /\ UNCHANGED <<plan, override, credit, spent, allowanceSpent, row>>
      /\ nonChatOutcome(r, outcome, b)
      /\ Bill(r, w)
      /\ billed' = billed \/ billed' = billed \cup {r}
  BY BillOne DEF runUpstream, money
<1>2. /\ q \in ReqRow /\ Gates(q) /\ Events(q) /\ ~ q.recorded /\ row[r] = NoRow /\ r \notin billed
      /\ spent \in Int /\ allowanceSpent \in Int /\ ~ IsChat(q) /\ b \in Body
  BY NoRowYet DEF Before, Chat, IsChat, Body
<1>3. outcome = "unavailable" => r \notin billed'
  BY <1>1, <1>2, UnavailableIsNotCalled DEF Bill
<1> HIDE DEF outcome, b
<1>4. \/ Then(r, "record", Unpriced, "upstream_timeout")
      \/ outcome = "unavailable" /\ Answer(r, "unavailable")
      \/ NotServed(r) \/ Served(r)
      \/ \E p \in {"wait", "rehost"} : req' = [req EXCEPT ![r] = WithBody(q, p, b)]
  BY <1>1 DEF nonChatOutcome, Become, WithBody
<1>5. ASSUME NEW a \in {"upstream_timeout", "upstream_error"}, Then(r, "record", Unpriced, a)
      PROVE  IInv'
  <2>1. a \in Code  BY DEF Code
  <2>2. QED  BY <1>1, <1>5, <2>1, UnpricedIInv
<1>6. CASE outcome = "unavailable" /\ Answer(r, "unavailable")
  <2>1. "unavailable" \in Code  BY DEF Code
  <2>2. QED  BY <1>1, <1>2, <1>3, <1>6, <2>1, AnswerIInv
<1>7. CASE NotServed(r)  BY <1>5, <1>7 DEF NotServed
<1>8. CASE Served(r)  BY <1>1, <1>2, <1>8, ServedIInv
<1>9. ASSUME NEW p \in {"wait", "rehost"}, req' = [req EXCEPT ![r] = WithBody(q, p, b)]
      PROVE  IInv'
  <2> DEFINE n == WithBody(q, p, b)
  <2>1. p \in At  BY DEF At
  <2>2. n \in ReqRow /\ n.at = p /\ SameGate(n, q) /\ SameRun(n, q)  BY <1>2, <2>1, BodyShape
  <2> HIDE DEF n
  <2>3. Gates(n)  BY <1>2, <2>2 DEF Gates, Gated, SameGate, IsChat, Fits
  <2>4. n.event = NoRow /\ ~ n.recorded  BY <1>2, <2>2 DEF SameRun, Events, Before
  <2>5. Events(n)  BY <2>2, <2>4, RowTypes DEF Events
  <2>6. Ledger(n, row'[r]) /\ Spends(n)  BY <1>1, <1>2, <2>2, <2>4 DEF Ledger, Spends, Before
  <2>7. QED  BY <1>1, <1>2, <1>9, <2>2, <2>3, <2>5, <2>6, Install DEF n
<1>10. QED  BY <1>4, <1>5, <1>6, <1>7, <1>8, <1>9

LEMMA AssetIInv ==
  ASSUME IInv, NEW r \in Request,
         rehostMusicAudio(r) \/ \E uploaded \in BOOLEAN : waitForMediaObject(r, uploaded)
  PROVE  IInv'
<1>1. /\ req[r].at \in {"wait", "rehost"} /\ (Served(r) \/ NotServed(r))
      /\ UNCHANGED <<plan, override, credit, spent, allowanceSpent, row, billed>>
  BY DEF rehostMusicAudio, waitForMediaObject, money
<1>2. ~ IsChat(req[r])  BY <1>1, NoRowYet DEF Gates
<1>3. CASE Served(r)  BY <1>1, <1>2, <1>3, ServedIInv
<1>4. CASE NotServed(r)
  <2>1. "upstream_error" \in Code  BY DEF Code
  <2>2. QED  BY <1>1, <1>4, <2>1, UnpricedIInv DEF NotServed
<1>5. QED  BY <1>1, <1>3, <1>4

-----------------------------------------------------------------------------
(***************************************************************************)
(* Recording and answering.                                                *)
(***************************************************************************)
\* Whatever the plan and the period say, the two shares make up the charge.
LEMMA SplitAddsUp ==
  ASSUME NEW micro \in Nat, NEW included \in Int, NEW used \in Int
  PROVE  LET s == allocateCharge(micro, included, used)
         IN /\ s.allowance \in Int /\ s.credit \in Int /\ s.allowance + s.credit = micro
            /\ micro = 0 => s.allowance = 0 /\ s.credit = 0
BY DEF allocateCharge, remainingAllowanceMicroUsd, Lesser, AtLeastZero

LEMMA splitIInv == ASSUME IInv, NEW r \in Request, split(r) PROVE IInv'
<1> DEFINE q == req[r]
           s == allocateCharge(q.event.micro_usd, q.plan.monthly_included, allowanceSpent)
           n == WithSplit(q, s.allowance, s.credit)
<1>1. /\ q.at = "split" /\ UNCHANGED <<plan, override, credit, spent, allowanceSpent, row, billed>>
      /\ req' = [req EXCEPT ![r] = n]
  BY DEF split, money, Become, WithSplit
<1>2. /\ q \in ReqRow /\ Gates(q) /\ Events(q) /\ ~ q.recorded /\ row[r] = NoRow
      /\ spent \in Int /\ allowanceSpent \in Int
  BY <1>1, NoRowYet
<1>3. q.in \in Input /\ q.plan.monthly_included \in Int
  BY <1>1, <1>2, DoorsAssumption DEF Gates, Gated
<1>4. q.event.micro_usd \in Nat  BY <1>2 DEF ReqRow, EventRow
<1>5. /\ s.allowance \in Int /\ s.credit \in Int /\ s.allowance + s.credit = q.event.micro_usd
      /\ q.event.micro_usd = 0 => s.allowance = 0 /\ s.credit = 0
  BY <1>2, <1>3, <1>4, SplitAddsUp
<1> HIDE DEF s
<1>6. /\ n \in ReqRow /\ n.at = "record" /\ n.answer = q.answer /\ SameGate(n, q)
      /\ n.usage = q.usage /\ n.recorded = q.recorded
      /\ n.event.basis = q.event.basis /\ n.event.micro_usd = q.event.micro_usd
      /\ n.event.allowance = s.allowance /\ n.event.credit = s.credit
  BY <1>2, <1>5, SplitShape
<1> HIDE DEF n
<1>7. Gates(n)  BY <1>3, <1>6 DEF Gates, Gated, SameGate
<1>8. Priced(q) => Priced(n)  BY <1>6 DEF Priced, Fits, IsChat, SameGate
<1>9. Events(n)  BY <1>1, <1>2, <1>5, <1>6, <1>8 DEF Events, Before
<1>10. Ledger(n, row'[r]) /\ Spends(n)  BY <1>1, <1>2, <1>6 DEF Ledger, Spends, Before
<1>11. QED  BY <1>1, <1>2, <1>6, <1>7, <1>9, <1>10, Install

LEMMA AfterRecordIsLater == ASSUME NEW r PROVE AfterRecord(r) \in {"reread", "answered"}
BY DEF AfterRecord

LEMMA recordUsageIInv == ASSUME IInv, NEW r \in Request, recordUsage(r) PROVE IInv'
<1> DEFINE q == req[r]
           p == AfterRecord(r)
           n == WithRow(q, p)
<1>1. /\ q.at = "record" /\ UNCHANGED <<plan, override, credit, billed>>
      /\ row' = [row EXCEPT ![r] = q.event]
      /\ spent' = spent + q.event.credit /\ allowanceSpent' = allowanceSpent + q.event.allowance
      /\ req' = [req EXCEPT ![r] = n]
  BY DEF recordUsage, Become, WithRow
<1>2. /\ q \in ReqRow /\ Gates(q) /\ Events(q) /\ spent \in Int /\ allowanceSpent \in Int
  BY NoRowYet
<1>3. p \in At /\ p \in {"reread", "answered"}  BY AfterRecordIsLater DEF At
<1> HIDE DEF p
<1>4. q.event.credit \in Int /\ q.event.allowance \in Int  BY <1>2 DEF ReqRow, EventRow
<1>5. spent' \in Int /\ allowanceSpent' \in Int  BY <1>1, <1>2, <1>4
<1>6. row'[r] = q.event
  <2>1. row \in [Request -> EventRow]  BY DEF IInv, Typed
  <2>2. QED  BY <1>1, <2>1
<1>7. /\ n \in ReqRow /\ n.at = p /\ n.answer = q.answer /\ SameGate(n, q)
      /\ n.usage = q.usage /\ n.event = q.event /\ n.recorded
  BY <1>2, <1>3, RecordedShape
<1> HIDE DEF n
<1>8. Gates(n)  BY <1>1, <1>2, <1>3, <1>7 DEF Gates, Gated, SameGate
<1>9. Priced(q) => Priced(n)  BY <1>7 DEF Priced, Fits, IsChat, SameGate
<1>10. Events(n)  BY <1>1, <1>2, <1>3, <1>7, <1>9 DEF Events, Before
<1>11. q.event.basis # "none"  BY <1>1, <1>2 DEF Events
<1>12. Ledger(n, row'[r])  BY <1>3, <1>6, <1>7, <1>11 DEF Ledger
<1>13. Spends(n)  BY <1>3, <1>7, <1>11, RowTypes DEF Spends, Before
<1>14. QED  BY <1>1, <1>5, <1>7, <1>8, <1>10, <1>12, <1>13, Install

LEMMA recordRejectsIInv == ASSUME IInv, NEW r \in Request, recordRejects(r) PROVE IInv'
<1> DEFINE q == req[r]
           p == AfterRecord(r)
           n == Moved(q, p)
<1>1. /\ q.at = "record" /\ UNCHANGED <<plan, override, credit, spent, allowanceSpent, row, billed>>
      /\ req' = [req EXCEPT ![r] = n]
  BY DEF recordRejects, money, Become, Moved
<1>2. /\ q \in ReqRow /\ Gates(q) /\ Events(q) /\ ~ q.recorded /\ row[r] = NoRow
      /\ spent \in Int /\ allowanceSpent \in Int
  BY <1>1, NoRowYet
<1>3. p \in At /\ p \in {"reread", "answered"}  BY AfterRecordIsLater DEF At
<1> HIDE DEF p
<1>4. n \in ReqRow /\ n.at = p /\ n.answer = q.answer /\ SameGate(n, q) /\ SameRun(n, q)
  BY <1>2, <1>3, MoveShape
<1> HIDE DEF n
<1>5. Gates(n)  BY <1>1, <1>2, <1>3, <1>4 DEF Gates, Gated, SameGate
<1>6. Priced(q) => Priced(n)  BY <1>4 DEF Priced, Fits, IsChat, SameGate, SameRun
<1>7. Events(n)  BY <1>1, <1>2, <1>3, <1>4, <1>6 DEF Events, Before, SameRun
<1>8. Ledger(n, row'[r])  BY <1>1, <1>2, <1>4 DEF Ledger, SameRun
<1>9. q.event.basis # "none"  BY <1>1, <1>2 DEF Events
<1>10. Spends(n)  BY <1>3, <1>4, <1>9, RowTypes DEF Spends, Before, SameRun
<1>11. QED  BY <1>1, <1>2, <1>4, <1>5, <1>7, <1>8, <1>10, Install

\* The last read for the headers, and the catch of the Worker.
LEMMA LastAnswersIInv == ASSUME IInv, NEW r \in Request, reread(r) \/ ReadRejects(r) PROVE IInv'
<1>1. UNCHANGED <<plan, override, credit, spent, allowanceSpent, row, billed>>
  BY DEF reread, ReadRejects, money
<1>2. CASE reread(r)
  <2>1. req[r].at = "reread" /\ Answer(r, "ok") /\ "ok" \in Code  BY <1>2 DEF reread, Code
  <2>2. req[r].event # NoRow
    <3>1. Events(req[r])  BY NoRowYet
    <3>2. QED  BY <2>1, <3>1, RowTypes DEF Events
  <2>3. QED  BY <1>1, <2>1, <2>2, AnswerIInv
<1>3. CASE ReadRejects(r)
  <2>1. req[r].at \notin {"idle", "answered"} /\ Answer(r, "internal") /\ "internal" \in Code
    BY <1>3 DEF ReadRejects, Code
  <2>2. QED  BY <1>1, <2>1, AnswerIInv
<1>4. QED  BY <1>2, <1>3

-----------------------------------------------------------------------------
(***************************************************************************)
(* The operator, and every step.                                           *)
(***************************************************************************)
\* What an operator edits is not part of any request.
LEMMA EditIInv ==
  ASSUME IInv, UNCHANGED <<req, row, billed, spent, allowanceSpent>>,
         override' \in [Catalog -> OverrideRow], plan' \in PlanRow, credit' \in Int
  PROVE  IInv'
<1>1. Typed'  BY DEF IInv, Typed
<1>2. \A r \in Request : Good(r)'  BY DEF IInv, Good
<1>3. QED  BY <1>1, <1>2 DEF IInv

LEMMA OperatorIInv ==
  ASSUME IInv,
         \/ \E p \in PlanRow : handleUpsertPlan(p)
         \/ \E m \in Catalog, t, u \in BOOLEAN, x \in Rates : handleSetModelPrice(m, t, u, x)
         \/ \E n \in Rates : handleGrantCredit(n)
  PROVE  IInv'
<1>1. override \in [Catalog -> OverrideRow] /\ plan \in PlanRow /\ credit \in Int
  BY DEF IInv, Typed
<1>2. ASSUME NEW p \in PlanRow, handleUpsertPlan(p) PROVE IInv'
  BY <1>1, <1>2, EditIInv DEF handleUpsertPlan, money
<1>3. ASSUME NEW m \in Catalog, NEW t \in BOOLEAN, NEW u \in BOOLEAN, NEW x \in Rates,
             handleSetModelPrice(m, t, u, x)
      PROVE  IInv'
  <2> DEFINE o == [set |-> TRUE, input |-> IF t THEN x ELSE 0, output |-> IF t THEN x ELSE 0,
                   unit |-> IF u THEN x ELSE Unusable]
  <2>1. x \in Nat /\ Unusable \in RateOrNone  BY DoorsAssumption, RowTypes
  <2>2. o \in OverrideRow  BY <2>1 DEF OverrideRow, RateOrNone
  <2>3. override' = [override EXCEPT ![m] = o] /\ UNCHANGED <<plan, credit, spent, allowanceSpent, req, row, billed>>
    BY <1>3 DEF handleSetModelPrice, money
  <2> HIDE DEF o
  <2>4. override' \in [Catalog -> OverrideRow]  BY <1>1, <2>2, <2>3
  <2>5. QED  BY <1>1, <2>3, <2>4, EditIInv
<1>4. ASSUME NEW n \in Rates, handleGrantCredit(n) PROVE IInv'
  <2>1. n \in Nat  BY DoorsAssumption
  <2>2. credit' \in Int  BY <1>1, <1>4, <2>1 DEF handleGrantCredit
  <2>3. QED  BY <1>1, <1>4, <2>2, EditIInv DEF handleGrantCredit
<1>5. QED  BY <1>2, <1>3, <1>4

LEMMA InitIInv == Init => IInv
<1> SUFFICES ASSUME Init PROVE IInv  OBVIOUS
<1>1. override \in [Catalog -> OverrideRow]
  <2>1. NoOverride \in OverrideRow  BY RowTypes DEF NoOverride, OverrideRow, RateOrNone
  <2>2. QED  BY <2>1 DEF Init
<1>2. Typed  BY <1>1, BlankRow, RowTypes, DoorsAssumption DEF Init, Typed
<1>3. ASSUME NEW r \in Request PROVE Good(r)
  <2>1. req[r] = Blank /\ row[r] = NoRow /\ r \notin billed  BY DEF Init
  <2>2. Gates(Blank) /\ Events(Blank) /\ Ledger(Blank, NoRow)
    BY BlankRow, RowTypes DEF Gates, Gated, Events, Before, Ledger
  <2>3. QED  BY <2>1, <2>2 DEF Good
<1>4. QED  BY <1>2, <1>3 DEF IInv

LEMMA NextIInv == IInv /\ [Next]_vars => IInv'
<1> SUFFICES ASSUME IInv, [Next]_vars PROVE IInv'  OBVIOUS
<1>1. CASE UNCHANGED vars
  <2>1. UNCHANGED <<req, row, billed, spent, allowanceSpent, override, plan, credit>>
    BY <1>1 DEF vars, money
  <2>2. QED  BY <2>1, EditIInv DEF IInv, Typed
<1>2. ASSUME NEW r \in Request,
             \/ \E in \in Input : requireCaller(r, in) \/ invalidRequest(r, in)
             \/ RateLimited(r) \/ gatePlan(r) \/ gatePrice(r) \/ gateBalance(r)
      PROVE  IInv'
  BY <1>2, EnterIInv, gatePlanIInv, gatePriceIInv, gateBalanceIInv
<1>3. ASSUME NEW r \in Request, submitAgreement(r) PROVE IInv'
  BY <1>3, submitAgreementIInv
<1>4. ASSUME NEW r \in Request, req[r].at \in {"run", "rerun"}, Chat(r),
             \E w \in Wire, body \in {"empty", "inline"}, u \in Report :
               runChat(r, w, body, u.usageMetadata, u.usage)
      PROVE  IInv'
  BY <1>4, runChatIInv
<1>5. ASSUME NEW r \in Request, req[r].at = "run", ~ Chat(r),
             \E w \in Wire, body \in Body : runUpstream(r, w, body)
      PROVE  IInv'
  BY <1>5, runUpstreamIInv
<1>6. ASSUME NEW r \in Request,
             rehostMusicAudio(r) \/ \E uploaded \in BOOLEAN : waitForMediaObject(r, uploaded)
      PROVE  IInv'
  BY <1>6, AssetIInv
<1>7. ASSUME NEW r \in Request,
             split(r) \/ recordUsage(r) \/ recordRejects(r) \/ reread(r) \/ ReadRejects(r)
      PROVE  IInv'
  BY <1>7, splitIInv, recordUsageIInv, recordRejectsIInv, LastAnswersIInv
<1>8. QED  BY <1>1, <1>2, <1>3, <1>4, <1>5, <1>6, <1>7, OperatorIInv, Zenon DEF Next

THEOREM AlwaysIInv == Spec => []IInv
BY InitIInv, NextIInv, PTL DEF Spec

\* What a client is told agrees with the ledger, for any number of requests, any
\* catalog and any edits (routes/chat.ts, routes/nonchat.ts).
THEOREM AnswersTellCharges == Spec => []AnswerTellsCharge
<1>1. IInv => AnswerTellsCharge
  <2> SUFFICES ASSUME IInv, NEW r \in Request, Answered(r)
      PROVE  /\ req[r].answer = "ok" => (req[r].recorded <=> row[r].basis # "none")
             /\ row[r].micro_usd > 0 => req[r].answer \in {"ok", "internal"}
             /\ row[r].basis = "measured" => Covers(r, row[r].micro_usd)
             /\ row[r].allowance + row[r].credit = row[r].micro_usd
    BY DEF AnswerTellsCharge
  <2>1. /\ req[r] \in ReqRow /\ Events(req[r]) /\ Ledger(req[r], row[r])
    BY NoRowYet
  <2>2. CASE ~ req[r].recorded
    <3>1. row[r] = NoRow  BY <2>1, <2>2 DEF Ledger
    <3>2. QED  BY <2>2, <3>1, RowTypes
  <2>3. CASE req[r].recorded
    <3>1. row[r] = req[r].event /\ req[r].event.basis # "none"  BY <2>1, <2>3 DEF Ledger
    <3>2. req[r].event.basis = "measured" => Covers(r, req[r].event.micro_usd)
      BY <2>1 DEF Events, Priced, Covers, Chat, IsChat, UnitsOf, billableUnits
    <3>3. QED  BY <2>1, <2>3, <3>1, <3>2 DEF Events
  <2>4. QED  BY <2>2, <2>3
<1>2. QED  BY <1>1, AlwaysIInv, PTL

\* Work the provider bills never ends in an answer with nothing for the ledger, but
\* for a stream, a 500 and the gap chat.ts names.
THEOREM SpendsHaveRows == Spec => []SpendHasRow
<1>1. IInv => SpendHasRow
  BY DEF IInv, Typed, Good, Spends, SpendHasRow, Answered, IsChat, Chat
<1>2. QED  BY <1>1, AlwaysIInv, PTL

\* A request of one unit is never charged more than was left when the gate let it
\* through (gateNonChat's pre-flight).
THEOREM UnitsFit == Spec => []UnitFits
<1>1. IInv => UnitFits
  <2> SUFFICES ASSUME IInv, NEW r \in Request, row[r].micro_usd > 0, ~ Chat(r), billableUnits(r) = 1
      PROVE  row[r].micro_usd <= req[r].left
    BY DEF UnitFits
  <2>1. req[r] \in ReqRow /\ Events(req[r]) /\ Ledger(req[r], row[r])  BY NoRowYet
  <2>2. row[r] = req[r].event  BY <2>1, RowTypes DEF Ledger
  <2>3. req[r].event.basis = "measured"  BY <2>1, <2>2 DEF Events
  <2>4. req[r].event.micro_usd = 1 * req[r].unit /\ Fits(req[r])
    BY <2>1, <2>3 DEF Events, Priced, Chat, IsChat, UnitsOf, billableUnits
  <2>5. req[r].left \in Int  BY <2>1 DEF ReqRow
  <2>6. QED  BY <2>2, <2>4, <2>5 DEF Fits
<1>2. QED  BY <1>1, AlwaysIInv, PTL
=============================================================================
