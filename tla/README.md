# Verification of the prism control plane

TLA+ models of the parts of this repository that move money or keep a promise
over several steps, the TLC runs that check them on small instances, and TLAPS
proofs for every size. Paths below are relative to the repository root.

    cd tla
    tlc -config MeteringCharges.cfg MCMetering     # any run: see the table
    tlapm MeteringProofs.tla                       # any *Proofs.tla

## 1. The system

A Cloudflare Worker (`src/index.ts`) sells model inference to registered
devices. Every request is authenticated by a client key, gated on two pools of
money (a monthly allowance that expires, prepaid credit that does not), sent to
the AI Gateway, priced, and written to a ledger in D1. D1 has no interactive
transactions: a call of the store is one or more separate statements, each
atomic (`db.batch` is atomic as a whole), and the isolate can die between any
two of them. A cron compares the ledger with the gateway's own log and trues up
the difference.

| Component | State | Operations | Talks to |
|---|---|---|---|
| Spend gate, charge split (`balance.ts`) | none, pure | `decideBalance`, `allocateCharge` | called by every inference door |
| Ledger (`store-d1.ts`, `migrations/`) | `accounts`, `credit_grants`, `usage_events`, `usage_periods`, `usage_adjustments`, `reconcile_state` | `createAccount`, `grantCredit`, `recordUsage`, `applyUsageAdjustment`, `advanceReconcileState` | written by doors, workflow, operator, reconciliation |
| Chat door (`routes/chat.ts`) | the request's locals across its awaits | gate, upstream call, `buildEvent`, `recordQuietly`, answer | ledger, upstream, stream relay |
| Stream relay (`stream.ts`) | scanner buffer, `settled`, reader | `pull`, `cancel`, `settleOnce` | client, upstream, ledger in `waitUntil` |
| Non-chat doors (`routes/nonchat.ts`) | the request's locals | `gateNonChat`, `meterAndRespond`, `startAsyncLongRun` | ledger, job rows, Workflows |
| Long-run workflow (`routes/longrun-workflow.ts`) | saved step results, attempts; `async_jobs` row | `invoke-model`, `rehost-asset`, `finalize`, `failJob` | provider, R2, ledger, job row |
| Reconciliation (`reconcile-run.ts`, `reconcile.ts`, `aig-logs.ts`, `scheduled.ts`) | watermark, counters of `reconcile_state` | pages, decisions, true-ups, watermark | gateway log feed, ledger |
| Speech sessions (`stt-session.ts`, `routes/stt-stream.ts`, `stt-handoff.ts`) | Durable Object storage; sockets, timer and flag in memory | upgrade, socket events, cap timer, `finalize` | provider, ledger |
| Access (`auth.ts`, `routes/clients.ts`, `routes/admin.ts`) | `clients`, `enrollments`, `stt_tickets` | enroll, revoke, mint and consume tickets | every door |
| Rate limit (`rate-limit.ts`) | `rate_buckets` | read the clock, claim | every door |
| Store redemption (`routes/store.ts`) | transaction ids as grant keys | verify, `grantCredit` | Apple, ledger |
| Meter, plans, video lengths (`meter.ts`, `plans.ts`, `video-duration.ts`) | none, pure | `priceUsage`, `priceUnits`, estimates, entitlements, clamps | doors, stream, workflow |
| Upstream runners (`upstream.ts`, `nonchat-upstream.ts`) | a timer per call | HTTP, REST and binding transports, extractors, agreement retry | provider |
| Upstream credentials (`token-minter.ts`), catalog and refresh, shell | configuration | listing, comparison, routing | |

What is hard here, and what would make each part correct:

* *Statements of different callers interleave.* Two requests pass the gate on
  one balance; two top-ups carry one idempotency key; two reconciliation runs
  hold one gateway row; handler and workflow both write a job row. Correct:
  every counter is the sum of its rows, each row is applied once, by whoever
  inserted it.
* *A call is cut between its statements.* Correct: the counters are then behind
  the rows, never above them, and no retry makes it worse.
* *Retries.* A workflow step is run again after it did its work. Correct: the
  provider is not called again for nothing and the charge lands once.
* *Values read before an await and used after it.* The account row read at
  authentication, the allowance read before the split, the month of `ctx.now`.
* *Endings that race.* A stream's end, its failure and the client's hang-up
  settle one charge, and decide whether it is measured, estimated or nothing.
* *An object that restarts with a socket open.* Its timer, its upstream and its
  "finalized" flag are gone. Correct: the session is still charged once, for no
  more than its minutes, and never after its device was revoked.
* *Limits checked in one statement and used in another.* Tickets, enrollment
  tokens and rate buckets. Correct: single use, nothing admitted after a
  revocation, a bounded burst.
* *What the client is told.* An answer is written after several awaits, each of
  which may reject. Correct: it agrees with the ledger.
* *A watermark over a feed that is late, paged and capped.* Correct: no row
  slips behind it unexamined, and it makes progress.

`PROJECT.json` lists these under `hazards`, each at the line where it bites.

## 2. Modules

| Module | Models | Notes |
|---|---|---|
| `Balance` | `src/balance.ts` | operators |
| `Meter` | `src/meter.ts`, `src/plans.ts`, `src/video-duration.ts` | operators |
| `Sums` | | the re-sum of a column, used only by properties |
| `Metering` | ledger, `recordUsage`, `meterJob`, `grantCredit`, `applyUsageAdjustment` | extends `Balance`, `Sums`; one action per statement |
| `OnceLedger` | what a money column promises | abstract |
| `Books` | | `Metering` as two `OnceLedger`s: the refinement mapping |
| `Doors` | chat and non-chat doors, runners, operator edits | extends `Balance`, `Meter`; `recordUsage` is one step |
| `Access` | keys, enrollments, tickets, receipts, rate limit, revocation | what an admitted call spends is in `Doors` |
| `SttSession` | upgrade, handoff, Durable Object | extends `Balance`; `recordUsage` is one step |
| `Stream` | `SseUsageScanner`, `meteredRelay`, the settlement of `chat.ts`, `openAIStreamFromDeferredCompletion` | the row is "written"; `Metering` says how |
| `LongRun` | `startAsyncLongRun`, `PlaneLongRunWorkflow`, the `async_jobs` row | one job; the charge is "in"; `Metering` says how |
| `Reconcile` | the reconciliation run, the feed, the watermark | money is "moved"; `Metering` says how |
| `MCMetering`, `MCReconcile`, `MCStream`, `MCDoors`, `MCAccess` | instances for TLC | `LongRun` and `SttSession` need none |
| `SumsProofs`, `MeteringProofs`, `DoorsProofs`, `StreamProofs`, `AccessProofs`, `SttSessionProofs`, `ReconcileProofs`, `LongRunProofs` | the proofs | `MeteringProofs` has those of `Books` too, `DoorsProofs` those of `Meter` |

In every module one action is one D1 statement (or batch), one call of an
outside service, or one continuation, together with the code up to the next
await. An operator whose comment begins "Mutant" is the wrong version of the
definition under it; no specification uses it, and the runs must fail with it
in that definition's place.

**Metering.** The tables are functions from ids to rows (`grants`, `events`,
`adjustments`) and counters (`credit`, `spent`, `periods`). A request `r` walks
through `pc[r]`: `resolveClient` (the account row is read once, into
`local[r]`), `Gate` (that copy against the current period row), `Serve`,
`ServeUnpriced` or `UpstreamError`, `buildEvent` (fresh period read, split),
`insertEvent`, `upsertPeriod`, `updateSpent` (the three statements of
`recordUsage`), `Answer`. `Reject` is a D1 call that rejects, `Crash` an isolate
that dies. A request in `Jobs` is the `finalize` step of a job: it books in the
current month and is run again from its first line. `billed[r]` is what the
gateway's log says. `landed`, `paidKeys`, `trued`, `raced` and `cut` are history.
Parsing, entitlement, rate limiting and the unit-price pre-flight are in `Doors`
and `Access`; they refuse more than `Gate` does, so what holds here holds behind
them. Request ids are minted per request (`src/index.ts:208`).

**OnceLedger, Books.** The abstract ledger knows operations: each is entered
once, with an account and an amount that never change, and paid once or never;
only a payment moves the column. `Books` maps `credit` (operations: signups,
grant keys, downward true-ups) and `spent` (charges, upward true-ups) to it.
An operation is entered by the insert of its row and paid by the update that
follows; everything else stutters. A crash between the two is an operation that
is never paid, which the abstract ledger allows: that is how far the promise of
the code goes without transactions.

**Doors.** A request walks through `plan`, `price`, `balance`, `run` (and `rerun`
after a model agreement), `wait` or `rehost` for assets, `split`, `record`,
`reread`. `req[r]` holds what it read on the way, so an edit in between finds it
stale. `Wire` is what the network does; `fetchOnce`, `runChatBinding`,
`runViaRest`, `runViaBinding` and `runDeepgramBatchStt` say what each transport
makes of it, in particular which of them stop the timer before the body is read.
`billed` remembers that the provider did the work. A request body is `whole` or
not; prices, plans and provider reports are the real records, with `Unusable`
for a field that is missing or malformed.

**Access.** A call is a request, a step one statement. `barred` marks calls that
arrived after the operator acted; `claimed` is when the rate bucket let it pass.
Hashes and signatures are verdicts. No route writes `suspended_at`, an operator
does it in D1 (`Suspend`).

**SttSession.** The Worker gates and signs a handoff, the object verifies it,
opens the upstream, stores its meta rows and arms the cap timer. Any of client
close, error, an expired message, upstream close and the timer calls `finalize`:
the flag, the stored rows, the reads that `validate` the caller again, and one
record. `Restart` loses memory; the client's socket may survive it.

**Reconcile.** A run pages through the rows newer than the floor it read,
stops at the first unsettled row or at the cap, decides each row, inserts the
audit row, moves the money, and writes the watermark last. The world supplies
rows, makes them readable within `SETTLE_MS`, and writes ledger rows whenever
it likes. Dry runs, feed errors and crashes at every await are included. The
totals and the reverse check are reports and left out.

**Stream.** The relay is a pull source. `Pull` starts a read; the read resolves
(`ReadChunk`, `ReadEnds`); its continuation runs later (`OnValue`, `OnDone`,
`OnError`), and `cancel` may come anywhere between. A frame is two symbols and a
newline, so a chunk boundary can fall inside one; decoding is abstracted to
that. `Record` and `RecordFails` are `waitUntil`. The upstream is a script of a
provider, or what `openAIStreamFromDeferredCompletion` writes for a native model
behind the binding: the opening frame, keepalives, then text, finish, usage and
`[DONE]`, or a failure frame in place of the text.

**LongRun.** The handler inserts the row, creates the instance, and marks the
row failed when `create` throws, which it may do for an instance that exists. The
runtime counts attempts against `Limit`, the code's three retry limits. A
`NonRetryableError` goes straight to the catch. `updateAsyncJob` is its SELECT
and its UPDATE. A rejected UPDATE may have been applied.

## 3. Runs

Every cfg turns deadlock checking off: months, requests, rows, scripts and jobs
are finite in the model, so every behaviour ends.

| Run | Expect | Asks |
|---|---|---|
| `MeteringCharges` | pass | A request and a retried job of one account over a month boundary, with rejections and crashes everywhere: `NeverAboveLedger`, `SerialOvershoot`, `RecordedIsCharged`, `CountersExplained`, `LedgerAppendOnly`, `AdmittedSettles` |
| `MeteringLedger` | pass | Two top-ups over one key and two accounts, two true-ups of one charge: `ExactUnlessCut`, `NetEqualsBill`, and the refinement `ColumnsMoveOnce` |
| `MeteringOvershoot` | violation | "overshoot by at most one request" |
| `MeteringReplay` | violation | `applied:false` means "already granted" |
| `ReconcileRuns` | pass | One run at a time, cap and page boundary, malformed and cached rows, dry runs, failures: `NoRowLost`, `WatermarkForward`, `Drains` |
| `ReconcileConcurrent` | pass | Two overlapping runs: `NoRowLost`, `TruedUpOnce`, `AuditedIsMoved` |
| `ReconcileTies` | violation | no ordering "can lose a row" |
| `StreamRelay` | pass | Chunking, failure and hang-up in every order: `ScannerExact`, `OneRow`, `BasisTellsEnding`, `HonestEnd`, `EndsInLedger` |
| `LongRunJob` | pass | One job with retries, lost isolates, a failing database and an ambiguous create: `ProviderOnce`, `ChargedForAsset`, `VerdictOfRow`, `JobEnds` |
| `SttSessions` | pass | One session whose endings race, with restarts, rejected statements and an operator: `ChargedOnce`, `BilledMinutes`, `StoppedIsNotCharged`, `SessionRecorded` |
| `AccessCalls` | pass | Three calls of any kind between each other's statements, with a clock and an operator: `SingleUse`, `NoLateAdmission`, `BurstBound` |
| `DoorRequests` | pass | One request of every kind at every door over every outcome, with an operator's edit anywhere: `AnswerTellsCharge`, `SpendHasRow`, `UnitFits` |

**Bounds and why they are enough.** Two requests suffice for every race of the
gate and of `recordUsage` (a third repeats a pair); the job among them is
retried twice, once before and once after its row is in. Two months make the
boundary fall between any two statements. Costs of 0 to 3 against an allowance
and a credit of 1 give charges paid from either pool, from both, and beyond
both. Two callers on one key, two accounts and amounts of 1 and 2 give every
collision of a key. Reconciliation has three rows with a cap of one and pages of
two, so the cap, the page boundary and the unsettled row fall on different
rows; two runs with two rows of one instant for the overlap. Stream scripts have
at most nine symbols and chunks at most three, longer than a frame, so a chunk
may hold half a frame, one frame, or the end of one and the start of the next. A deferred completion adds one keepalive. A
job loses its isolate twice, once in each of two steps or twice in one.
A speech session has a minute of two ticks, a cap that is not a whole number
of minutes, three ticks in which the timer may be late, and two restarts, so that
a second finalize can itself be cut. `Access` has three calls: two that race and
one more than the limit lets pass. `Doors` has one request, since requests meet
only in the money columns, which is `Metering`'s subject, and one edit, which
falls between any two of its steps; its catalog has one model per modality and
per transport, its reports every shape `extractUsage` tells apart.
Symmetry is used for callers, workers, runs and calls, in safety runs only.

**Fairness.** `Metering`: weak, per request, for the handler's own steps: the
Workers runtime runs a live handler on, the upstream call is aborted at
`upstreamTimeoutMs`, the Workflows engine drives a step; no caller has to call
and nothing has to fail. `Reconcile`: weak for the clock, the feed and the
steps of a started run; strong for starting a live run, since each cron tick is
an invocation of its own that no dry run can keep from starting. `Stream`: weak
for the isolate's continuations only; upstream and client owe nothing, so
`EndsInLedger` starts from a stream that ended. `LongRun`: weak for the handler
(which may end by being cut) and for the workflow; crashes are bounded by
`MaxCrashes`, since an instance that is lost for ever ends nothing. `SttSession`:
weak for the clock, the cap timer and the steps of a `finalize` that has begun;
client, provider and operator owe nothing, so a session is held to its end by its
timer alone.

## 4. What the runs show

Whatever crashes, rejects, retries or overlaps, an account's counters never
stand above its rows, and stand exactly on them when nothing was cut. A key
credits once, a gateway row is trued up once, a stream is settled once, and a
charged job has its asset. The gate holds serial use to less than one request
of overshoot per month.

A top-up, a signup, a charge and a true-up each move their column at most once.
A speech session is charged once and for its minutes. A token opens one device
and a ticket one session, and neither works after a revocation. What the doors
tell a client is what the ledger has, and what a provider bills is in the ledger,
if only as an unpriced row, but for the gaps listed below.

The code does not keep three sentences the repository says of it (`findings`, each
with its run):

1. *Overshoot* is one request per request in flight, not one: the gate reserves
   nothing.
2. *A top-up cut between its two statements* leaves the key used; the retry
   answers `applied:false` and the credit never lands.
3. *A cap between two rows of one `created_at`* leaves the second behind the
   watermark, unexamined.

Four more that the models show and no run is kept for:

* `prism-usage-recorded: false` is said to mean "NOT charged"
  (`src/routes/chat.ts:577`), and is also sent when the period or the spend update
  had landed before the rejection (`src/routes/chat.ts:650`).
* The allowance "never becomes credit" (`src/balance.ts:10`, `docs/CONTRACT.md:385`),
  but a downward true-up of a charge it paid adds prepaid credit
  (`src/store-d1.ts:437`).
* The watermark "never moves BACKWARDS" (`src/reconcile.ts:284`); of two
  overlapping live runs the older one may write last (`src/store-d1.ts:482`).
* `src/stt-session.ts:384-386` calls the missing account row "the only branch" that
  may discard a session; the catch at 507 discards one as well (`lost`).

Consequences worth knowing that contradict no sentence: a job whose `finalize`
was cut inside `recordUsage` finds its row on the retry, returns at once and
succeeds with its counters behind (hence `RecordedIsCharged` leaves jobs out and
`NeverAboveLedger` does not); a job whose row update fails four times reads
failed and is charged (`VerdictOfRow`); when `LONGRUN.create` fails for an
instance that exists, the handler's "failed" may overwrite a charged success;
an upload of the reference image that rejects (`src/routes/nonchat.ts:964`)
leaves the row running for good (`stuck`). In the doors: a chat body that arrives
after its headers and after the timeout, and a chat answer with no text, read as
upstream errors and leave no row although the provider worked (the exception in
`SpendHasRow`); the REST timer of the other doors stops at the headers, and
`runDeepgramBatchStt` has none; a period read that rejects between service and
record is a 500 with no row; setting only a unit rate writes token rates of zero
for the model, and a priced chat answer at a zero rate costs nothing, in spite of
"ALWAYS >= 1" (`src/meter.ts:44`). A stream from the binding has no gateway log
id, so reconciliation cannot find its row; the keepalive interval of a deferred
stream is not cleared when an enqueue fails first, since `finish` then returns
early (`src/anthropic-sse-to-openai.ts:333`). The cap timer of a speech session
is lost with a restart: an idle socket then stays open until its client speaks or
leaves, and is still billed no more than the cap. The rate limiter's twofold bound
is checked over a window less the longest time between a call's clock and its
claim: with no bound on that time, a third window's worth could pass.

## 5. Proofs

TLAPS checks these for any constants that satisfy the named assumptions. They
are the weakest the code justifies: sizes, bounds and limits are naturals, costs
are bounded, the owner of a request is an account, names of different kinds are
different (`ConstantsAssumption`, `ReconcileAssumption`, `LongRunAssumption`,
`AccessAssumption`, `SttAssumption`, `StreamAssumption`). `DoorsAssumption` also says of the catalog
that a model of the other doors runs on one of their three transports and that the
allowance of a plan row is an integer. The strengthenings that are not plain from
the code (the watermark's, the overshoot's) were checked by TLC on small instances
before they were proved.

* `SumsProofs`. `SumTo` re-sums a column. It is a natural, grows by what one
  summand grows, is monotone, is additive, and the sum over groups is the sum over
  all. The prover has no induction over data; each lemma looks at the least index
  at which it would fail. `Rounding` and `ProductGrows` are the integer facts the
  prices and minutes need.
* `MeteringProofs`.
  * `TypeCorrect`, `RowsAreOwned`, `CountersAreExplained`, `NoOvercharge`,
    `LedgerIsAppendOnly`. `NeverAboveLedger` is not inductive: it does not know
    which updates landed. The inductive invariant is `TypeOK`, `RowsOwned` and
    `CountersExplained`. `CountersExplained` says a counter is the sum over the
    rows whose update landed; an update keeps it only if the row is in the table,
    unchanged, and not landed yet, which is what `RowsOwned` says of every caller
    between two statements (the `meta.changes` gates). Since landed rows are some
    of the rows and shares are naturals, `NeverAboveLedger` follows by
    monotonicity of the sum.
  * `RecordedAreCharged`, `WholeCallsAreExact`. Both follow from where a row's
    counters stand as its writer moves on: `Reported` (a handler that got past
    `recordUsage` left no statement out) and `Complete` (while nothing was cut,
    whoever inserted a row, a grant or a true-up is still at its counters). When
    all is quiet, landed rows are then all rows, and `CountersExplained` turns into
    an equality.
  * `NetIsTheBill` adds `Valued`: a charge is its estimate and a true-up is the
    distance from it to the bill, in its direction. Row by row, paid plus true-up is
    the bill; regrouping the sums by month (`SumByGroup`) gives the columns.
  * `OvershootIsBounded`. The invariant speaks of one account at a time: as long
    as it is calm (no overlap, nothing cut, no true-up), its columns are bounded
    when no request is in flight, and the one request in flight, if any, holds an
    account row that is still current and leaves the room its charge will use. The
    gate only admits with something left, and a charge is at most `MaxCost`: hence
    less than one request beyond, once per month, since a new month brings a new
    allowance and the gate looks at both pools together.
  * `MeteringImplementsBooks`, that is `Spec => ColumnsMoveOnce`. Every statement
    of `Metering` is shown to be a step of each ledger of `Books` or to leave it
    alone. An insert that takes effect adds one entry and keeps the others; the
    update after it pays that entry, which needs `RowsOwned`: the row is still the
    one that was inserted, and nobody paid it meanwhile. A true-up is a step of the
    book of its direction and a stutter of the other. The two `OnceLedger`s have no
    fairness: an entry may stay unpaid, which is what a cut leaves behind.
* `ReconcileProofs`.
  * `TypeCorrect`, `NeverTruedUpTwice`. The invariant is `TypeOK`, `TruedUpOnce`
    and `OneMover`: money moves only for a run in its "move" state, and such a run
    holds an audit row that no other run holds and whose money never moved.
    `MoneyFollowsAudit` needs no more than these.
  * `NoRowIsLost`: `NoRowLost` for any number of overlapping and crashing runs,
    when no two rows share a `created_at`. Why a run may advance: the rows it can
    pass (`Window`, older than its own clock less the settling time) are all
    readable when it starts and never change. The ranks of a feed have no gap
    (`RankOnto`), so a page shorter than `PerPage` is the last, and the pages read so
    far cover the first `Seen` ranks. `Sound` says of a live run that every row of
    its window is dealt with, or in its batch, or on a page to come, or, once it
    stopped, younger than the last it decided; rows are decided oldest first
    (`Ordered`), so what is younger stays ahead of the watermark it writes. The
    hypothesis `~ Ties` is needed: with ties the cap may cut between two rows of one
    instant, which is the finding of `ReconcileTies`.
  * `WatermarkOnlyGrows`: `WatermarkForward` when runs do not overlap (`OneRun`).
    The floor a run compares with is then still the watermark. With two runs it
    fails, as §4 says.
* `AccessProofs`: `TypeCorrect`, `UsedAtMostOnce`, `NoneAdmittedLate`,
  `BurstsAreBounded`, for any number of calls, devices, tokens and ticks. The
  invariant says where a call of each kind can be (`Placed`); that the calls that
  went on with a token or a ticket are one, and it is consumed (`UsedOnce`); that a
  barred call is still before the read that will refuse it (`BarredWaits`); and of a
  bucket, that there is an instant at which its window was opened, with at most the
  limit claimed since, and at most the limit before it in any span that reaches it
  (`Windowed`): hence twice.
* `SttSessionProofs`: `TypeCorrect`, `EachChargedOnce`, `MinutesCoverTheSession`,
  `StoppedStaysFree`, for any number of sessions. The row of a session is inserted
  under the session's id, so a second `finalize` changes nothing. The minutes come
  from the stored start, which no restart touches and which is no later than the
  opening of the socket (`Timed`); whoever is about to bill holds minutes that cover
  it and a socket that is closed (`Covered`). A session that was open when the
  operator wrote had not been validated, and now never will be (`Halted`).
* `DoorsProofs`: `AnswersTellCharges`, `SpendsHaveRows`, `UnitsFit`, for every
  catalog, plan, price, report and number of requests and edits. The invariant
  follows `req[r]` along the handler: what is known at each await of the price that
  was read, the split, the event and the answer. Of the operators of `Meter`:
  `MeasuredCovers`, `EstimateBelowMeasured`, `EstimateCountsWholeTokens`,
  `UsageIsWhole`, `TokensWithinPlan`, `LengthIsTaken`.
* `StreamProofs`: `TypeCorrect`, `ScannerIsExact`, `OneRowAtMost`,
  `BasisFollowsEnding`, `EndIsHonest`, for every script, every set of buffered
  completions and every size of chunk. The scanner's part: the text it was given is
  some whole lines, of which it knows the last usage and the count of text frames,
  and its buffer, which has no newline (`Scanned`). `split` cuts a text at its
  newlines and nowhere else (`LinesOfText`, `LineByLine`, from the count of newlines
  up to a place), one more line adds at most one frame, behind all others
  (`FramesAligned`), and `consumeLine` finds exactly that (`LineConsumed`); so
  `push` and `end` keep what is known exact (`PushScanned`, `EndScanned`), wherever
  the chunk was cut. The relay's part: the stream is readable until it settles and
  ends as it was settled (`RelayInv`); until then the scanner was given all that
  `pull` handled (`ScanInv`), and client and queue hold the same symbols in order
  (`QueueInv`); an end is read only after everything was (`PullInv`), hence an
  honest end. Of a completion that failed, `FailedHasNoUsage`.
* `LongRunProofs`: `TypeCorrect`, `ProviderCalledOnce`, `ChargeNeedsAsset`,
  `RowTellsVerdict`, for any number of lost isolates. The invariant adds where a
  step is (`Placed`), that nothing runs before the instance exists
  (`NotYetStarted`), that an attempt about to call the provider has as many crashes
  behind it as answers (`NotYetReturned`), that asset and usage row exist behind
  the steps that make them (`StepsInOrder`), and for the verdict that a failure
  behind a usage row is finalize's last attempt (`GivenUp`) and that only the
  workflow ends the row of an accepted job (`RowOfFlow`).

Only model-checked: all liveness (`AdmittedSettles`, `Drains`, `EndsInLedger`,
`JobEnds`, `SessionRecorded`: fairness is beyond the prover), and `NoRowLost` where
rows tie and no run is capped.

## 6. Not modelled, and the plan

What is left to prove: `NoRowLost` where rows tie and no run is capped, for which
`Sound` would have to speak of ranks in place of instants.

Not modelled:

* `catalog.ts` is a table of models and prices; `Doors` takes a catalog as a
  constant. The refresh (`catalog-refresh.ts`, `aig-models.ts`) compares two lists
  and writes nothing.
* `token-minter.ts`, `token-crypto.ts`, `cf-api.ts`: only the shared token is wired
  (`src/index.ts:80-96`); the minter is reached by tests alone. The same holds for
  the transformer of Anthropic's event stream in `anthropic-sse-to-openai.ts` and
  for `google-play.ts`.
* `routes/account.ts`, `routes/jobs.ts`, `routes/health.ts` and the reports of
  reconciliation read and write nothing.
* The request bodies sent to providers (`chat-request.ts`, the `build*Params`
  functions) and the signed media URLs (`media.ts`): nothing else depends on their
  content.

Out of reach or not worth it: signature, certificate and DER parsing
(`apple-jws.ts`, `x509.ts`), cryptography, routing and configuration. The models
take their outcomes as inputs.
