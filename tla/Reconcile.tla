----------------------------- MODULE Reconcile ------------------------------
(***************************************************************************)
(* The reconciliation run of reconcile-run.ts: pages of the AI Gateway's   *)
(* log feed since a watermark, one decision per row, one true-up per row   *)
(* that disagrees with the ledger, and the watermark as the last write.    *)
(*                                                                         *)
(* A run is started by the cron or by an operator, and nothing prevents    *)
(* two of them at once.  One action is one call of the feed or one D1      *)
(* statement, with the code up to the next await.  What a true-up does to  *)
(* the money columns is the subject of Metering; here it is "moved".       *)
(***************************************************************************)
EXTENDS Integers, FiniteSets

CONSTANTS
  NRow,         \* gateway log rows are 1..NRow, their ids in feed order
  Outcome,      \* what row r is once its ledger row is found
  Run,          \* reconciliation runs that may be active at once
  LastTime,     \* the clock is 1..LastTime
  Settle,       \* SETTLE_MS
  MaxRows,      \* rows one run decides at most
  PerPage,      \* rows of a full page
  Ties,         \* may two rows share a created_at?
  MaxFailures   \* crashes and feed errors

Row == 1..NRow
Time == 1..LastTime
None == -1

\* The floor an operator or the first cron tick supplies.
Since == 0

\* decideAdjustment refuses the first three before it looks at the ledger row.
Refused == {"no_request_id", "cached", "unknown_cost"}
Compared == {"account_mismatch", "in_agreement", "adjust"}

ASSUME ReconcileAssumption ==
  /\ NRow \in Nat /\ LastTime \in Nat \ {0} /\ Settle \in Nat \ {0}
  /\ MaxRows \in Nat \ {0} /\ PerPage \in Nat \ {0}
  /\ MaxFailures \in Nat /\ Ties \in BOOLEAN
  /\ Outcome \in [Row -> Refused \cup Compared \cup {"malformed"}]

VARIABLES
  \* The world.
  clock,        \* now
  createdAt,    \* created_at of each gateway row, None before the request
  visible,      \* rows the feed returns
  ledger,       \* rows whose request has a usage_events row
  failures,     \* crashes and feed errors so far
  \* The tables.
  watermark,    \* reconcile_state.watermark
  rowsAdjusted, \* reconcile_state.rows_adjusted
  adjusted,     \* gateway rows that have a usage_adjustments row
  \* The runs.
  run,
  \* History.
  moved,        \* how often the money of row r moved
  examined,     \* rows a live run decided
  reported      \* rows a live run reported as no_ledger_row

world == <<clock, createdAt, visible, ledger>>
state == <<watermark, rowsAdjusted>>
history == <<moved, examined, reported>>
vars == <<world, failures, state, adjusted, run, history>>

Idle == [pc |-> "idle"]

Init ==
  /\ clock = 1
  /\ createdAt = [r \in Row |-> None]
  /\ visible = {}
  /\ ledger = {}
  /\ failures = 0
  /\ watermark = None
  /\ rowsAdjusted = 0
  /\ adjusted = {}
  /\ run = [w \in Run |-> Idle]
  /\ moved = [r \in Row |-> 0]
  /\ examined = {}
  /\ reported = {}

-----------------------------------------------------------------------------
(***************************************************************************)
(* The world: requests reach the gateway in the order of their rows, a row *)
(* becomes readable within the settling time (the assumption SETTLE_MS     *)
(* makes of the feed), and its ledger row is written whenever the handler  *)
(* gets to it.                                                             *)
(***************************************************************************)
Tick ==
  /\ clock < LastTime
  /\ \A r \in Row : createdAt[r] # None /\ createdAt[r] + Settle <= clock + 1 => r \in visible
  /\ clock' = clock + 1
  /\ UNCHANGED <<createdAt, visible, ledger, failures, state, adjusted, run, history>>

Request(r) ==
  /\ createdAt[r] = None
  /\ \A q \in 1..(r - 1) : createdAt[q] # None
  /\ Ties \/ \A q \in Row : createdAt[q] # clock
  /\ createdAt' = [createdAt EXCEPT ![r] = clock]
  /\ UNCHANGED <<clock, visible, ledger, failures, state, adjusted, run, history>>

Appear(r) ==
  /\ createdAt[r] # None
  /\ r \notin visible
  /\ visible' = visible \cup {r}
  /\ UNCHANGED <<clock, createdAt, ledger, failures, state, adjusted, run, history>>

Record(r) ==
  /\ createdAt[r] # None
  /\ r \notin ledger
  /\ ledger' = ledger \cup {r}
  /\ UNCHANGED <<clock, createdAt, visible, failures, state, adjusted, run, history>>

-----------------------------------------------------------------------------
(***************************************************************************)
(* The feed.                                                               *)
(***************************************************************************)

\* Oldest first; rows of one instant in the order of their ids.
Before(q, r) ==
  \/ createdAt[q] < createdAt[r]
  \/ createdAt[q] = createdAt[r] /\ q <= r

\* Rows created strictly after the floor.
Feed(floor) == {r \in visible : createdAt[r] > floor}

Rank(feed, r) == Cardinality({q \in feed : Before(q, r)})

\* Page p, malformed rows included.
Page(floor, p) ==
  LET feed == Feed(floor)
  IN {r \in feed : Rank(feed, r) \in (p - 1) * PerPage + 1 .. p * PerPage}

\* A loop over `batch` comes to r first.
First(batch, r) == r \in batch /\ \A q \in batch : Before(r, q)

-----------------------------------------------------------------------------
(***************************************************************************)
(* Decisions.                                                              *)
(***************************************************************************)
needsLedgerLookup(r) == Outcome[r] \notin Refused

\* found: the run looked for the ledger row and it was there.
decideAdjustment(r, found) ==
  IF Outcome[r] \in Refused THEN Outcome[r]
  ELSE IF ~found THEN "no_ledger_row"
  ELSE Outcome[r]

\* Mutant: a run always ends at the ceiling, capped or not.
nextWatermarkCeiling(current, newest, now) ==
  IF now - Settle <= current THEN None ELSE now - Settle

\* Mutant: no settling time.
nextWatermarkUnsettled(current, newest, now) ==
  LET candidate == IF newest # None THEN newest ELSE now
  IN IF candidate <= current THEN None ELSE candidate

\* Mutant: a run that decided no row leaves the watermark alone.
nextWatermarkIdle(current, newest, now) ==
  IF newest = None \/ newest <= current THEN None ELSE newest

\* Mutant: the floor is not compared with.
nextWatermarkUnguarded(current, newest, now) ==
  IF newest # None /\ newest < now - Settle THEN newest ELSE now - Settle

\* Where the watermark goes after a run, or None to leave it alone.
nextWatermark(current, newest, now) ==
  LET ceiling == now - Settle
      candidate == IF newest # None /\ newest < ceiling THEN newest ELSE ceiling
  IN IF candidate <= current THEN None ELSE candidate

-----------------------------------------------------------------------------
(***************************************************************************)
(* One run.                                                                *)
(***************************************************************************)
runReconcile(w, dry) ==
  /\ run[w].pc = "idle"
  /\ run' = [run EXCEPT ![w] =
       [pc |-> "paging", dry |-> dry, now |-> clock,
        floor |-> IF watermark = None THEN Since ELSE watermark,
        page |-> 1, batch |-> {}, short |-> FALSE,
        decisions |-> 0, newest |-> None, applied |-> 0, row |-> None]]
  /\ UNCHANGED <<world, failures, state, adjusted, history>>

\* One page; a short one is the last.
listSince(w) ==
  /\ run[w].pc = "paging"
  /\ LET page == Page(run[w].floor, run[w].page)
     IN run' = [run EXCEPT ![w] =
          [@ EXCEPT !.pc = "rows",
                    !.batch = {r \in page : Outcome[r] # "malformed"},
                    !.short = Cardinality(page) < PerPage]]
  /\ UNCHANGED <<world, failures, state, adjusted, history>>

\* The feed cannot be read: the run ends and writes nothing.
listSinceFails(w) ==
  /\ run[w].pc = "paging"
  /\ failures < MaxFailures
  /\ failures' = failures + 1
  /\ run' = [run EXCEPT ![w] = Idle]
  /\ UNCHANGED <<world, state, adjusted, history>>

\* The page is exhausted.
NextPage(w) ==
  /\ run[w].pc = "rows"
  /\ run[w].batch = {}
  /\ run' = [run EXCEPT ![w] =
       [@ EXCEPT !.pc = IF run[w].short THEN "advance" ELSE "paging",
                 !.page = IF run[w].short THEN run[w].page ELSE run[w].page + 1]]
  /\ UNCHANGED <<world, failures, state, adjusted, history>>

Unsettled(w, r) == createdAt[r] > run[w].now - Settle
Capped(w) == run[w].decisions >= MaxRows

\* A row too young, or one too many: the run stops early.
Truncate(w, r) ==
  /\ run[w].pc = "rows"
  /\ First(run[w].batch, r)
  /\ Unsettled(w, r) \/ Capped(w)
  /\ run' = [run EXCEPT ![w].pc = "advance"]
  /\ UNCHANGED <<world, failures, state, adjusted, history>>

\* The ledger row is read and the row decided; only a live run acts on it.
Decide(w, r) ==
  /\ run[w].pc = "rows"
  /\ First(run[w].batch, r)
  /\ ~Unsettled(w, r) /\ ~Capped(w)
  /\ LET outcome == decideAdjustment(r, needsLedgerLookup(r) /\ r \in ledger)
         acts == outcome = "adjust" /\ ~run[w].dry
     IN /\ run' = [run EXCEPT ![w] =
             [@ EXCEPT !.pc = IF acts THEN "apply" ELSE "rows",
                       !.row = IF acts THEN r ELSE None,
                       !.batch = run[w].batch \ {r},
                       !.decisions = run[w].decisions + 1,
                       !.newest = createdAt[r]]]
        /\ reported' = IF outcome = "no_ledger_row" /\ ~run[w].dry
                       THEN reported \cup {r} ELSE reported
  /\ examined' = IF run[w].dry THEN examined ELSE examined \cup {r}
  /\ UNCHANGED <<world, failures, state, adjusted, moved>>

\* Mutant: the money is moved whether or not the audit row is new.
insertAdjustmentUngated(w) ==
  /\ run[w].pc = "apply"
  /\ run' = [run EXCEPT ![w].pc = "move"]
  /\ adjusted' = adjusted \cup {run[w].row}
  /\ UNCHANGED <<world, failures, state, history>>

\* applyUsageAdjustment, first statement; the key is the gateway row's.
insertAdjustment(w) ==
  /\ run[w].pc = "apply"
  /\ LET r == run[w].row
     IN IF r \in adjusted
        THEN /\ run' = [run EXCEPT ![w] = [@ EXCEPT !.pc = "rows", !.row = None]]
             /\ UNCHANGED adjusted
        ELSE /\ run' = [run EXCEPT ![w].pc = "move"]
             /\ adjusted' = adjusted \cup {r}
  /\ UNCHANGED <<world, failures, state, history>>

\* Mutant: the batch is built and never sent.
moveMoneyUnsent(w) ==
  /\ run[w].pc = "move"
  /\ run' = [run EXCEPT ![w] = [@ EXCEPT !.pc = "rows", !.row = None]]
  /\ UNCHANGED <<world, failures, state, adjusted, history>>

\* applyUsageAdjustment, the money batch.
moveMoney(w) ==
  /\ run[w].pc = "move"
  /\ moved' = [moved EXCEPT ![run[w].row] = @ + 1]
  /\ run' = [run EXCEPT ![w] = [@ EXCEPT !.pc = "rows", !.row = None,
                                       !.applied = run[w].applied + 1]]
  /\ UNCHANGED <<world, failures, state, adjusted, examined, reported>>

\* The reverse check only reads; then, on a live run, the last write.
advanceReconcileState(w) ==
  /\ run[w].pc = "advance"
  /\ LET advance == nextWatermark(run[w].floor, run[w].newest, run[w].now)
     IN IF run[w].dry
        THEN UNCHANGED state
        ELSE /\ watermark' = IF advance = None THEN watermark ELSE advance
             /\ rowsAdjusted' = rowsAdjusted + run[w].applied
  /\ run' = [run EXCEPT ![w] = Idle]
  /\ UNCHANGED <<world, failures, adjusted, history>>

\* The invocation dies, or a statement rejects.
Crash(w) ==
  /\ run[w].pc # "idle"
  /\ failures < MaxFailures
  /\ failures' = failures + 1
  /\ run' = [run EXCEPT ![w] = Idle]
  /\ UNCHANGED <<world, state, adjusted, history>>

\* The steps of a run that was started.
Work(w) ==
  \/ listSince(w)
  \/ NextPage(w)
  \/ \E r \in Row : Truncate(w, r) \/ Decide(w, r)
  \/ insertAdjustment(w)
  \/ moveMoney(w)
  \/ advanceReconcileState(w)

Next ==
  \/ Tick
  \/ \E r \in Row : Request(r) \/ Appear(r) \/ Record(r)
  \/ \E w \in Run :
       \/ \E dry \in BOOLEAN : runReconcile(w, dry)
       \/ Work(w)
       \/ listSinceFails(w)
       \/ Crash(w)

Spec == Init /\ [][Next]_vars

\* Time passes, the feed catches up, and a run that was started goes on unless it
\* crashes.  Every cron tick is an invocation of its own that no dry run can keep
\* from starting, hence strong fairness for live runs (RECONCILE_CRON_LIVE).
FairSpec ==
  /\ Spec
  /\ WF_vars(Tick)
  /\ \A r \in Row : WF_vars(Appear(r))
  /\ \A w \in Run : SF_vars(runReconcile(w, FALSE)) /\ WF_vars(Work(w))

-----------------------------------------------------------------------------
(***************************************************************************)
(* Properties.                                                             *)
(***************************************************************************)
Busy == [pc: {"paging", "rows", "apply", "move", "advance"}, dry: BOOLEAN,
         now: Time, floor: 0..LastTime, page: Nat, batch: SUBSET Row,
         short: BOOLEAN, decisions: Nat, newest: Time \cup {None},
         applied: Nat, row: Row \cup {None}]

\* The type invariant: instants stay on the clock, rows are rows, and every run
\* is at a known await.
TypeOK ==
  /\ clock \in Time
  /\ createdAt \in [Row -> Time \cup {None}]
  /\ visible \subseteq Row
  /\ ledger \subseteq Row
  /\ failures \in 0..MaxFailures
  /\ watermark \in Time \cup {None}
  /\ rowsAdjusted \in Nat
  /\ adjusted \subseteq Row
  /\ run \in [Run -> {Idle} \cup Busy]
  /\ \A w \in Run : run[w].pc \in {"apply", "move"} => run[w].row \in Row
  /\ moved \in [Row -> Nat]
  /\ examined \subseteq Row
  /\ reported \subseteq Row

\* A row moves money at most once, and only under an audit row, however many runs
\* decide it, crash on it and decide it again (reconcile.ts, the idempotency key;
\* reconcile-run.ts: nothing "can ... charge one twice").
TruedUpOnce ==
  \A r \in Row : moved[r] <= IF r \in adjusted THEN 1 ELSE 0

\* A run that is about to move money holds an audit row whose money never moved,
\* and no other run holds it (store-d1.ts applyUsageAdjustment, meta.changes).
OneMover ==
  \A w \in Run : run[w].pc = "move" =>
    /\ run[w].row \in adjusted /\ run[w].row \in Row
    /\ moved[run[w].row] = 0
    /\ \A v \in Run \ {w} : run[v].pc = "move" => run[v].row # run[w].row

\* Rows behind the watermark are never read again.
Passed(r) == createdAt[r] # None /\ createdAt[r] <= watermark

\* No row slips behind the watermark unexamined: each one was readable, a live
\* run decided it, and if it needed a true-up the audit row exists or the run
\* reported that the ledger row was missing (reconcile-run.ts, "THE ORDER of
\* operations is the safety property"; reconcile.ts, SETTLE_MS).
NoRowLost ==
  \A r \in Row : Passed(r) /\ Outcome[r] # "malformed" =>
    /\ r \in examined
    /\ Outcome[r] = "adjust" => r \in adjusted \cup reported

\* Money that did not move is a run that is moving it or one that died doing so:
\* without failures no audit row is left without its money once no run is active.
AuditedIsMoved ==
  failures = 0 =>
    \A r \in adjusted : moved[r] = 1 \/ \E w \in Run : run[w].pc = "move" /\ run[w].row = r

\* Rule 2 of nextWatermark: the watermark "never moves BACKWARDS", and rule 1: it
\* never moves past now - SETTLE_MS.
WatermarkForward ==
  [][watermark' # watermark => watermark' > watermark /\ watermark' <= clock - Settle]_watermark

\* A capped run makes progress: every row is eventually behind the watermark, if
\* the clock leaves it the time to settle.
Drains ==
  \A r \in Row :
    (createdAt[r] # None /\ createdAt[r] + Settle <= LastTime) ~> Passed(r)
=============================================================================
