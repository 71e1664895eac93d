------------------------------ MODULE LongRun ------------------------------
(***************************************************************************)
(* One asynchronous job: startAsyncLongRun of routes/nonchat.ts, the       *)
(* workflow of routes/longrun-workflow.ts and the job row both write.      *)
(*                                                                         *)
(* The handler inserts the row, creates the workflow instance and answers; *)
(* the workflow's three steps are run by the Workflows runtime, which      *)
(* repeats a step that throws, or that died before its result was saved,   *)
(* up to the step's retry limit, and then throws to run's catch.  Jobs     *)
(* share nothing but the ledger, which Metering models, so one job is      *)
(* enough here; the price of the job is left out.                          *)
(***************************************************************************)
EXTENDS Integers, FiniteSets

CONSTANTS MaxCrashes   \* bound on how often the runtime loses the workflow's isolate

ASSUME LongRunAssumption == MaxCrashes \in Nat

VARIABLES
  door,      \* the handler: insert, start, read, write, or how it ended
  flow,      \* the workflow's step; none, complete or errored outside of one
  at,        \* where in the step, named by what comes next
  tries,     \* failed attempts of the current step
  crashes,   \* how often the isolate was lost
  row,       \* the job row: status, and result_json as null or the asset's URL
  saw,       \* per writer of the row: the result_json its SELECT returned
  asset,     \* whether invoke-model's asset was saved
  ledger,    \* whether the request has its usage row
  returned,  \* how often the provider answered with a result
  stuck      \* nobody is left to end the row

vars == <<door, flow, at, tries, crashes, row, saw, asset, ledger, returned, stuck>>
doorVars == <<door, stuck>>
flowVars == <<flow, at, tries>>
outcomeVars == <<asset, ledger, returned>>

Steps == {"invoke", "rehost", "finalize"}
Ended == {"complete", "errored"}
Writers == {"door", "flow"}

\* retries.limit of each step, and where its callback starts.
Limit == [invoke |-> 1, rehost |-> 2, finalize |-> 3]
First == [invoke |-> "call", rehost |-> "copy", finalize |-> "meter"]

Init ==
  /\ door = "insert"
  /\ flow = "none" /\ at = "none" /\ tries = 0 /\ crashes = 0
  /\ row = [status |-> "absent", result |-> "null"]
  /\ saw = [w \in Writers |-> "null"]
  /\ asset = FALSE /\ ledger = FALSE /\ returned = 0
  /\ stuck = FALSE

-----------------------------------------------------------------------------
(***************************************************************************)
(* updateAsyncJob: a SELECT and an UPDATE.  A column that is not given     *)
(* keeps what the SELECT returned.                                         *)
(***************************************************************************)
selectJob(who) == saw' = [saw EXCEPT ![who] = row.result] /\ UNCHANGED row

\* Mutant: every update keeps the stored result_json.
updateSucceededKept == row' = [status |-> "succeeded", result |-> saw["flow"]]

updateSucceeded == row' = [status |-> "succeeded", result |-> "url"]
updateFailed(who) == row' = [status |-> "failed", result |-> saw[who]]

-----------------------------------------------------------------------------
(***************************************************************************)
(* The handler.                                                            *)
(***************************************************************************)

createAsyncJob ==
  /\ door = "insert"
  /\ row' = [row EXCEPT !.status = "running"]
  /\ door' = "start"
  /\ UNCHANGED <<flowVars, crashes, saw, outcomeVars, stuck>>

\* The handler ends early: an insert, an upload of the reference image or an update
\* rejects (an UPDATE perhaps after it was applied), or its isolate dies.
DoorCut ==
  /\ door \in {"insert", "start", "read", "write"}
  /\ door' = "dead"
  /\ stuck' = (stuck \/ flow = "none")
  /\ UNCHANGED row \/ (door = "write" /\ updateFailed("door"))
  /\ UNCHANGED <<flowVars, crashes, saw, outcomeVars>>

\* LONGRUN.create: whether it answered, and whether the instance exists.
Create(answer, exists) ==
  /\ door = "start"
  /\ door' = IF answer = "ok" THEN "accepted" ELSE "read"
  /\ answer = "ok" => exists
  /\ IF exists
     THEN flow' = "invoke" /\ at' = First["invoke"] /\ UNCHANGED tries
     ELSE UNCHANGED flowVars
  /\ UNCHANGED <<crashes, row, saw, outcomeVars, stuck>>

\* The catch around create marks the row failed.
MarkRead ==
  /\ door = "read"
  /\ selectJob("door")
  /\ door' = "write"
  /\ UNCHANGED <<flowVars, crashes, outcomeVars, stuck>>

MarkWrite ==
  /\ door = "write"
  /\ updateFailed("door")
  /\ door' = "refused"
  /\ UNCHANGED <<flowVars, crashes, saw, outcomeVars, stuck>>

-----------------------------------------------------------------------------
(***************************************************************************)
(* The Workflows runtime: step results are saved, attempts are counted.    *)
(***************************************************************************)
\* Mutant: an error that leaves a step ends the instance and not the row.
ThrowUncaught == flow' = "errored" /\ at' = "none" /\ UNCHANGED tries

\* An error that leaves a step reaches run's catch.
Throw == flow' = "failJob" /\ at' = "read" /\ UNCHANGED tries

\* Mutant: the last attempt is not taken.
RetryShort ==
  IF tries + 1 < Limit[flow]
  THEN tries' = tries + 1 /\ at' = First[flow] /\ UNCHANGED flow
  ELSE Throw

\* Mutant: one attempt too many.
RetryOneMore ==
  IF tries <= Limit[flow]
  THEN tries' = tries + 1 /\ at' = First[flow] /\ UNCHANGED flow
  ELSE Throw

\* A failed attempt is repeated up to the limit.
Retry ==
  IF tries < Limit[flow]
  THEN tries' = tries + 1 /\ at' = First[flow] /\ UNCHANGED flow
  ELSE Throw

Enter(step) == flow' = step /\ at' = First[step] /\ tries' = 0

\* The isolate is lost: a step is attempted again, the catch of a step that threw for
\* good is run again.
Crash ==
  /\ flow \in Steps \cup {"failJob"} /\ crashes < MaxCrashes
  /\ crashes' = crashes + 1
  /\ IF flow \in Steps THEN Retry ELSE at' = "read" /\ UNCHANGED <<flow, tries>>
  /\ UNCHANGED <<door, row, saw, outcomeVars, stuck>>

-----------------------------------------------------------------------------
(***************************************************************************)
(* invoke-model, rehost-asset, finalize and the catch.                     *)
(***************************************************************************)

\* No gateway, a missing staged image, a timeout, or a provider that refused or
\* reported failure: an ordinary error.
CallFails ==
  /\ flow = "invoke" /\ at = "call"
  /\ Retry
  /\ UNCHANGED <<doorVars, crashes, row, saw, outcomeVars>>

CallReturns ==
  /\ flow = "invoke" /\ at = "call"
  /\ returned' = returned + 1
  /\ at' = "store"
  /\ UNCHANGED <<doorVars, flow, tries, crashes, row, saw, asset, ledger>>

\* Mutant: a lost asset is an ordinary error.
StoreFailsRetried ==
  /\ flow = "invoke" /\ at = "store"
  /\ Retry
  /\ UNCHANGED <<doorVars, crashes, row, saw, outcomeVars>>

\* No asset in the answer, or it cannot be stored: NonRetryableError.
StoreFails ==
  /\ flow = "invoke" /\ at = "store"
  /\ Throw
  /\ UNCHANGED <<doorVars, crashes, row, saw, outcomeVars>>

StoreAsset ==
  /\ flow = "invoke" /\ at = "store"
  /\ asset' = TRUE
  /\ Enter("rehost")
  /\ UNCHANGED <<doorVars, crashes, row, saw, ledger, returned>>

\* rehostMusic and rehostImage catch everything and fall back to the provider's URL.
Rehost ==
  /\ flow = "rehost" /\ at = "copy"
  /\ Enter("finalize")
  /\ UNCHANGED <<doorVars, crashes, row, saw, outcomeVars>>

\* recordUsage inserts at most one row per request id.
meterJob ==
  /\ flow = "finalize" /\ at = "meter"
  /\ ledger' = TRUE
  /\ at' = "read"
  /\ UNCHANGED <<doorVars, flow, tries, crashes, row, saw, asset, returned>>

\* It may reject before or after its row is in.
meterJobFails ==
  /\ flow = "finalize" /\ at = "meter"
  /\ ledger' \in {ledger, TRUE}
  /\ Retry
  /\ UNCHANGED <<doorVars, crashes, row, saw, asset, returned>>

FinalizeRead ==
  /\ flow = "finalize" /\ at = "read"
  /\ selectJob("flow")
  /\ at' = "write"
  /\ UNCHANGED <<doorVars, flow, tries, crashes, outcomeVars>>

FinalizeWrite ==
  /\ flow = "finalize" /\ at = "write"
  /\ updateSucceeded
  /\ at' = "save"
  /\ UNCHANGED <<doorVars, flow, tries, crashes, saw, outcomeVars>>

\* Either statement rejects; a rejected UPDATE may have been applied.
FinalizeFails ==
  /\ flow = "finalize" /\ at \in {"read", "write"}
  /\ UNCHANGED row \/ (at = "write" /\ updateSucceeded)
  /\ Retry
  /\ UNCHANGED <<doorVars, crashes, saw, outcomeVars>>

\* The runtime saves the step and the instance completes.
Complete ==
  /\ flow = "finalize" /\ at = "save"
  /\ flow' = "complete" /\ at' = "none"
  /\ UNCHANGED <<doorVars, tries, crashes, row, saw, outcomeVars>>

failJobRead ==
  /\ flow = "failJob" /\ at = "read"
  /\ selectJob("flow")
  /\ at' = "write"
  /\ UNCHANGED <<doorVars, flow, tries, crashes, outcomeVars>>

failJob ==
  /\ flow = "failJob" /\ at = "write"
  /\ updateFailed("flow")
  /\ flow' = "errored" /\ at' = "none"
  /\ UNCHANGED <<doorVars, tries, crashes, saw, outcomeVars>>

\* "D1 down: nothing else to do"
failJobFails ==
  /\ flow = "failJob"
  /\ UNCHANGED row \/ (at = "write" /\ updateFailed("flow"))
  /\ flow' = "errored" /\ at' = "none"
  /\ stuck' = TRUE
  /\ UNCHANGED <<door, tries, crashes, saw, outcomeVars>>

-----------------------------------------------------------------------------
Handler ==
  \/ createAsyncJob
  \/ \E answer \in {"ok", "failed"}, exists \in BOOLEAN : Create(answer, exists)
  \/ MarkRead
  \/ MarkWrite

Workflow ==
  \/ CallFails \/ CallReturns \/ StoreFails \/ StoreAsset
  \/ Rehost
  \/ meterJob \/ meterJobFails \/ FinalizeRead \/ FinalizeWrite \/ FinalizeFails \/ Complete
  \/ failJobRead \/ failJob \/ failJobFails

Next == Handler \/ DoorCut \/ Workflow \/ Crash

Spec == Init /\ [][Next]_vars

\* The runtime goes on with a handler and with an instance.
FairSpec == Spec /\ WF_vars(Handler \/ DoorCut) /\ WF_vars(Workflow)

-----------------------------------------------------------------------------
(***************************************************************************)
(* Properties.                                                             *)
(***************************************************************************)

\* The job row, the handler and the workflow keep their states.
TypeOK ==
  /\ door \in {"insert", "start", "read", "write", "accepted", "refused", "dead"}
  /\ flow \in Steps \cup Ended \cup {"none", "failJob"}
  /\ at \in {"none", "call", "store", "copy", "meter", "read", "write", "save"}
  /\ tries \in 0..3 /\ crashes \in 0..MaxCrashes
  /\ row \in [status : {"absent", "running", "succeeded", "failed"}, result : {"null", "url"}]
  /\ saw \in [Writers -> {"null", "url"}]
  /\ asset \in BOOLEAN /\ ledger \in BOOLEAN /\ stuck \in BOOLEAN
  /\ returned \in Nat

\* A provider call that returned is not paid for again: only a lost isolate makes the
\* step call the provider a second time (longrun-workflow.ts: a failure past the call
\* "must be fatal or the retry would run the provider call a second time").
ProviderOnce == returned <= 1 + crashes

\* The client is charged only for an asset, and a row that says succeeded is charged
\* and has the asset's URL, whatever the handler writes meanwhile
\* (longrun-video-asset.test.ts: "charged only when there is a video to hand back").
ChargedForAsset ==
  /\ ledger => asset
  /\ row.status = "succeeded" => ledger /\ row.result = "url"

\* A job that was answered 202 and completed reads succeeded; one that was charged and
\* still reads failed used up every attempt of finalize (longrun-workflow.ts run).
\* Nothing of the kind holds once LONGRUN.create failed for an instance that exists:
\* the handler's catch then writes over what the workflow wrote.
VerdictOfRow ==
  door = "accepted" =>
    /\ flow = "complete" => row.status = "succeeded"
    /\ ledger /\ row.status = "failed" => tries = Limit["finalize"]

\* A client that polls sees the job end, unless the handler died before an instance
\* existed or failJob found the database down (longrun-workflow.ts: the jobs that
\* stayed running are why this is a workflow).
JobEnds == row.status = "running" ~> (row.status # "running" \/ stuck)
=============================================================================
