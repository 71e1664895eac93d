--------------------------- MODULE LongRunProofs ---------------------------
(***************************************************************************)
(* Proofs about LongRun, for any number of lost isolates.                  *)
(***************************************************************************)
EXTENDS LongRun, TLAPS

\* Before the provider has answered, each answer it gave was lost to a crash.
NotYetReturned ==
  flow = "none" \/ (flow = "invoke" /\ at = "call") => returned <= crashes

\* Behind invoke-model there is an asset, behind meterJob a usage row, until a step
\* gives up.
StepsInOrder ==
  /\ flow \in {"rehost", "finalize", "complete"} => asset
  /\ flow = "finalize" /\ at # "meter" => ledger

\* The callback of a step is at one of its own points.
Placed ==
  /\ flow = "invoke" => at \in {"call", "store"}
  /\ flow = "finalize" => at \in {"meter", "read", "write", "save"}

\* No instance exists before LONGRUN.create.
NotYetStarted == door \in {"insert", "start"} => flow = "none"

IInv ==
  TypeOK /\ NotYetStarted /\ Placed /\ NotYetReturned /\ ProviderOnce /\ StepsInOrder /\ ChargedForAsset

\* What a failed attempt leaves: the same step from its start, or the catch.
LEMMA RetryPlaces ==
  ASSUME TypeOK, flow \in Steps, Retry
  PROVE /\ tries' \in 0..3
        /\ \/ flow' = flow /\ at' = First[flow]
           \/ flow' = "failJob" /\ at' = "read"
BY DEF TypeOK, Steps, Retry, Throw, Limit, First

\* The initial state satisfies the inductive invariant.
LEMMA InitIInv == Init => IInv
<1> SUFFICES ASSUME Init PROVE IInv
  OBVIOUS
<1>1. crashes \in 0..MaxCrashes /\ tries \in 0..3 /\ returned \in Nat
  BY LongRunAssumption DEF Init
<1>2. row \in [status : {"absent", "running", "succeeded", "failed"}, result : {"null", "url"}]
  BY DEF Init
<1>3. saw \in [Writers -> {"null", "url"}]
  BY DEF Init
<1>4. TypeOK
  BY <1>1, <1>2, <1>3, Zenon DEF Init, TypeOK, Ended
<1>5. NotYetStarted /\ Placed /\ StepsInOrder /\ ChargedForAsset
  BY DEF Init, NotYetStarted, Placed, StepsInOrder, ChargedForAsset
<1>6. NotYetReturned /\ ProviderOnce
  BY DEF Init, NotYetReturned, ProviderOnce
<1> QED
  BY <1>4, <1>5, <1>6 DEF IInv

\* The handler's steps touch the row, and start the workflow once.
LEMMA HandlerIInv ==
  ASSUME IInv, Handler \/ DoorCut
  PROVE IInv'
<1> USE LongRunAssumption DEF IInv, TypeOK, NotYetStarted, Placed, NotYetReturned, ProviderOnce,
        StepsInOrder, ChargedForAsset, Steps, Ended, Writers, flowVars, outcomeVars
<1>1. CASE createAsyncJob
  BY <1>1 DEF createAsyncJob
<1>2. ASSUME NEW answer \in {"ok", "failed"}, NEW exists \in BOOLEAN, Create(answer, exists)
      PROVE IInv'
  <2>1. CASE exists
    BY <1>2, <2>1 DEF Create, First
  <2>2. CASE ~exists
    BY <1>2, <2>2 DEF Create
  <2> QED
    BY <2>1, <2>2
<1>3. CASE MarkRead
  BY <1>3 DEF MarkRead, selectJob
<1>4. CASE MarkWrite
  BY <1>4 DEF MarkWrite, updateFailed
<1>5. CASE DoorCut
  BY <1>5 DEF DoorCut, updateFailed
<1> QED
  BY <1>1, <1>2, <1>3, <1>4, <1>5 DEF Handler

\* The workflow's steps, their failures and its crashes.
LEMMA WorkflowIInv ==
  ASSUME IInv, Workflow \/ Crash
  PROVE IInv'
<1> USE LongRunAssumption DEF IInv, TypeOK, NotYetStarted, Placed, NotYetReturned, ProviderOnce,
        StepsInOrder, ChargedForAsset, Steps, Ended, Writers, doorVars, outcomeVars
<1>1. CASE CallFails
  BY <1>1, RetryPlaces DEF CallFails, First
<1>2. CASE CallReturns
  BY <1>2 DEF CallReturns
<1>3. CASE StoreFails
  BY <1>3 DEF StoreFails, Throw
<1>4. CASE StoreAsset
  BY <1>4 DEF StoreAsset, Enter, First
<1>5. CASE Rehost
  BY <1>5 DEF Rehost, Enter, First
<1>6. CASE meterJob
  BY <1>6 DEF meterJob
<1>7. CASE meterJobFails
  <2>1. CASE ledger' = ledger
    BY <1>7, <2>1, RetryPlaces DEF meterJobFails, First
  <2>2. CASE ledger'
    BY <1>7, <2>2, RetryPlaces DEF meterJobFails, First
  <2> QED
    BY <1>7, <2>1, <2>2 DEF meterJobFails
<1>8. CASE FinalizeRead
  BY <1>8 DEF FinalizeRead, selectJob
<1>9. CASE FinalizeWrite
  BY <1>9 DEF FinalizeWrite, updateSucceeded
<1>10. CASE FinalizeFails
  BY <1>10, RetryPlaces DEF FinalizeFails, updateSucceeded, First
<1>11. CASE Complete
  BY <1>11 DEF Complete
<1>12. CASE failJobRead
  BY <1>12 DEF failJobRead, selectJob
<1>13. CASE failJob
  BY <1>13 DEF failJob, updateFailed
<1>14. CASE failJobFails
  BY <1>14 DEF failJobFails, updateFailed
<1>15. CASE Crash /\ flow \in Steps
  BY <1>15, RetryPlaces DEF Crash, First
<1>16. CASE Crash /\ flow \notin Steps
  BY <1>16 DEF Crash
<1> QED
  BY <1>1, <1>2, <1>3, <1>4, <1>5, <1>6, <1>7, <1>8, <1>9, <1>10, <1>11, <1>12, <1>13, <1>14,
     <1>15, <1>16 DEF Workflow

\* The inductive invariant holds in every reachable state.
LEMMA Invariance == Spec => []IInv
<1>1. IInv /\ UNCHANGED vars => IInv'
  BY DEF vars, IInv, TypeOK, NotYetStarted, Placed, NotYetReturned, ProviderOnce, StepsInOrder,
     ChargedForAsset
<1>2. IInv /\ [Next]_vars => IInv'
  BY <1>1, HandlerIInv, WorkflowIInv DEF Next
<1> QED
  BY InitIInv, <1>2, PTL DEF Spec

\* Handler, workflow and row keep their states, however often the runtime loses the
\* isolate (nonchat.ts startAsyncLongRun, longrun-workflow.ts run).
THEOREM TypeCorrect == Spec => []TypeOK
<1>1. IInv => TypeOK
  BY DEF IInv
<1> QED
  BY Invariance, <1>1, PTL

\* A provider call that returned is repeated only for a lost isolate, never by the
\* retry of a failure behind it (longrun-workflow.ts invoke-model).
THEOREM ProviderCalledOnce == Spec => []ProviderOnce
<1>1. IInv => ProviderOnce
  BY DEF IInv
<1> QED
  BY Invariance, <1>1, PTL

\* Retries, crashes and the handler's own write of the row included, no job is charged
\* without an asset and none reads succeeded uncharged (longrun-workflow.ts finalize).
THEOREM ChargeNeedsAsset == Spec => []ChargedForAsset
<1>1. IInv => ChargedForAsset
  BY DEF IInv
<1> QED
  BY Invariance, <1>1, PTL

-----------------------------------------------------------------------------
(***************************************************************************)
(* What the row says of an accepted job.                                   *)
(***************************************************************************)
\* A usage row is written by finalize, which gives up after its last attempt.
GivenUp ==
  /\ flow \in {"none", "invoke", "rehost"} => ~ ledger
  /\ flow \in {"failJob", "errored"} /\ ledger => tries = Limit["finalize"]

\* Until the handler's catch writes it, only the workflow ends the row.
RowOfFlow ==
  /\ door \in {"insert", "start"} => row.status \in {"absent", "running"}
  /\ door = "accepted" =>
       /\ row.status = "failed" => flow = "errored"
       /\ flow = "complete" \/ (flow = "finalize" /\ at = "save") => row.status = "succeeded"

\* A failed attempt of a step that is thrown was its last one.
LEMMA RetryGivesUp ==
  ASSUME TypeOK, flow \in Steps, Retry
  PROVE  \/ flow' = flow /\ at' = First[flow]
         \/ flow' = "failJob" /\ at' = "read" /\ tries' = tries /\ tries >= Limit[flow]
BY DEF TypeOK, Steps, Retry, Throw, Limit, First

LEMMA HandlerRow ==
  ASSUME IInv, GivenUp, RowOfFlow, Handler \/ DoorCut
  PROVE  GivenUp' /\ RowOfFlow'
<1> USE DEF IInv, TypeOK, NotYetStarted, GivenUp, RowOfFlow, flowVars, outcomeVars
<1>1. CASE createAsyncJob  BY <1>1 DEF createAsyncJob
<1>2. ASSUME NEW answer \in {"ok", "failed"}, NEW exists \in BOOLEAN, Create(answer, exists)
      PROVE  GivenUp' /\ RowOfFlow'
  <2>1. CASE exists  BY <1>2, <2>1 DEF Create, First
  <2>2. CASE ~exists  BY <1>2, <2>2 DEF Create
  <2> QED  BY <2>1, <2>2
<1>3. CASE MarkRead  BY <1>3 DEF MarkRead, selectJob
<1>4. CASE MarkWrite  BY <1>4 DEF MarkWrite, updateFailed
<1>5. CASE DoorCut  BY <1>5 DEF DoorCut, updateFailed
<1> QED  BY <1>1, <1>2, <1>3, <1>4, <1>5 DEF Handler

LEMMA WorkflowRow ==
  ASSUME IInv, GivenUp, RowOfFlow, Workflow \/ Crash
  PROVE  GivenUp' /\ RowOfFlow'
<1> USE DEF IInv, TypeOK, NotYetStarted, Placed, StepsInOrder, GivenUp, RowOfFlow, Steps, doorVars,
        outcomeVars
<1>1. CASE CallFails  BY <1>1, RetryGivesUp DEF CallFails, First
<1>2. CASE CallReturns  BY <1>2 DEF CallReturns
<1>3. CASE StoreFails  BY <1>3 DEF StoreFails, Throw
<1>4. CASE StoreAsset  BY <1>4 DEF StoreAsset, Enter, First
<1>5. CASE Rehost  BY <1>5 DEF Rehost, Enter, First
<1>6. CASE meterJob  BY <1>6 DEF meterJob
<1>7. CASE meterJobFails  BY <1>7, RetryGivesUp DEF meterJobFails, First, Limit
<1>8. CASE FinalizeRead  BY <1>8 DEF FinalizeRead, selectJob
<1>9. CASE FinalizeWrite  BY <1>9 DEF FinalizeWrite, updateSucceeded
<1>10. CASE FinalizeFails
  BY <1>10, RetryGivesUp DEF FinalizeFails, updateSucceeded, First, Limit
<1>11. CASE Complete  BY <1>11 DEF Complete
<1>12. CASE failJobRead  BY <1>12 DEF failJobRead, selectJob
<1>13. CASE failJob  BY <1>13 DEF failJob, updateFailed
<1>14. CASE failJobFails  BY <1>14 DEF failJobFails, updateFailed
<1>15. CASE Crash /\ flow \in Steps  BY <1>15, RetryGivesUp DEF Crash, First, Limit
<1>16. CASE Crash /\ flow \notin Steps  BY <1>16 DEF Crash
<1> QED
  BY <1>1, <1>2, <1>3, <1>4, <1>5, <1>6, <1>7, <1>8, <1>9, <1>10, <1>11, <1>12, <1>13, <1>14,
     <1>15, <1>16 DEF Workflow

\* A job that was answered 202 and completed reads succeeded, and one that was charged
\* and reads failed used up every attempt of finalize (VerdictOfRow).
THEOREM RowTellsVerdict == Spec => []VerdictOfRow
<1>1. Init => GivenUp /\ RowOfFlow  BY DEF Init, GivenUp, RowOfFlow
<1>2. IInv /\ GivenUp /\ RowOfFlow /\ [Next]_vars => GivenUp' /\ RowOfFlow'
  <2>1. GivenUp /\ RowOfFlow /\ UNCHANGED vars => GivenUp' /\ RowOfFlow'
    BY DEF vars, GivenUp, RowOfFlow
  <2> QED  BY <2>1, HandlerRow, WorkflowRow DEF Next
<1>3. IInv /\ GivenUp /\ RowOfFlow => VerdictOfRow
  BY DEF GivenUp, RowOfFlow, VerdictOfRow
<1> QED  BY Invariance, <1>1, <1>2, <1>3, PTL DEF Spec
=============================================================================
