-------------------------------- MODULE Doors --------------------------------
(***************************************************************************)
(* The inference doors: routes/chat.ts and routes/nonchat.ts from the      *)
(* parsed body to the answer, over the runners of upstream.ts and          *)
(* nonchat-upstream.ts, while an operator edits the plan, the prices and   *)
(* the credit (routes/admin.ts).                                           *)
(*                                                                         *)
(* One step per await.  recordUsage is one step here (its statements are   *)
(* in Metering); authentication and the rate limiter are in Access; what   *)
(* follows an answer "stream" is in Stream, and "accepted" in LongRun.     *)
(***************************************************************************)
EXTENDS Integers, Balance, Meter

CONSTANTS
  Request,   \* inference requests of one account
  Catalog,   \* the models
  PlanRow,   \* rows an operator may write for the account's plan
  Credit,    \* the account's credit at first
  Rates,     \* rates an operator may set
  Report,    \* the usage a chat provider may report
  Input,     \* what clients send
  Deployment,\* what may be configured: the AI binding, the gateway with its
             \* credential, the bucket for media with its signing secret
  MaxEdits   \* bound on operator edits

\* The modalities with an HTTP door; voice has a WebSocket (SttSession).
Modality == {"chat", "image", "tts", "stt", "video", "music"}
Route == {"gateway", "agreement", "binding", "native", "rest", "batch"}
\* `known` when the model is in the catalog, `whole` when the body has what its door
\* needs (a prompt, an input, audio, an image for Hailuo), `chars` of text to speak.
InputShape == [door : Modality, model : Catalog, known : BOOLEAN, whole : BOOLEAN,
               stream : BOOLEAN, async : BOOLEAN, chars : Nat]
RateOrNone == {Unusable} \cup Nat

ASSUME DoorsAssumption ==
  /\ Catalog \subseteq [modality : Modality \cup {"voice"}, tier : KNOWN_TIERS,
                        streaming : BOOLEAN, route : Route, uploads : BOOLEAN,
                        price : [input : RateOrNone, output : RateOrNone],
                        unitPrice : RateOrNone, unit : {"request", "k_characters", "none"}]
  /\ \A m \in Catalog : m.modality \notin {"chat", "voice"} => m.route \in {"binding", "rest", "batch"}
  /\ \A p \in PlanRow : p.monthly_included \in Int
  /\ Report \subseteq [usageMetadata : [input : RateOrNone, output : RateOrNone],
                       usage : [input : RateOrNone, output : RateOrNone, reasoning : Nat]]
  /\ \A in \in Input : in \in InputShape /\ (in.stream => in.door = "chat")
                      /\ (in.async => in.door \in {"image", "tts", "video", "music"})
  /\ Deployment \subseteq SUBSET {"ai", "plane", "media"}
  /\ Credit \in Nat /\ Rates \subseteq Nat /\ MaxEdits \in Nat

VARIABLES
  has,             \* what is configured
  plan,            \* the plan's row
  override,        \* model_prices
  credit, spent,   \* accounts
  allowanceSpent,  \* usage_periods.allowance_spent_micro_usd
  edits,
  req,             \* requests: where they are, and what they read
  row,             \* usage_events by request id
  billed           \* history: requests the provider did the work of

money == <<credit, spent, allowanceSpent>>
vars == <<has, plan, override, money, edits, req, row, billed>>

NoRow == [basis |-> "none", micro_usd |-> 0, allowance |-> 0, credit |-> 0]
Unpriced == [NoRow EXCEPT !.basis = "unpriced"]

Blank == [at |-> "idle", in |-> <<>>, plan |-> <<>>, credit |-> 0, spent |-> 0,
          price |-> NoPrice, unit |-> Unusable, left |-> 0, usage |-> NoUsage,
          body |-> "none", event |-> NoRow, answer |-> "none", recorded |-> FALSE]

Init ==
  /\ has \in Deployment
  /\ plan \in PlanRow
  /\ override = [m \in Catalog |-> NoOverride]
  /\ credit = Credit /\ spent = 0 /\ allowanceSpent = 0 /\ edits = 0
  /\ req = [r \in Request |-> Blank]
  /\ row = [r \in Request |-> NoRow]
  /\ billed = {}

-----------------------------------------------------------------------------
(***************************************************************************)
(* The operator.                                                           *)
(***************************************************************************)
Edit == edits < MaxEdits /\ edits' = edits + 1

\* Refused unless planFromRow takes the row and a known tier is in it.
handleUpsertPlan(p) ==
  /\ Edit
  /\ planFromRow(p) /\ parseTiers(p.allowed_tiers) # {}
  /\ plan' = p
  /\ UNCHANGED <<has, override, money, req, row, billed>>

\* Token rates, a unit rate, or both; what is not sent is written 0 and NULL.
handleSetModelPrice(m, hasToken, hasUnit, rate) ==
  /\ Edit
  /\ hasToken \/ hasUnit
  /\ override' = [override EXCEPT ![m] =
       [set |-> TRUE, input |-> IF hasToken THEN rate ELSE 0,
        output |-> IF hasToken THEN rate ELSE 0, unit |-> IF hasUnit THEN rate ELSE Unusable]]
  /\ UNCHANGED <<has, plan, money, req, row, billed>>

handleGrantCredit(n) ==
  /\ Edit
  /\ credit' = credit + n
  /\ UNCHANGED <<has, plan, override, spent, allowanceSpent, req, row, billed>>

-----------------------------------------------------------------------------
(***************************************************************************)
(* The gates.                                                              *)
(***************************************************************************)
Chat(r) == req[r].in.door = "chat"
Become(r, fields) == req' = [req EXCEPT ![r] = fields]
Answer(r, code) == Become(r, [req[r] EXCEPT !.at = "answered", !.answer = code])

\* chat refuses a body it cannot use before it reads anything.
invalidRequest(r, in) ==
  /\ req[r].at = "idle"
  /\ in.door = "chat" /\ ~ in.whole
  /\ Become(r, [Blank EXCEPT !.at = "answered", !.in = in, !.answer = "invalid_request"])
  /\ UNCHANGED <<has, plan, override, money, edits, row, billed>>

\* The account's row is read once, here, and gates and headers use this copy.
requireCaller(r, in) ==
  /\ req[r].at = "idle"
  /\ in.door = "chat" => in.whole
  /\ Become(r, [Blank EXCEPT !.at = "plan", !.in = in, !.plan = plan,
                             !.credit = credit, !.spent = spent])
  /\ UNCHANGED <<has, plan, override, money, edits, row, billed>>

\* chat uses the row authentication read; the other doors read the plan again.
PlanOf(r) == IF Chat(r) THEN req[r].plan ELSE plan

RateLimited(r) ==
  /\ req[r].at = "plan" /\ planFromRow(PlanOf(r))
  /\ Answer(r, "rate_limited")
  /\ UNCHANGED <<has, plan, override, money, edits, row, billed>>

\* What the doors ask of plan and model, in their order.
gateModel(p, in) ==
  IF ~ planFromRow(p) THEN "unavailable"
  ELSE IF ~ in.known THEN "model_not_found"
  ELSE IF in.model.modality # in.door
  THEN IF in.door = "chat" THEN "model_unsupported" ELSE "invalid_request"
  ELSE IF ~ entitlesTier(p, in.model.tier) THEN "model_not_entitled"
  ELSE IF in.door = "chat" /\ in.stream /\ ~ in.model.streaming THEN "invalid_request"
  ELSE "pass"

gatePlan(r) ==
  /\ req[r].at = "plan"
  /\ LET gate == gateModel(PlanOf(r), req[r].in)
     IN IF gate = "pass" THEN Become(r, [req[r] EXCEPT !.at = "price", !.plan = PlanOf(r)])
                         ELSE Answer(r, gate)
  /\ UNCHANGED <<has, plan, override, money, edits, row, billed>>

\* getModelPrice; the rate found here is the one charged.
gatePrice(r) ==
  /\ req[r].at = "price"
  /\ LET m     == req[r].in.model
         price == resolvePrice(m, override[m])
         unit  == resolveUnitPrice(m, override[m])
     IN IF ~ (IF Chat(r) THEN Usable(price) ELSE unit >= 0) THEN Answer(r, "model_unpriced")
        ELSE IF "plane" \notin has THEN Answer(r, "unavailable")
        ELSE Become(r, [req[r] EXCEPT !.at = "balance", !.price = price, !.unit = unit])
  /\ UNCHANGED <<has, plan, override, money, edits, row, billed>>

Remaining(r) ==
  remainingAllowanceMicroUsd(req[r].plan.monthly_included, allowanceSpent)
    + AtLeastZero(req[r].credit - req[r].spent)

\* Mutant: the unit rate is not compared with what is left.
CoversUnitAlways(r) == TRUE
CoversUnit(r) == req[r].unit = 0 \/ Remaining(r) >= req[r].unit

\* getPeriod; what passes goes upstream, or to the long-run workflow.  The other doors
\* look at their bodies only now, and produceVideo at what it needs for an upload.
gateBalance(r) ==
  /\ req[r].at = "balance"
  /\ LET pools == decideBalance(req[r].credit, req[r].spent, req[r].plan.monthly_included,
                                allowanceSpent)
     IN IF pools = "indeterminate" THEN Answer(r, "unavailable")
        ELSE IF pools = "exhausted" \/ (~ Chat(r) /\ ~ CoversUnit(r))
        THEN Answer(r, "quota_exhausted")
        ELSE IF ~ req[r].in.whole
        THEN Answer(r, "invalid_request")
        ELSE IF req[r].in.async
        THEN Answer(r, "accepted")
        ELSE IF req[r].in.model.uploads /\ "media" \notin has
        THEN Answer(r, "unavailable")
        ELSE Become(r, [req[r] EXCEPT !.at = "run", !.left = Remaining(r)])
  /\ UNCHANGED <<has, plan, override, money, edits, row, billed>>

-----------------------------------------------------------------------------
(***************************************************************************)
(* The runners.  What the wire does is the environment's choice:           *)
(*   late     nothing within the timeout                                   *)
(*   broken   the connection fails                                         *)
(*   status   an error status, or a call that throws                       *)
(*   agree    403, the model's agreement has to be submitted first         *)
(*   slow     headers in time, the body after the timeout                  *)
(*   garbled  200 with a body that does not parse, or no body              *)
(*   answer   200 with a body                                              *)
(***************************************************************************)
Wire == {"late", "broken", "status", "agree", "slow", "garbled", "answer"}
Worked == {"slow", "garbled", "answer"}  \* the provider did the work, and bills it

\* upstream.ts: the timer runs until the body is parsed; a late body is unparseable.
fetchOnce(stream, w) ==
  CASE w = "late"   -> "timeout"
    [] w = "slow"   -> IF stream THEN "stream" ELSE "upstream_error"
    [] w = "answer" -> IF stream THEN "stream" ELSE "ok"
    [] OTHER        -> "upstream_error"

\* A native stream is opened before the provider is called.
runChatBinding(native, stream, w) ==
  IF "ai" \notin has THEN "upstream_error"
  ELSE IF native /\ stream THEN "stream"
  ELSE CASE w \in {"late", "slow"} -> "timeout"
         [] w = "garbled"          -> IF stream THEN "upstream_error" ELSE "ok"
         [] w = "answer"           -> IF stream THEN "stream" ELSE "ok"
         [] OTHER                  -> "upstream_error"

\* nonchat-upstream.ts: the REST timer stops at the headers.
runViaRest(w) ==
  CASE w = "late"                          -> "timeout"
    [] w \in {"broken", "status", "agree"} -> "upstream_error"
    [] OTHER                               -> "ok"

runViaBinding(w) ==
  IF "ai" \notin has THEN "unavailable"
  ELSE CASE w \in {"late", "slow"}              -> "timeout"
         [] w \in {"broken", "status", "agree"} -> "upstream_error"
         [] OTHER                               -> "ok"

\* runDeepgramBatchStt calls the binding itself, with no timeout.
runDeepgramBatchStt(w) ==
  IF "ai" \notin has THEN "unavailable"
  ELSE IF w \in {"broken", "status", "agree"} THEN "upstream_error" ELSE "ok"

\* Without the binding nobody is called.
Called(r) == "ai" \in has \/ req[r].in.model.route \notin {"binding", "native", "batch"}

Outcome(r, w) ==
  LET in == req[r].in
  IN IF in.model.route = "rest" THEN runViaRest(w)
     ELSE IF in.model.route = "batch" THEN runDeepgramBatchStt(w)
     ELSE IF ~ Chat(r) THEN runViaBinding(w)
     ELSE IF in.model.route \in {"binding", "native"}
     THEN runChatBinding(in.model.route = "native", in.stream, w)
     ELSE fetchOnce(in.stream, w)

-----------------------------------------------------------------------------
(***************************************************************************)
(* After the runner.  Then(r, fields) leaves the request with its event    *)
(* and the answer it will give.                                            *)
(***************************************************************************)
Then(r, at, event, answer) ==
  Become(r, [req[r] EXCEPT !.at = at, !.event = event, !.answer = answer])

\* A response without usage, or a rate that is not usable, is an unpriced row.  Only
\* a priced event waits for the split's read.
meterChat(r, usage) ==
  LET m == meterResponse(usage, req[r].price)
  IN Become(r, [req[r] EXCEPT
       !.at = IF m.metered /\ m.micro_usd > 0 THEN "split" ELSE "record",
       !.event = IF m.metered THEN [NoRow EXCEPT !.basis = "measured", !.micro_usd = m.micro_usd]
                              ELSE Unpriced,
       !.usage = usage, !.answer = "ok"])

\* Mutant: a timeout leaves no row.
chatOutcomeTimeoutUnrecorded(r, outcome, body, usage) ==
  CASE outcome = "timeout"        -> Answer(r, "upstream_timeout")
    [] outcome = "upstream_error" -> Answer(r, "upstream_error")
    [] outcome = "stream"         -> Answer(r, "stream")
    [] OTHER                      -> IF body = "empty" THEN Answer(r, "upstream_error")
                                     ELSE meterChat(r, usage)

\* chat: a timeout leaves an unpriced row, an upstream error no row; nor does a body
\* with no text.
chatOutcome(r, outcome, body, usage) ==
  CASE outcome = "timeout"        -> Then(r, "record", Unpriced, "upstream_timeout")
    [] outcome = "upstream_error" -> Answer(r, "upstream_error")
    [] outcome = "stream"         -> Answer(r, "stream")
    [] OTHER                      -> IF body = "empty" THEN Answer(r, "upstream_error")
                                     ELSE meterChat(r, usage)

\* What the other doors make of a body: failed (the provider says so), empty, inline
\* (the asset itself) or url.
Body == {"failed", "empty", "inline", "url"}
providerStateFailed(body) == body = "failed"
extractImageAsset(body) == body \in {"inline", "url"}
extractAudioBase64(body) == body = "inline"
extractTranscript(body) == body = "inline"
extractVideoAsset(body) == ~ providerStateFailed(body) /\ body \in {"inline", "url"}
extractMusicAsset(body) == ~ providerStateFailed(body) /\ body \in {"inline", "url"}

extractAsset(door, body) ==
  CASE door = "image" -> extractImageAsset(body)
    [] door = "tts"   -> extractAudioBase64(body)
    [] door = "stt"   -> extractTranscript(body)
    [] door = "video" -> extractVideoAsset(body)
    [] OTHER          -> extractMusicAsset(body)

billableUnits(r) ==
  IF req[r].in.model.unit = "k_characters" THEN kCharacters(req[r].in.chars) ELSE 1

Served(r) == Then(r, "split", [NoRow EXCEPT !.basis = "measured",
                    !.micro_usd = priceUnits(billableUnits(r), req[r].unit)], "ok")
NotServed(r) == Then(r, "record", Unpriced, "upstream_error")

\* Every answer of the provider that is not served leaves an unpriced row.  A video
\* the provider uploads is waited for, and music behind a URL is copied.
nonChatOutcome(r, outcome, body) ==
  LET in == req[r].in
  IN CASE outcome = "timeout"        -> Then(r, "record", Unpriced, "upstream_timeout")
       [] outcome = "unavailable"    -> Answer(r, "unavailable")
       [] outcome = "upstream_error" -> NotServed(r)
       [] OTHER ->
            IF providerStateFailed(body) THEN NotServed(r)
            ELSE IF in.model.uploads
            THEN Become(r, [req[r] EXCEPT !.at = "wait", !.body = body])
            ELSE IF in.door = "music" /\ body = "url"
            THEN Become(r, [req[r] EXCEPT !.at = "rehost", !.body = body])
            ELSE IF extractAsset(in.door, body) THEN Served(r) ELSE NotServed(r)

\* A provider that did not answer in time may have done the work all the same.
Bill(r, w) ==
  \/ Called(r) /\ w \in Worked \cup {"late"} /\ billed' = billed \cup {r}
  \/ ~ (Called(r) /\ w \in Worked) /\ UNCHANGED billed

\* A refusal that asks for the model's agreement: it is submitted, and one more call
\* is made.
Agreement(r, w) == w = "agree" /\ req[r].at = "run" /\ req[r].in.model.route = "agreement"
submitAgreement(r) ==
  /\ req[r].at = "run" /\ Chat(r) /\ Agreement(r, "agree")
  /\ Become(r, [req[r] EXCEPT !.at = "rerun"])
  /\ UNCHANGED <<has, plan, override, money, edits, row, billed>>

runChat(r, w, body, usageMetadata, usage) ==
  /\ ~ Agreement(r, w)
  /\ chatOutcome(r, Outcome(r, w), body, extractUsage(usageMetadata, usage))
  /\ Bill(r, w)
  /\ UNCHANGED <<has, plan, override, money, edits, row>>

runUpstream(r, w, body) ==
  /\ nonChatOutcome(r, Outcome(r, w), IF w = "garbled" THEN "empty" ELSE body)
  /\ Bill(r, w)
  /\ UNCHANGED <<has, plan, override, money, edits, row>>

\* The uploaded object, or else what the body holds.
waitForMediaObject(r, uploaded) ==
  /\ req[r].at = "wait"
  /\ IF uploaded \/ extractVideoAsset(req[r].body) THEN Served(r) ELSE NotServed(r)
  /\ UNCHANGED <<has, plan, override, money, edits, row, billed>>

\* The copy may fail: the provider's URL is served then.
rehostMusicAudio(r) ==
  /\ req[r].at = "rehost"
  /\ Served(r)
  /\ UNCHANGED <<has, plan, override, money, edits, row, billed>>

-----------------------------------------------------------------------------
(***************************************************************************)
(* Recording and answering.                                                *)
(***************************************************************************)
\* buildEvent and meterAndRespond read the period again and split the charge.
split(r) ==
  /\ req[r].at = "split"
  /\ LET s == allocateCharge(req[r].event.micro_usd, req[r].plan.monthly_included, allowanceSpent)
     IN Become(r, [req[r] EXCEPT !.at = "record", !.event.allowance = s.allowance,
                                 !.event.credit = s.credit])
  /\ UNCHANGED <<has, plan, override, money, edits, row, billed>>

\* meterAndRespond reads account and period once more for its headers.
AfterRecord(r) == IF req[r].answer = "ok" /\ ~ Chat(r) THEN "reread" ELSE "answered"

recordUsage(r) ==
  /\ req[r].at = "record"
  /\ row' = [row EXCEPT ![r] = req[r].event]
  /\ spent' = spent + req[r].event.credit
  /\ allowanceSpent' = allowanceSpent + req[r].event.allowance
  /\ Become(r, [req[r] EXCEPT !.at = AfterRecord(r), !.recorded = TRUE])
  /\ UNCHANGED <<has, plan, override, credit, edits, billed>>

\* The write rejects: recorded stays false, and the answer goes out.
recordRejects(r) ==
  /\ req[r].at = "record"
  /\ Become(r, [req[r] EXCEPT !.at = AfterRecord(r)])
  /\ UNCHANGED <<has, plan, override, money, edits, row, billed>>

reread(r) ==
  /\ req[r].at = "reread"
  /\ Answer(r, "ok")
  /\ UNCHANGED <<has, plan, override, money, edits, row, billed>>

\* Any other statement that rejects reaches the Worker's catch: 500.
ReadRejects(r) ==
  /\ req[r].at \in {"plan", "price", "balance", "wait", "split", "reread"}
  /\ Answer(r, "internal")
  /\ UNCHANGED <<has, plan, override, money, edits, row, billed>>

Next ==
  \/ \E p \in PlanRow : handleUpsertPlan(p)
  \/ \E m \in Catalog, t, u \in BOOLEAN, x \in Rates : handleSetModelPrice(m, t, u, x)
  \/ \E n \in Rates : handleGrantCredit(n)
  \/ \E r \in Request :
       \/ \E in \in Input : requireCaller(r, in) \/ invalidRequest(r, in)
       \/ RateLimited(r) \/ gatePlan(r) \/ gatePrice(r) \/ gateBalance(r)
       \/ submitAgreement(r)
       \/ /\ req[r].at \in {"run", "rerun"} /\ Chat(r)
          /\ \E w \in Wire, body \in {"empty", "inline"}, u \in Report :
               runChat(r, w, body, u.usageMetadata, u.usage)
       \/ /\ req[r].at = "run" /\ ~ Chat(r)
          /\ \E w \in Wire, body \in Body : runUpstream(r, w, body)
       \/ \E uploaded \in BOOLEAN : waitForMediaObject(r, uploaded)
       \/ rehostMusicAudio(r)
       \/ split(r) \/ recordUsage(r) \/ recordRejects(r) \/ reread(r) \/ ReadRejects(r)

Spec == Init /\ [][Next]_vars

-----------------------------------------------------------------------------
(***************************************************************************)
(* Properties.                                                             *)
(***************************************************************************)
Answered(r) == req[r].at = "answered"

\* The least whole micro-USD that covers the tokens, or the units at their rate, at
\* the price the gate found, whatever an operator has set since.
Covers(r, micro) ==
  IF Chat(r)
  THEN micro * MTok - exactMicroUsd(req[r].usage, req[r].price) \in 0..(MTok - 1)
  ELSE micro = billableUnits(r) * req[r].unit

\* What a client is told agrees with the ledger (routes/chat.ts, routes/nonchat.ts):
\* an answer that says it was recorded has its row, priced to cover exactly what was
\* used, and paid in full out of the two pools; an answer that says it was not has
\* none; and no error but a 500 hides a charge.
AnswerTellsCharge ==
  \A r \in Request : Answered(r) =>
    /\ req[r].answer = "ok" => (req[r].recorded <=> row[r].basis # "none")
    /\ row[r].micro_usd > 0 => req[r].answer \in {"ok", "internal"}
    /\ row[r].basis = "measured" => Covers(r, row[r].micro_usd)
    /\ row[r].allowance + row[r].credit = row[r].micro_usd

\* Work the provider bills is put to the ledger before the answer: priced, or as an
\* unpriced row.  The exceptions are a stream (Stream), a 500, and the gap chat.ts
\* names, a chat answer that reads as an upstream error.
SpendHasRow ==
  \A r \in billed : Answered(r) =>
    \/ req[r].event # NoRow
    \/ req[r].answer \in {"stream", "internal"}
    \/ Chat(r) /\ req[r].answer = "upstream_error"

\* gateNonChat's pre-flight: a request of one unit is never charged more than
\* allowance and credit had left when it was let through, whatever is edited since.
UnitFits ==
  \A r \in Request :
    row[r].micro_usd > 0 /\ ~ Chat(r) /\ billableUnits(r) = 1 => row[r].micro_usd <= req[r].left
=============================================================================
