------------------------------- MODULE Access -------------------------------
(***************************************************************************)
(* Who may use the plane: enrollment tokens and client keys (auth.ts,      *)
(* routes/clients.ts), live-speech tickets (routes/stt-stream.ts), store   *)
(* receipts (routes/store.ts), the rate limiter (rate-limit.ts), and the   *)
(* operator acts that take access away (routes/admin.ts).                  *)
(*                                                                         *)
(* A call is one request.  Its steps are the D1 statements its handler     *)
(* awaits; between any two of them other calls, the clock and the operator *)
(* run, and any call may be lost.  One account and one network address;    *)
(* what an admitted call then spends is in Doors and Metering.             *)
(***************************************************************************)
EXTENDS Integers, FiniteSets

CONSTANTS
  Call,         \* requests; a call's minted key or ticket is named after it
  Phone,        \* a device enrolled before
  Token,        \* enrollment tokens
  Tx,           \* App Store transaction ids
  TrustDecode,  \* STORE_REDEEM_TRUST_DECODE
  AllowSandbox, \* STORE_REDEEM_ALLOW_SANDBOX_TRUST
  Limit,        \* requests per window: by bucket
  Window,       \* RATE_WINDOW_SECONDS, in ticks
  TTL,          \* lifetime of tokens and tickets, in ticks
  MaxLag,       \* bound on the time between a call's clock read and its claim
  LastTick      \* bound on the clock

None == "none"
Device == Call \cup {Phone}
Bucket == {"enroll", "infer"}

ASSUME AccessAssumption ==
  /\ IsFiniteSet(Call) /\ Phone \notin Call /\ None \notin Device
  /\ TrustDecode \in BOOLEAN /\ AllowSandbox \in BOOLEAN
  /\ Limit \in [Bucket -> Nat] /\ Window \in Nat \ {0} /\ TTL \in Nat
  /\ MaxLag \in 0..(Window - 1) /\ LastTick \in Nat

VARIABLES
  now,
  account,     \* accounts.suspended_at
  client,      \* clients
  enrollment,  \* enrollments
  ticket,      \* stt_tickets
  bucket,      \* rate_buckets
  credited,    \* history: how often each transaction was credited
  call         \* requests: where they are, and what they read

tables == <<account, client, enrollment, ticket, bucket>>
vars == <<now, tables, credited, call>>

Time == 0..LastTick
Kind == {"enroll", "session", "stream", "infer", "redeem"}

\* What a receipt says: whether it is a signed transaction or bare fields,
\* whether its signature verifies against the pinned root, and the environment
\* and product it names.
Receipt == [signed : BOOLEAN, chain : {"good", "bad"},
            environment : {"Production", "Sandbox", "Xcode", None}, known : BOOLEAN]

Blank == [kind |-> None, at |-> "idle", subject |-> None, clock |-> 0, claimed |-> 0,
          barred |-> FALSE]

Init ==
  /\ now = 0
  /\ account = "active"
  /\ client = [d \in Device |-> IF d = Phone THEN "live" ELSE None]
  /\ enrollment = [tk \in Token |-> [state |-> None, expires_at |-> 0]]
  /\ ticket = [c \in Call |-> [state |-> None, expires_at |-> 0, client |-> None]]
  /\ bucket = [b \in Bucket |-> [count |-> 0, window_start |-> 0]]
  /\ credited = [x \in Tx |-> 0]
  /\ call = [c \in Call |-> Blank]

\* D1 answers within MaxLag: no call holds a clock older than that.
Tick ==
  /\ now < LastTick
  /\ \A c \in Call : call[c].at = "claim" => now - call[c].clock < MaxLag
  /\ now' = now + 1
  /\ UNCHANGED <<tables, credited, call>>

-----------------------------------------------------------------------------
(***************************************************************************)
(* The operator.                                                           *)
(***************************************************************************)
handleCreateEnrollment(tk) ==
  /\ enrollment[tk].state = None
  /\ enrollment' = [enrollment EXCEPT ![tk].state = "issued", ![tk].expires_at = now + TTL]
  /\ UNCHANGED <<now, account, client, ticket, bucket, credited, call>>

\* UPDATE ... WHERE revoked_at IS NULL: a second revocation changes nothing.
handleRevokeClient(d) ==
  /\ client[d] = "live"
  /\ client' = [client EXCEPT ![d] = "revoked"]
  /\ UNCHANGED <<now, account, enrollment, ticket, bucket, credited, call>>

\* No route suspends an account: the operator writes the column.
Suspend ==
  /\ account = "active"
  /\ account' = "suspended"
  /\ UNCHANGED <<now, client, enrollment, ticket, bucket, credited, call>>

-----------------------------------------------------------------------------
(***************************************************************************)
(* Calls.                                                                  *)
(***************************************************************************)
Become(c, at) == call' = [call EXCEPT ![c].at = at]

\* A call that is over keeps its claim on a bucket; an admitted one, the token or
\* the ticket it used.
End(c, at, claimed) ==
  call' = [call EXCEPT ![c] =
    [kind |-> call[c].kind, at |-> at,
     subject |-> IF at = "admitted" /\ call[c].kind \in {"enroll", "stream"}
                 THEN call[c].subject ELSE None,
     clock |-> 0, claimed |-> claimed,
     barred |-> IF at = "admitted" THEN call[c].barred ELSE FALSE]]
Refuse(c) == End(c, "refused", call[c].claimed)
Admit(c) == End(c, "admitted", call[c].claimed)

\* The device a call speaks for, when it has one.
Speaker(kind, subject) ==
  IF kind = "enroll" THEN None
  ELSE IF kind = "stream" THEN ticket[subject].client ELSE subject

\* Its device or its account is switched off.
Barred(kind, subject) ==
  \/ account = "suspended"
  \/ /\ Speaker(kind, subject) # None
     /\ client[Speaker(kind, subject)] = "revoked"

\* A request arrives.  barred is history: its device or its account had been
\* switched off by then.
Arrive(c, kind, subject, first) ==
  /\ call[c].at = "idle"
  /\ call' = [call EXCEPT ![c] =
       [kind |-> kind, at |-> first, subject |-> subject,
        clock |-> IF kind = "session" THEN now ELSE 0,  \* ctx.now
        claimed |-> 0,
        barred |-> Barred(kind, subject)]]
  /\ UNCHANGED <<now, tables, credited>>

\* The body parses, or the handler answers before it reads any table.
handleEnroll(c, tk) == Arrive(c, "enroll", tk, "clock")
handleCreateSttSession(c, d) == client[d] # None /\ Arrive(c, "session", d, "client")
handleInference(c, d) == client[d] # None /\ Arrive(c, "infer", d, "client")
handleStoreRedeem(c, d) == client[d] # None /\ Arrive(c, "redeem", d, "client")
authFromSttUpgrade(c, t) == ticket[t].state # None /\ Arrive(c, "stream", t, "consume")

\* resolveClient, first read: the key's row.
getClientByKeyId(c) ==
  /\ call[c].at = "client" /\ call[c].kind # "stream"
  /\ IF client[call[c].subject] = "live" THEN Become(c, "account") ELSE Refuse(c)
  /\ UNCHANGED <<now, tables, credited>>

\* resolveSttCaller, after the ticket: the row of the ticket's device.
getClient(c) ==
  /\ call[c].at = "client" /\ call[c].kind = "stream"
  /\ IF client[ticket[call[c].subject].client] = "live" THEN Become(c, "account") ELSE Refuse(c)
  /\ UNCHANGED <<now, tables, credited>>

AfterAuth(kind) ==
  CASE kind \in {"infer", "stream"} -> "clock"
    [] kind = "enroll"  -> "insert"
    [] kind = "session" -> "ticket"
    [] kind = "redeem"  -> "receipt"

\* The account's row is read, then its plan's.
getAccount(c) ==
  /\ call[c].at = "account"
  /\ IF account = "active" THEN Become(c, AfterAuth(call[c].kind)) ELSE Refuse(c)
  /\ UNCHANGED <<now, tables, credited>>

-----------------------------------------------------------------------------
(***************************************************************************)
(* The rate limiter: the clock is one statement, the claim another.        *)
(***************************************************************************)
BucketOf(kind) == IF kind = "enroll" THEN "enroll" ELSE "infer"

nowEpochSeconds(c) ==
  /\ call[c].at = "clock"
  /\ call' = [call EXCEPT ![c].at = "claim", ![c].clock = now]
  /\ UNCHANGED <<now, tables, credited>>

\* Mutant: a new window is stamped with its end.
claimRateBucketEnd(row, nowSec) ==
  IF row.count = 0 \/ nowSec - row.window_start >= Window
  THEN [count |-> 1, window_start |-> nowSec + Window]
  ELSE [row EXCEPT !.count = @ + 1]

\* Mutant: any clock that has not gone back opens a new window.
claimRateBucketEager(row, nowSec) ==
  IF row.count = 0 \/ nowSec - row.window_start >= 0
  THEN [count |-> 1, window_start |-> nowSec]
  ELSE [row EXCEPT !.count = @ + 1]

\* One upsert: a row that is missing or a window old starts again at this
\* caller's clock; any other is counted, also for a caller it refuses.
claimRateBucket(row, nowSec) ==
  IF row.count = 0 \/ nowSec - row.window_start >= Window
  THEN [count |-> 1, window_start |-> nowSec]
  ELSE [row EXCEPT !.count = @ + 1]

rateLimitAllows(row, b) == row.count <= Limit[b]

checkRateLimit(c) ==
  /\ call[c].at = "claim"
  /\ LET b   == BucketOf(call[c].kind)
         row == claimRateBucket(bucket[b], call[c].clock)
     IN /\ bucket' = [bucket EXCEPT ![b] = row]
        /\ IF ~ rateLimitAllows(row, b) THEN Refuse(c)
           ELSE IF b = "infer" THEN End(c, "admitted", now + 1)
           ELSE call' = [call EXCEPT ![c].clock = 0, ![c].claimed = now + 1, ![c].at = "consume"]
  /\ UNCHANGED <<now, account, client, enrollment, ticket, credited>>

-----------------------------------------------------------------------------
(***************************************************************************)
(* Single-use redemptions: the UPDATE's own WHERE decides.                 *)
(***************************************************************************)
\* Mutant: redeem a token or ticket that was already consumed.
RedeemableAgain(row) == row.state # None /\ row.expires_at > now
Redeemable(row) == row.state = "issued" /\ row.expires_at > now

\* The UPDATE, then the SELECT of the account_id that no statement changes.
consumeEnrollment(c) ==
  /\ call[c].at = "consume" /\ call[c].kind = "enroll"
  /\ LET tk == call[c].subject
     IN IF Redeemable(enrollment[tk])
        THEN /\ enrollment' = [enrollment EXCEPT ![tk].state = "consumed"]
             /\ Become(c, "account")
        ELSE Refuse(c) /\ UNCHANGED enrollment
  /\ UNCHANGED <<now, account, client, ticket, bucket, credited>>

createClient(c) ==
  /\ call[c].at = "insert"
  /\ client' = [client EXCEPT ![c] = "live"]
  /\ Admit(c)
  /\ UNCHANGED <<now, account, enrollment, ticket, bucket, credited>>

createSttTicket(c) ==
  /\ call[c].at = "ticket"
  /\ ticket' = [ticket EXCEPT ![c] =
       [state |-> "issued", expires_at |-> call[c].clock + TTL, client |-> call[c].subject]]
  /\ Admit(c)
  /\ UNCHANGED <<now, account, client, enrollment, bucket, credited>>

\* Mutant: the device of a ticket is not looked up again.
consumeSttTicketTrusting(c) ==
  /\ call[c].at = "consume" /\ call[c].kind = "stream"
  /\ LET t == call[c].subject
     IN IF Redeemable(ticket[t])
        THEN ticket' = [ticket EXCEPT ![t].state = "consumed"] /\ Become(c, "account")
        ELSE Refuse(c) /\ UNCHANGED ticket
  /\ UNCHANGED <<now, account, client, enrollment, bucket, credited>>

consumeSttTicket(c) ==
  /\ call[c].at = "consume" /\ call[c].kind = "stream"
  /\ LET t == call[c].subject
     IN IF Redeemable(ticket[t])
        THEN ticket' = [ticket EXCEPT ![t].state = "consumed"] /\ Become(c, "client")
        ELSE Refuse(c) /\ UNCHANGED ticket
  /\ UNCHANGED <<now, account, client, enrollment, bucket, credited>>

\* How handleStoreRedeem comes to trust a receipt, in the order it asks.
verified(r) ==
  IF ~ r.signed THEN IF TrustDecode THEN "trust_decode" ELSE "refused"
  ELSE IF r.chain = "good" THEN "jws"
  ELSE IF r.environment = "Xcode" THEN "xcode"
  ELSE IF \/ r.environment = "Sandbox" /\ AllowSandbox
          \/ TrustDecode /\ r.environment # "Production"
  THEN "trust_decode" ELSE "refused"

\* grantCredit under the key appstore:<tx> (Metering has its statements).
redeemReceipt(c, x, r) ==
  /\ call[c].at = "receipt"
  /\ IF verified(r) = "refused" \/ ~ r.known
     THEN Refuse(c) /\ UNCHANGED credited
     ELSE /\ Admit(c)
          /\ IF credited[x] = 0
             THEN credited' = [credited EXCEPT ![x] = @ + 1]
             ELSE UNCHANGED credited
  /\ UNCHANGED <<now, tables>>

\* The isolate is lost, or a statement rejects.  Elsewhere a lost call is one that
\* takes no further step; here it would hold up the clock.
Ended == {"idle", "admitted", "refused"}
Lose(c) ==
  /\ call[c].at = "claim"
  /\ Refuse(c)
  /\ UNCHANGED <<now, tables, credited>>

Step(c) ==
  \/ \E tk \in Token : handleEnroll(c, tk)
  \/ \E d \in Device : \/ handleCreateSttSession(c, d)
                       \/ handleInference(c, d)
                       \/ handleStoreRedeem(c, d)
  \/ \E t \in Call : authFromSttUpgrade(c, t)
  \/ getClientByKeyId(c) \/ getClient(c) \/ getAccount(c)
  \/ nowEpochSeconds(c) \/ checkRateLimit(c)
  \/ consumeEnrollment(c) \/ createClient(c)
  \/ createSttTicket(c) \/ consumeSttTicket(c)
  \/ \E x \in Tx, r \in Receipt : redeemReceipt(c, x, r)
  \/ Lose(c)

Next ==
  \/ Tick \/ Suspend
  \/ \E tk \in Token : handleCreateEnrollment(tk)
  \/ \E d \in Device : handleRevokeClient(d)
  \/ \E c \in Call : Step(c)

Spec == Init /\ [][Next]_vars

-----------------------------------------------------------------------------
(***************************************************************************)
(* Properties.                                                             *)
(***************************************************************************)
At == Ended \cup {"clock", "claim", "consume", "client", "account", "insert", "ticket", "receipt"}

\* Type invariant: the tables and the calls keep their shapes; a bucket's window
\* never starts in the future, and no clock a call holds is ahead of D1's.
TypeOK ==
  /\ now \in Time
  /\ account \in {"active", "suspended"}
  /\ client \in [Device -> {None, "live", "revoked"}]
  /\ enrollment \in [Token -> [state : {None, "issued", "consumed"},
                               expires_at : 0..(LastTick + TTL)]]
  /\ ticket \in [Call -> [state : {None, "issued", "consumed"},
                          expires_at : 0..(LastTick + TTL), client : Device \cup {None}]]
  /\ bucket \in [Bucket -> [count : 0..Cardinality(Call), window_start : 0..now]]
  /\ credited \in [Tx -> 0..1]
  /\ call \in [Call -> [kind : Kind \cup {None}, at : At,
                        subject : Device \cup Token \cup {None}, clock : 0..now,
                        claimed : 0..(now + 1), barred : BOOLEAN]]

\* What is sold once is used once, however the redemptions race, fail and expire:
\* an enrollment token makes at most one device (consumeEnrollment) and a ticket opens
\* at most one speech session (consumeSttTicket).
SingleUse ==
  /\ \A tk \in Token : Cardinality({c \in Call : /\ call[c].kind = "enroll"
                                                /\ call[c].subject = tk
                                                /\ client[c] # None}) <= 1
  /\ \A t \in Call : Cardinality({c \in Call : /\ call[c].kind = "stream"
                                              /\ call[c].subject = t
                                              /\ call[c].at \notin {"consume", "refused"}}) <= 1

\* A revoked device and a suspended account are refused at once (routes/admin.ts):
\* no call that arrives afterwards is admitted, mints a ticket, enrolls a device or
\* redeems a receipt, a ticket the device minted while it was good included.
NoLateAdmission ==
  \A c \in Call : call[c].barred => call[c].at # "admitted" /\ client[c] = None

\* The overshoot rate-limit.ts admits to: at most twice the limit passes in any
\* span of a window, less the lag between a call's clock and its claim.
BurstBound ==
  \A b \in Bucket, t \in Time :
    Cardinality({c \in Call : /\ BucketOf(call[c].kind) = b
                              /\ call[c].claimed - 1 \in t..(t + Window - MaxLag - 1)})
      <= 2 * Limit[b]
=============================================================================
