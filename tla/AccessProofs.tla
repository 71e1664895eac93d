---------------------------- MODULE AccessProofs ----------------------------
(***************************************************************************)
(* Access for any number of calls, devices, tokens and ticks: types,       *)
(* single use, no late admission and the burst bound of the rate limiter.  *)
(***************************************************************************)
EXTENDS Access, FiniteSetTheorems, TLAPS

(***************************************************************************)
(* The inductive invariant.                                                *)
(***************************************************************************)
\* Where a call of each kind can be.
Stages(kind) ==
  CASE kind = "enroll"  -> {"clock", "claim", "consume", "account", "insert"}
    [] kind = "stream"  -> {"consume", "client", "account", "clock", "claim"}
    [] kind = "infer"   -> {"client", "account", "clock", "claim"}
    [] kind = "session" -> {"client", "account", "ticket"}
    [] kind = "redeem"  -> {"client", "account", "receipt"}
    [] OTHER -> {}

Placed(c) ==
  /\ call[c].at = "idle" => call[c] = Blank
  /\ call[c].at # "idle" => call[c].kind \in Kind
  /\ call[c].at \notin Ended => call[c].at \in Stages(call[c].kind)
  /\ call[c].at \notin Ended /\ call[c].kind = "enroll" => call[c].subject \in Token
  /\ call[c].at # "refused" /\ call[c].kind = "stream" =>
       call[c].subject \in Call /\ ticket[call[c].subject].state # None
  /\ call[c].at \notin Ended /\ call[c].kind \in {"session", "infer", "redeem"} =>
       call[c].subject \in Device
  /\ call[c].at = "claim" => now - call[c].clock <= MaxLag

\* A ticket and a new device belong to a call that was admitted.
Minted(c) ==
  /\ ticket[c].state # None => call[c].at = "admitted" /\ ticket[c].client \in Device
  /\ client[c] # None => call[c].at = "admitted" /\ call[c].kind = "enroll"

\* The calls that went on with a token or a ticket.
TokenUsers(tk) ==
  {c \in Call : call[c].kind = "enroll" /\ call[c].subject = tk
                /\ call[c].at \in {"account", "insert", "admitted"}}
TicketUsers(t) ==
  {c \in Call : call[c].kind = "stream" /\ call[c].subject = t
                /\ call[c].at \notin {"consume", "refused"}}

\* They consumed it, and they are one.
UsedOnce ==
  /\ \A tk \in Token : \A c, d \in TokenUsers(tk) : c = d /\ enrollment[tk].state = "consumed"
  /\ \A t \in Call : \A c, d \in TicketUsers(t) : c = d /\ ticket[t].state = "consumed"

\* A barred call is still before the read that will refuse it.
BarredWaits(c) ==
  call[c].barred =>
    \/ /\ account = "suspended"
       /\ \/ call[c].at \in {"consume", "client", "account"}
          \/ call[c].kind = "enroll" /\ call[c].at \in {"clock", "claim"}
    \/ /\ call[c].kind # "enroll" /\ call[c].at \in {"consume", "client"}
       /\ Speaker(call[c].kind, call[c].subject) \in Device
       /\ client[Speaker(call[c].kind, call[c].subject)] = "revoked"

\* The calls that are past their claim on bucket b.
Passed(b) ==
  {c \in Call : /\ BucketOf(call[c].kind) = b
                /\ \/ call[c].at \in {"admitted", "refused"}
                   \/ call[c].kind = "enroll" /\ call[c].at \in {"consume", "account", "insert"}}

Counted(b) == bucket[b].count <= Cardinality(Passed(b))

\* The calls whose claim was granted, and those of them granted in one span.
Claims(b) == {c \in Call : BucketOf(call[c].kind) = b /\ call[c].claimed > 0}
Span(t) == t..(t + Window - MaxLag - 1)
Within(S, t) == {c \in S : call[c].claimed - 1 \in Span(t)}

\* W are the claims of the current window, which was opened at tau: no more than the
\* limit, and no more than the limit before them in a span that reaches tau.
Windowed(b, W, tau) ==
  /\ tau <= bucket[b].window_start + MaxLag
  /\ Cardinality(W) <= bucket[b].count /\ Cardinality(W) <= Limit[b]
  /\ \A c \in Claims(b) \ W : call[c].claimed - 1 <= tau
  /\ \A t \in Time : t + Window - MaxLag - 1 >= tau =>
       Cardinality(Within(Claims(b) \ W, t)) <= Limit[b]
  /\ \A t \in Time : Cardinality(Within(Claims(b), t)) <= 2 * Limit[b]

Bursts(b) ==
  /\ Claims(b) \subseteq Passed(b)
  /\ bucket[b].count = 0 => Claims(b) = {}
  /\ \E W \in SUBSET Claims(b), tau \in 0..now : Windowed(b, W, tau)

IInv ==
  /\ TypeOK
  /\ \A c \in Call : Placed(c) /\ Minted(c) /\ BarredWaits(c)
  /\ UsedOnce
  /\ \A b \in Bucket : Counted(b) /\ Bursts(b)

CallRow(n) == [kind : Kind \cup {None}, at : At, subject : Device \cup Token \cup {None},
               clock : 0..n, claimed : 0..(n + 1), barred : BOOLEAN]

LEMMA CallType ==
  ASSUME TypeOK
  PROVE  call \in [Call -> CallRow(now)] /\ now \in Nat
BY AccessAssumption DEF TypeOK, CallRow, Time


-----------------------------------------------------------------------------
(***************************************************************************)
(* What a step does to the call that takes it, and to the others.          *)
(***************************************************************************)
\* Only call c changes, and it becomes row.
Sets(c, row) ==
  /\ call' = [call EXCEPT ![c] = row]
  /\ row \in CallRow(now)

\* An ended call: what is left of r.
Over(r, at, claimed) ==
  [kind |-> r.kind, at |-> at,
   subject |-> IF at = "admitted" /\ r.kind \in {"enroll", "stream"} THEN r.subject ELSE None,
   clock |-> 0, claimed |-> claimed,
   barred |-> IF at = "admitted" THEN r.barred ELSE FALSE]

LEMMA BlankType == ASSUME TypeOK PROVE Blank \in CallRow(now)
BY CallType DEF CallRow, Blank, At, Ended

LEMMA OverType ==
  ASSUME TypeOK, NEW c \in Call, NEW at \in {"admitted", "refused"}, NEW n \in 0..(now + 1)
  PROVE  Over(call[c], at, n) \in CallRow(now)
<1>1. call[c] \in CallRow(now)  BY CallType
<1>2. now \in Nat  BY CallType
<1> DEFINE o == Over(call[c], at, n)
<1>3. o.kind \in Kind \cup {None} /\ o.at \in At /\ o.clock \in 0..now /\ o.claimed \in 0..(now + 1)
  BY <1>1, <1>2 DEF CallRow, Over, At, Ended
<1>4. o.subject \in Device \cup Token \cup {None}  BY <1>1 DEF CallRow, Over
<1>5. o.barred \in BOOLEAN  BY <1>1 DEF CallRow, Over
<1>6. QED  BY <1>3, <1>4, <1>5 DEF CallRow, Over

LEMMA EndSets ==
  ASSUME TypeOK, NEW c \in Call, NEW at \in {"admitted", "refused"}, NEW n \in 0..(now + 1),
         End(c, at, n)
  PROVE  Sets(c, Over(call[c], at, n))
BY OverType DEF End, Over, Sets

LEMMA BecomeSets ==
  ASSUME TypeOK, NEW c \in Call, NEW at \in At, Become(c, at)
  PROVE  Sets(c, [call[c] EXCEPT !.at = at])
<1>1. call[c] \in CallRow(now) /\ call \in [Call -> CallRow(now)]  BY CallType
<1>2. [call[c] EXCEPT !.at = at] \in CallRow(now)  BY <1>1 DEF CallRow
<1>3. QED  BY <1>1, <1>2 DEF Become, Sets

\* The row of a call that arrives.
Arrival(kind, subject, first) ==
  [kind |-> kind, at |-> first, subject |-> subject,
   clock |-> IF kind = "session" THEN now ELSE 0, claimed |-> 0,
   barred |-> Barred(kind, subject)]

LEMMA ArriveSets ==
  ASSUME TypeOK, NEW c \in Call, NEW kind \in Kind, NEW subject \in Device \cup Token,
         NEW first \in At, Arrive(c, kind, subject, first)
  PROVE  Sets(c, Arrival(kind, subject, first))
<1> DEFINE a == Arrival(kind, subject, first)
<1>1. now \in Nat  BY CallType
<1>2. Barred(kind, subject) \in BOOLEAN  BY DEF Barred
<1>3. a.barred \in BOOLEAN  BY <1>2, Zenon DEF Arrival
<1>4. a.kind \in Kind /\ a.at \in At /\ a.subject \in Device \cup Token /\ a.clock \in 0..now
      /\ a.claimed \in 0..(now + 1)
  BY <1>1 DEF Arrival
<1>5. a \in CallRow(now)  BY <1>3, <1>4 DEF CallRow, Arrival
<1>6. QED  BY <1>5 DEF Arrive, Arrival, Sets

LEMMA ClockSets ==
  ASSUME TypeOK, NEW c \in Call, nowEpochSeconds(c)
  PROVE  Sets(c, [call[c] EXCEPT !.at = "claim", !.clock = now])
<1>1. call[c] \in CallRow(now) /\ call \in [Call -> CallRow(now)] /\ now \in Nat  BY CallType
<1>2. [call[c] EXCEPT !.at = "claim", !.clock = now] \in CallRow(now)
  <2> DEFINE a == [call[c] EXCEPT !.at = "claim", !.clock = now]
  <2>1. /\ a.kind \in Kind \cup {None} /\ a.at \in At /\ a.subject \in Device \cup Token \cup {None}
        /\ a.clock \in 0..now /\ a.claimed \in 0..(now + 1) /\ a.barred \in BOOLEAN
    BY <1>1 DEF CallRow, At, Ended
  <2>2. QED  BY <1>1, <2>1 DEF CallRow
<1>3. QED  BY <1>1, <1>2 DEF nowEpochSeconds, Sets

\* A granted claim on the bucket of enrollments.
Granted(r) == [r EXCEPT !.clock = 0, !.claimed = now + 1, !.at = "consume"]

LEMMA RefuseSets ==
  ASSUME TypeOK, NEW c \in Call
  PROVE  /\ Refuse(c) => Sets(c, Over(call[c], "refused", call[c].claimed))
         /\ Admit(c) => Sets(c, Over(call[c], "admitted", call[c].claimed))
<1>1. call[c].claimed \in 0..(now + 1)  BY CallType DEF CallRow
<1>2. QED  BY <1>1, EndSets DEF Refuse, Admit

LEMMA ClaimSets ==
  ASSUME TypeOK, NEW c \in Call, checkRateLimit(c)
  PROVE  LET b == BucketOf(call[c].kind)
             row == claimRateBucket(bucket[b], call[c].clock)
         IN Sets(c, IF ~ rateLimitAllows(row, b) THEN Over(call[c], "refused", call[c].claimed)
                    ELSE IF b = "infer" THEN Over(call[c], "admitted", now + 1)
                    ELSE Granted(call[c]))
<1> DEFINE b == BucketOf(call[c].kind)
           row == claimRateBucket(bucket[b], call[c].clock)
<1>1. call[c] \in CallRow(now) /\ call \in [Call -> CallRow(now)] /\ now \in Nat  BY CallType
<1>2. CASE ~ rateLimitAllows(row, b)
  BY <1>2, RefuseSets DEF checkRateLimit
<1>3. CASE rateLimitAllows(row, b) /\ b = "infer"
  BY <1>1, <1>3, EndSets DEF checkRateLimit
<1>4. CASE rateLimitAllows(row, b) /\ b # "infer"
  <2>1. Granted(call[c]) \in CallRow(now)
    <3> DEFINE a == Granted(call[c])
    <3>1. /\ a.kind \in Kind \cup {None} /\ a.at \in At /\ a.subject \in Device \cup Token \cup {None}
          /\ a.clock \in 0..now /\ a.claimed \in 0..(now + 1) /\ a.barred \in BOOLEAN
      BY <1>1 DEF CallRow, At, Ended, Granted
    <3>2. QED  BY <1>1, <3>1 DEF CallRow, Granted
  <2>2. call' = [call EXCEPT ![c].clock = 0, ![c].claimed = now + 1, ![c].at = "consume"]
    BY <1>4 DEF checkRateLimit
  <2>3. call' = [call EXCEPT ![c] = Granted(call[c])]  BY <1>1, <2>2 DEF Granted, CallRow
  <2>4. QED  BY <1>4, <2>1, <2>3 DEF Sets
<1>5. QED  BY <1>2, <1>3, <1>4

-----------------------------------------------------------------------------
(***************************************************************************)
(* The tables.                                                             *)
(***************************************************************************)
Ticket == [state : {None, "issued", "consumed"}, expires_at : 0..(LastTick + TTL),
           client : Device \cup {None}]

\* The steps that change nothing but a call.
CallOnly(c) ==
  \/ \E tk \in Token : handleEnroll(c, tk)
  \/ \E d \in Device : \/ handleCreateSttSession(c, d)
                       \/ handleInference(c, d)
                       \/ handleStoreRedeem(c, d)
  \/ \E t \in Call : authFromSttUpgrade(c, t)
  \/ getClientByKeyId(c) \/ getClient(c) \/ getAccount(c)
  \/ nowEpochSeconds(c) \/ Lose(c)

LEMMA CallOnlyFrame ==
  ASSUME NEW c \in Call, CallOnly(c)
  PROVE  UNCHANGED <<now, account, client, enrollment, ticket, bucket, credited>>
BY DEF CallOnly, handleEnroll, handleCreateSttSession, handleInference, handleStoreRedeem,
       authFromSttUpgrade, Arrive, getClientByKeyId, getClient, getAccount, nowEpochSeconds,
       Lose, tables

LEMMA StepNow ==
  ASSUME NEW c \in Call, Step(c)
  PROVE  UNCHANGED <<now, account>>
<1>1. CASE CallOnly(c)  BY <1>1, CallOnlyFrame
<1>2. CASE \/ checkRateLimit(c) \/ consumeEnrollment(c) \/ createClient(c) \/ createSttTicket(c)
           \/ consumeSttTicket(c) \/ \E x \in Tx, r \in Receipt : redeemReceipt(c, x, r)
  BY <1>2 DEF checkRateLimit, consumeEnrollment, createClient, createSttTicket,
              consumeSttTicket, redeemReceipt, tables
<1>3. QED  BY <1>1, <1>2 DEF Step, CallOnly

\* A ticket, once minted, stays and keeps its device.
LEMMA TicketsKept ==
  ASSUME TypeOK, \A c \in Call : Placed(c) /\ Minted(c), NEW c \in Call, Step(c), NEW t \in Call
  PROVE  /\ ticket' \in [Call -> Ticket]
         /\ ticket[t].state # None => ticket'[t].state # None /\ ticket'[t].client = ticket[t].client
<1>0. ticket \in [Call -> Ticket]  BY DEF TypeOK, Ticket
<1>1. CASE UNCHANGED ticket  BY <1>0, <1>1
<1>2. CASE createSttTicket(c)
  <2> DEFINE row == [state |-> "issued", expires_at |-> call[c].clock + TTL, client |-> call[c].subject]
  <2>1. ticket' = [ticket EXCEPT ![c] = row] /\ call[c].at = "ticket"  BY <1>2 DEF createSttTicket
  <2>2. ticket[c].state = None  BY <2>1 DEF Minted
  <2>3. call[c].kind = "session" /\ call[c].subject \in Device
    BY <2>1 DEF Placed, Stages, Ended, Kind
  <2>4. call[c].clock + TTL \in 0..(LastTick + TTL)
    BY CallType, AccessAssumption DEF CallRow, TypeOK, Time
  <2>5. row \in Ticket  BY <2>3, <2>4 DEF Ticket
  <2>6. QED  BY <1>0, <2>1, <2>2, <2>5
<1>3. CASE consumeSttTicket(c)
  <2> DEFINE u == call[c].subject
  <2>1. \/ UNCHANGED ticket
        \/ ticket' = [ticket EXCEPT ![u].state = "consumed"]
    BY <1>3 DEF consumeSttTicket
  <2>2. u \in Call  BY <1>3 DEF consumeSttTicket, Placed
  <2> DEFINE row == [ticket[u] EXCEPT !.state = "consumed"]
  <2>3. row \in Ticket /\ row.state = "consumed" /\ row.client = ticket[u].client
    BY <1>0, <2>2 DEF Ticket
  <2>4. CASE ticket' = [ticket EXCEPT ![u] = row]
    <3> HIDE DEF row
    <3>1. QED  BY <1>0, <2>2, <2>3, <2>4 DEF None
  <2>5. QED  BY <1>1, <2>1, <2>4
<1>4. QED
  <2>1. CASE CallOnly(c)  BY <1>1, <2>1, CallOnlyFrame
  <2>2. CASE \/ checkRateLimit(c) \/ consumeEnrollment(c) \/ createClient(c)
             \/ \E x \in Tx, r \in Receipt : redeemReceipt(c, x, r)
    BY <1>1, <2>2 DEF checkRateLimit, consumeEnrollment, createClient, redeemReceipt, tables
  <2>3. QED  BY <1>2, <1>3, <2>1, <2>2 DEF Step, CallOnly

-----------------------------------------------------------------------------
(***************************************************************************)
(* Where calls are.                                                        *)
(***************************************************************************)
\* What Placed says of the row of a call that is on its way.
OnItsWay(r) ==
  /\ r.kind \in Kind /\ r.at \in Stages(r.kind)
  /\ r.kind = "enroll" => r.subject \in Token
  /\ r.kind \in {"session", "infer", "redeem"} => r.subject \in Device
  /\ r.kind = "stream" => r.subject \in Call /\ ticket'[r.subject].state # None

LEMMA StepPlaced ==
  ASSUME TypeOK, \A c \in Call : Placed(c) /\ Minted(c), NEW c \in Call, Step(c)
  PROVE  /\ call' \in [Call -> CallRow(now)]
         /\ \A d \in Call : Placed(d)'
<1>0. call \in [Call -> CallRow(now)] /\ now \in Nat /\ now' = now  BY CallType, StepNow
<1>1. \A t \in Call : ticket[t].state # None => ticket'[t].state # None  BY TicketsKept
<1>2. ASSUME NEW row, Sets(c, row), row.at \in {"admitted", "refused"}, row.kind = call[c].kind,
             row.kind \in Kind,
             row.at = "admitted" /\ row.kind = "stream" => row.subject \in Call /\ ticket'[row.subject].state # None
      PROVE  /\ call' \in [Call -> CallRow(now)]
             /\ \A d \in Call : Placed(d)'
  <2>1. call'[c] = row /\ \A d \in Call : d # c => call'[d] = call[d]  BY <1>0, <1>2 DEF Sets
  <2>2. Placed(c)'  BY <1>2, <2>1 DEF Placed, Ended
  <2>3. \A d \in Call : d # c => Placed(d)'  BY <1>0, <1>1, <2>1 DEF Placed
  <2>4. QED  BY <1>0, <1>2, <2>2, <2>3 DEF Sets
<1>3. ASSUME NEW row, Sets(c, row), OnItsWay(row), row.at = "claim" => row.clock = now
      PROVE  /\ call' \in [Call -> CallRow(now)]
             /\ \A d \in Call : Placed(d)'
  <2>1. call'[c] = row /\ \A d \in Call : d # c => call'[d] = call[d]  BY <1>0, <1>3 DEF Sets
  <2>2. row.at \notin Ended  BY <1>3 DEF OnItsWay, Stages, Ended, Kind
  <2>3. row.at = "claim" => now' - row.clock <= MaxLag  BY <1>0, <1>3, AccessAssumption
  <2>4. Placed(c)'  BY <1>3, <2>1, <2>2, <2>3 DEF Placed, OnItsWay, Ended
  <2>5. \A d \in Call : d # c => Placed(d)'  BY <1>0, <1>1, <2>1 DEF Placed
  <2>6. QED  BY <1>0, <1>3, <2>4, <2>5 DEF Sets
<1> DEFINE r == call[c]
<1>4. ASSUME r.at # "idle", Refuse(c)
      PROVE  /\ call' \in [Call -> CallRow(now)]
             /\ \A d \in Call : Placed(d)'
  <2>1. Sets(c, Over(r, "refused", r.claimed)) /\ r.kind \in Kind  BY <1>4, RefuseSets DEF Placed
  <2>2. QED  BY <1>2, <2>1 DEF Over
<1>5. ASSUME r.at \notin Ended, NEW n \in 0..(now + 1), End(c, "admitted", n)
      PROVE  /\ call' \in [Call -> CallRow(now)]
             /\ \A d \in Call : Placed(d)'
  <2>1. Sets(c, Over(r, "admitted", n)) /\ r.kind \in Kind  BY <1>5, EndSets DEF Placed, Ended
  <2>2. r.kind = "stream" => r.subject \in Call /\ ticket'[r.subject].state # None
    BY <1>1, <1>5 DEF Placed, Ended
  <2>3. QED  BY <1>2, <2>1, <2>2 DEF Over
<1>6. ASSUME r.at \notin Ended, NEW at \in Stages(r.kind), at # "claim", Become(c, at)
      PROVE  /\ call' \in [Call -> CallRow(now)]
             /\ \A d \in Call : Placed(d)'
  <2> DEFINE row == [r EXCEPT !.at = at]
  <2>1. at \in At  BY <1>6 DEF Stages, At, Placed, Kind
  <2>2. Sets(c, row)  BY <1>6, <2>1, BecomeSets
  <2>3. row.kind = r.kind /\ row.at = at /\ row.subject = r.subject  BY <1>0 DEF CallRow
  <2> HIDE DEF row
  <2>4. OnItsWay(row)  BY <1>1, <1>6, <2>3 DEF OnItsWay, Placed, Ended
  <2>5. QED  BY <1>3, <1>6, <2>2, <2>3, <2>4
<1>7. ASSUME NEW kind \in Kind, NEW subject, NEW first \in Stages(kind), first # "claim",
             Arrive(c, kind, subject, first),
             kind = "enroll" => subject \in Token,
             kind \in {"session", "infer", "redeem"} => subject \in Device,
             kind = "stream" => subject \in Call /\ ticket[subject].state # None
      PROVE  /\ call' \in [Call -> CallRow(now)]
             /\ \A d \in Call : Placed(d)'
  <2>1. subject \in Device \cup Token /\ first \in At  BY <1>7 DEF Kind, Device, Stages, At
  <2>2. Sets(c, Arrival(kind, subject, first))  BY <1>7, <2>1, ArriveSets
  <2>3. OnItsWay(Arrival(kind, subject, first))  BY <1>1, <1>7 DEF OnItsWay, Arrival
  <2>4. QED  BY <1>3, <1>7, <2>2, <2>3 DEF Arrival
<1>8. CASE \E tk \in Token : handleEnroll(c, tk)
  BY <1>7, <1>8 DEF handleEnroll, Kind, Stages
<1>9. CASE \E d \in Device : handleCreateSttSession(c, d) \/ handleInference(c, d) \/ handleStoreRedeem(c, d)
  BY <1>7, <1>9 DEF handleCreateSttSession, handleInference, handleStoreRedeem, Kind, Stages
<1>10. CASE \E t \in Call : authFromSttUpgrade(c, t)
  BY <1>7, <1>10 DEF authFromSttUpgrade, Kind, Stages
<1>11. r.at # "idle" => r.kind \in Kind  BY DEF Placed
<1>12. r.at \notin Ended => r.at \in Stages(r.kind)  BY DEF Placed
<1>13. CASE getClientByKeyId(c) \/ getClient(c) \/ consumeEnrollment(c) \/ consumeSttTicket(c)
  <2>1. r.at \in {"client", "consume"} /\ r.at \notin Ended  BY <1>13
    DEF getClientByKeyId, getClient, consumeEnrollment, consumeSttTicket, Ended
  <2>2. \/ Refuse(c)
        \/ Become(c, "account") /\ "account" \in Stages(r.kind)
        \/ Become(c, "client") /\ "client" \in Stages(r.kind)
    BY <1>11, <1>12, <1>13, <2>1
    DEF getClientByKeyId, getClient, consumeEnrollment, consumeSttTicket, Stages, Kind
  <2>3. QED  BY <1>4, <1>6, <2>1, <2>2
<1>14. CASE getAccount(c)
  <2>1. r.at = "account" /\ r.at \notin Ended  BY <1>14 DEF getAccount, Ended
  <2>2. AfterAuth(r.kind) \in Stages(r.kind) /\ AfterAuth(r.kind) # "claim"
    BY <1>11, <2>1 DEF AfterAuth, Stages, Kind
  <2>3. QED  BY <1>4, <1>6, <1>14, <2>1, <2>2 DEF getAccount
<1>15. CASE nowEpochSeconds(c)
  <2> DEFINE row == [r EXCEPT !.at = "claim", !.clock = now]
  <2>1. r.at = "clock" /\ r.at \notin Ended  BY <1>15 DEF nowEpochSeconds, Ended
  <2>2. Sets(c, row)  BY <1>15, ClockSets
  <2>3. row.kind = r.kind /\ row.at = "claim" /\ row.subject = r.subject /\ row.clock = now
    BY <1>0 DEF CallRow
  <2>4. "claim" \in Stages(r.kind)  BY <1>11, <1>12, <2>1 DEF Stages, Kind
  <2> HIDE DEF row
  <2>5. OnItsWay(row)  BY <1>1, <2>1, <2>3, <2>4 DEF OnItsWay, Placed, Ended
  <2>6. QED  BY <1>3, <2>2, <2>3, <2>5
<1>16. CASE checkRateLimit(c)
  <2>1. r.at = "claim" /\ r.at \notin Ended  BY <1>16 DEF checkRateLimit, Ended
  <2>2. CASE Refuse(c) \/ End(c, "admitted", now + 1)
    BY <1>0, <1>4, <1>5, <2>1, <2>2
  <2>3. CASE Sets(c, Granted(r)) /\ BucketOf(r.kind) # "infer"
    <3>1. r.kind = "enroll"  BY <2>3 DEF BucketOf
    <3>2. Granted(r).kind = r.kind /\ Granted(r).at = "consume" /\ Granted(r).subject = r.subject
      BY <1>0 DEF CallRow, Granted
    <3>3. r.subject \in Token  BY <2>1, <3>1 DEF Placed
    <3>4. OnItsWay(Granted(r))  BY <3>1, <3>2, <3>3 DEF OnItsWay, Stages, Kind
    <3>5. QED  BY <1>3, <2>3, <3>2, <3>4
  <2>4. QED  BY <1>16, <2>2, <2>3, ClaimSets DEF checkRateLimit
<1>17. CASE createClient(c) \/ createSttTicket(c) \/ \E x \in Tx, q \in Receipt : redeemReceipt(c, x, q)
  <2>1. r.at \in {"insert", "ticket", "receipt"} /\ r.at \notin Ended
    BY <1>17 DEF createClient, createSttTicket, redeemReceipt, Ended
  <2>2. r.claimed \in 0..(now + 1)  BY <1>0 DEF CallRow
  <2>3. Refuse(c) \/ End(c, "admitted", r.claimed)
    BY <1>17 DEF createClient, createSttTicket, redeemReceipt, Admit
  <2>4. QED  BY <1>4, <1>5, <2>1, <2>2, <2>3
<1>18. CASE Lose(c)  BY <1>4, <1>18 DEF Lose
<1>19. QED
  BY <1>8, <1>9, <1>10, <1>13, <1>14, <1>15, <1>16, <1>17, <1>18 DEF Step

-----------------------------------------------------------------------------
(***************************************************************************)
(* The moves of a call, from its row r to its row q.                       *)
(***************************************************************************)
Arrives(r, q) ==
  /\ r = Blank /\ q.kind \in Kind /\ q.claimed = 0
  /\ q.barred <=> Barred(q.kind, q.subject)
  /\ \/ q.kind = "enroll" /\ q.at = "clock"
     \/ q.kind = "stream" /\ q.at = "consume" /\ q.subject \in Call
        /\ ticket[q.subject].state # None
     \/ q.kind \in {"session", "infer", "redeem"} /\ q.at = "client" /\ q.subject \in Device

\* The call goes on, and why it may.
GoesOn(r, q) ==
  /\ q.kind = r.kind /\ q.subject = r.subject /\ q.barred = r.barred
  /\ \/ /\ r.at = "client" /\ q.at = "account" /\ r.kind # "enroll" /\ q.claimed = r.claimed
        /\ client[Speaker(r.kind, r.subject)] = "live"
     \/ /\ r.at = "account" /\ q.at = AfterAuth(r.kind) /\ q.claimed = r.claimed
        /\ account = "active"
     \/ r.at = "clock" /\ q.at = "claim" /\ q.claimed = r.claimed
     \/ r.at = "claim" /\ q.at = "consume" /\ r.kind = "enroll"
     \/ /\ r.at = "consume" /\ q.at = "account" /\ r.kind = "enroll" /\ q.claimed = r.claimed
        /\ enrollment[r.subject].state = "issued"
        /\ enrollment' = [enrollment EXCEPT ![r.subject].state = "consumed"]
     \/ /\ r.at = "consume" /\ q.at = "client" /\ r.kind = "stream" /\ q.claimed = r.claimed
        /\ ticket[r.subject].state = "issued"
        /\ ticket' = [ticket EXCEPT ![r.subject].state = "consumed"]

IsOver(r, q) ==
  /\ r.at \notin Ended /\ q.kind = r.kind
  /\ r.at # "claim" => q.claimed = r.claimed
  /\ \/ q.at = "refused" /\ ~ q.barred
     \/ /\ q.at = "admitted" /\ (q.barred <=> r.barred)
        /\ r.kind \in {"enroll", "stream"} => q.subject = r.subject
        /\ \/ r.at \in {"insert", "ticket", "receipt"}
           \/ r.at = "claim" /\ r.kind # "enroll"

\* What happens to the tables meanwhile.
Writes(c, r, q) ==
  /\ \/ client' = client
     \/ r.at = "insert" /\ q.at = "admitted" /\ client' = [client EXCEPT ![c] = "live"]
  /\ \/ enrollment' = enrollment
     \/ r.at = "consume" /\ q.at = "account" /\ r.kind = "enroll"
  /\ \/ ticket' = ticket
     \/ r.at = "consume" /\ q.at = "client" /\ r.kind = "stream"
     \/ /\ r.at = "ticket" /\ q.at = "admitted"
        /\ \E n : ticket' = [ticket EXCEPT ![c] = [state |-> "issued", expires_at |-> n,
                                                  client |-> r.subject]]
  /\ r.at # "claim" => bucket' = bucket

Move(c) ==
  LET r == call[c]  q == call'[c]
  IN /\ Arrives(r, q) \/ GoesOn(r, q) \/ IsOver(r, q)
     /\ Writes(c, r, q)

LEMMA StepMoves ==
  ASSUME TypeOK, \A c \in Call : Placed(c), NEW c \in Call, Step(c)
  PROVE  /\ \A d \in Call : d # c => call'[d] = call[d]
         /\ Move(c)
<1> DEFINE r == call[c]
           q == call'[c]
<1>0. call \in [Call -> CallRow(now)] /\ r \in CallRow(now) /\ now \in Nat  BY CallType
<1>1. ASSUME NEW row, Sets(c, row)
      PROVE  call'[c] = row /\ \A d \in Call : d # c => call'[d] = call[d]
  BY <1>0, <1>1 DEF Sets
<1>2. ASSUME NEW kind \in Kind, NEW subject, NEW first,
             Arrive(c, kind, subject, first),
             \/ kind = "enroll" /\ first = "clock" /\ subject \in Token
             \/ kind = "stream" /\ first = "consume" /\ subject \in Call /\ ticket[subject].state # None
             \/ kind \in {"session", "infer", "redeem"} /\ first = "client" /\ subject \in Device
      PROVE  (\A d \in Call : d # c => call'[d] = call[d]) /\ Move(c)
  <2> DEFINE a == Arrival(kind, subject, first)
  <2>1. subject \in Device \cup Token /\ first \in At  BY <1>2 DEF Device, At
  <2>2. Sets(c, a)  BY <1>2, <2>1, ArriveSets
  <2>3. q = a /\ \A d \in Call : d # c => call'[d] = call[d]  BY <1>1, <2>2
  <2>4. r = Blank /\ UNCHANGED <<client, enrollment, ticket, bucket>>
    BY <1>2 DEF Arrive, Placed, tables
  <2>5. a.kind = kind /\ a.subject = subject /\ a.at = first /\ a.claimed = 0  BY DEF Arrival
  <2>6. a.barred = Barred(kind, subject)  BY Zenon DEF Arrival
  <2> HIDE DEF a
  <2>7. Arrives(r, q)
    <3>1. q.barred <=> Barred(q.kind, q.subject)  BY <2>3, <2>5, <2>6
    <3>2. QED  BY <1>2, <2>3, <2>4, <2>5, <3>1 DEF Arrives
  <2>8. Writes(c, r, q)  BY <2>4 DEF Writes
  <2>9. QED  BY <2>3, <2>7, <2>8 DEF Move
<1>3. ASSUME Refuse(c), r.at \notin Ended
      PROVE  (\A d \in Call : d # c => call'[d] = call[d]) /\ IsOver(r, q) /\ q.at = "refused"
  <2>1. q = Over(r, "refused", r.claimed) /\ \A d \in Call : d # c => call'[d] = call[d]
    BY <1>1, <1>3, RefuseSets
  <2>2. QED  BY <1>3, <2>1 DEF IsOver, Over
<1>4. ASSUME NEW n \in 0..(now + 1), End(c, "admitted", n), r.at # "claim" => n = r.claimed,
             r.at \in {"insert", "ticket", "receipt"} \/ (r.at = "claim" /\ r.kind # "enroll")
      PROVE  (\A d \in Call : d # c => call'[d] = call[d]) /\ IsOver(r, q) /\ q.at = "admitted"
  <2>1. q = Over(r, "admitted", n) /\ \A d \in Call : d # c => call'[d] = call[d]
    BY <1>1, <1>4, EndSets
  <2>2. QED  BY <1>4, <2>1 DEF IsOver, Over, Ended
<1>5. ASSUME NEW at \in At, Become(c, at)
      PROVE  /\ \A d \in Call : d # c => call'[d] = call[d]
             /\ q.kind = r.kind /\ q.subject = r.subject /\ q.barred = r.barred
             /\ q.at = at /\ q.claimed = r.claimed
  <2>1. q = [r EXCEPT !.at = at] /\ \A d \in Call : d # c => call'[d] = call[d]
    BY <1>1, <1>5, BecomeSets
  <2>2. QED  BY <1>0, <2>1 DEF CallRow
<1>6. CASE \E tk \in Token : handleEnroll(c, tk)
  BY <1>2, <1>6 DEF handleEnroll, Kind
<1>7. CASE \E d \in Device : handleCreateSttSession(c, d) \/ handleInference(c, d) \/ handleStoreRedeem(c, d)
  BY <1>2, <1>7 DEF handleCreateSttSession, handleInference, handleStoreRedeem, Kind
<1>8. CASE \E t \in Call : authFromSttUpgrade(c, t)
  BY <1>2, <1>8 DEF authFromSttUpgrade, Kind
<1>9. r.at \notin Ended => r.kind \in Kind /\ r.at \in Stages(r.kind)  BY DEF Placed, Ended
<1>10. CASE getClientByKeyId(c) \/ getClient(c)
  <2>1. r.at = "client" /\ r.at \notin Ended /\ "account" \in At  BY <1>10 DEF getClientByKeyId, getClient, Ended, At
  <2>2. r.kind # "enroll"  BY <1>9, <2>1 DEF Stages
  <2>3. Writes(c, r, q)  BY <1>10 DEF getClientByKeyId, getClient, tables, Writes
  <2>4. \/ Refuse(c)
        \/ Become(c, "account") /\ client[Speaker(r.kind, r.subject)] = "live"
    BY <1>10, <2>2 DEF getClientByKeyId, getClient, Speaker
  <2>5. CASE Refuse(c)  BY <1>3, <2>1, <2>3, <2>5 DEF Move
  <2>6. CASE Become(c, "account") /\ client[Speaker(r.kind, r.subject)] = "live"
    BY <1>5, <2>1, <2>2, <2>3, <2>6 DEF Move, GoesOn
  <2>7. QED  BY <2>4, <2>5, <2>6
<1>11. CASE getAccount(c)
  <2>1. r.at = "account" /\ r.at \notin Ended  BY <1>11 DEF getAccount, Ended
  <2>2. AfterAuth(r.kind) \in At  BY <1>9, <2>1 DEF AfterAuth, At, Kind
  <2>3. Writes(c, r, q)  BY <1>11 DEF getAccount, tables, Writes
  <2>4. CASE Refuse(c)  BY <1>3, <2>1, <2>3, <2>4 DEF Move
  <2>5. CASE Become(c, AfterAuth(r.kind)) /\ account = "active"
    BY <1>5, <2>1, <2>2, <2>3, <2>5 DEF Move, GoesOn
  <2>6. QED  BY <1>11, <2>4, <2>5 DEF getAccount
<1>12. CASE nowEpochSeconds(c)
  <2>1. r.at = "clock"  BY <1>12 DEF nowEpochSeconds
  <2>2. q = [r EXCEPT !.at = "claim", !.clock = now] /\ \A d \in Call : d # c => call'[d] = call[d]
    BY <1>1, <1>12, ClockSets
  <2>3. q.kind = r.kind /\ q.subject = r.subject /\ q.barred = r.barred
        /\ q.at = "claim" /\ q.claimed = r.claimed
    BY <1>0, <2>2 DEF CallRow
  <2>4. Writes(c, r, q)  BY <1>12 DEF nowEpochSeconds, tables, Writes
  <2>5. QED  BY <2>1, <2>2, <2>3, <2>4 DEF Move, GoesOn
<1>13. CASE checkRateLimit(c)
  <2>1. r.at = "claim" /\ r.at \notin Ended  BY <1>13 DEF checkRateLimit, Ended
  <2>2. Writes(c, r, q)  BY <1>13, <2>1 DEF checkRateLimit, Writes
  <2>3. CASE Refuse(c)  BY <1>3, <2>1, <2>2, <2>3 DEF Move
  <2>4. CASE End(c, "admitted", now + 1) /\ BucketOf(r.kind) = "infer"
    <3>1. r.kind # "enroll"  BY <2>4 DEF BucketOf
    <3>2. QED  BY <1>0, <1>4, <2>1, <2>2, <2>4, <3>1 DEF Move
  <2>5. CASE Sets(c, Granted(r)) /\ BucketOf(r.kind) # "infer"
    <3>1. r.kind = "enroll"  BY <2>5 DEF BucketOf
    <3>2. q = Granted(r) /\ \A d \in Call : d # c => call'[d] = call[d]  BY <1>1, <2>5
    <3>3. q.kind = r.kind /\ q.subject = r.subject /\ q.barred = r.barred /\ q.at = "consume"
      BY <1>0, <3>2 DEF CallRow, Granted
    <3>4. QED  BY <2>1, <2>2, <3>1, <3>2, <3>3 DEF Move, GoesOn
  <2>6. QED  BY <1>13, <2>3, <2>4, <2>5, ClaimSets DEF checkRateLimit
<1>14. CASE consumeEnrollment(c)
  <2>1. r.at = "consume" /\ r.at \notin Ended /\ r.kind = "enroll" /\ "account" \in At
    BY <1>14 DEF consumeEnrollment, Ended, At
  <2>2. CASE Refuse(c) /\ UNCHANGED enrollment
    <3>1. Writes(c, r, q)  BY <1>14, <2>2 DEF consumeEnrollment, Writes
    <3>2. QED  BY <1>3, <2>1, <2>2, <3>1 DEF Move
  <2>3. CASE /\ Become(c, "account") /\ enrollment[r.subject].state = "issued"
             /\ enrollment' = [enrollment EXCEPT ![r.subject].state = "consumed"]
    <3>1. q.at = "account"  BY <1>5, <2>1, <2>3
    <3>2. Writes(c, r, q)  BY <1>14, <2>1, <3>1 DEF consumeEnrollment, Writes
    <3>3. QED  BY <1>5, <2>1, <2>3, <3>2 DEF Move, GoesOn
  <2>4. QED  BY <1>14, <2>2, <2>3 DEF consumeEnrollment, Redeemable
<1>15. CASE consumeSttTicket(c)
  <2>1. r.at = "consume" /\ r.at \notin Ended /\ r.kind = "stream" /\ "client" \in At
    BY <1>15 DEF consumeSttTicket, Ended, At
  <2>2. CASE Refuse(c) /\ UNCHANGED ticket
    <3>1. Writes(c, r, q)  BY <1>15, <2>2 DEF consumeSttTicket, Writes
    <3>2. QED  BY <1>3, <2>1, <2>2, <3>1 DEF Move
  <2>3. CASE /\ Become(c, "client") /\ ticket[r.subject].state = "issued"
             /\ ticket' = [ticket EXCEPT ![r.subject].state = "consumed"]
    <3>1. q.at = "client"  BY <1>5, <2>1, <2>3
    <3>2. Writes(c, r, q)  BY <1>15, <2>1, <3>1 DEF consumeSttTicket, Writes
    <3>3. QED  BY <1>5, <2>1, <2>3, <3>2 DEF Move, GoesOn
  <2>4. QED  BY <1>15, <2>2, <2>3 DEF consumeSttTicket, Redeemable
<1>16. CASE createClient(c) \/ createSttTicket(c) \/ \E x \in Tx, e \in Receipt : redeemReceipt(c, x, e)
  <2>1. r.at \in {"insert", "ticket", "receipt"} /\ r.at \notin Ended
    BY <1>16 DEF createClient, createSttTicket, redeemReceipt, Ended
  <2>2. r.claimed \in 0..(now + 1)  BY <1>0 DEF CallRow
  <2>3. CASE Refuse(c)
    <3>1. q.at = "refused"  BY <1>3, <2>1, <2>3
    <3>2. UNCHANGED <<client, enrollment, ticket, bucket>>
      <4>1. call[c].at = "receipt" \/ q.at = "admitted"
        BY <1>4, <1>16, <2>1, <2>2 DEF createClient, createSttTicket, redeemReceipt, Admit
      <4>2. QED  BY <1>16, <3>1, <4>1 DEF createClient, createSttTicket, redeemReceipt, tables
    <3>3. Writes(c, r, q)  BY <3>2 DEF Writes
    <3>4. QED  BY <1>3, <2>1, <2>3, <3>3 DEF Move
  <2>4. CASE End(c, "admitted", r.claimed)
    <3>1. q.at = "admitted"  BY <1>4, <2>1, <2>2, <2>4
    <3>2. Writes(c, r, q)
      BY <1>16, <2>1, <3>1 DEF createClient, createSttTicket, redeemReceipt, tables, Writes
    <3>3. QED  BY <1>4, <2>1, <2>2, <2>4, <3>2 DEF Move
  <2>5. QED  BY <1>16, <2>3, <2>4 DEF createClient, createSttTicket, redeemReceipt, Admit
<1>17. CASE Lose(c)
  <2>1. r.at = "claim" /\ r.at \notin Ended /\ Refuse(c)  BY <1>17 DEF Lose, Ended
  <2>2. Writes(c, r, q)  BY <1>17 DEF Lose, tables, Writes
  <2>3. QED  BY <1>3, <2>1, <2>2 DEF Move
<1>18. QED
  BY <1>6, <1>7, <1>8, <1>10, <1>11, <1>12, <1>13, <1>14, <1>15, <1>16, <1>17 DEF Step

LEMMA StepMinted ==
  ASSUME TypeOK, \A d \in Call : Placed(d) /\ Minted(d), NEW c \in Call, Step(c)
  PROVE  \A d \in Call : Minted(d)'
<1> DEFINE r == call[c]
           q == call'[c]
<1>1. (\A d \in Call : d # c => call'[d] = call[d]) /\ Move(c)  BY StepMoves
<1>2. r.at \notin {"admitted", "refused"}
  BY <1>1 DEF Move, Arrives, GoesOn, IsOver, Blank, Ended
<1>3. ticket[c].state = None /\ client[c] = None  BY <1>2 DEF Minted
<1>4. /\ ticket \in [Call -> Ticket] /\ ticket' \in [Call -> Ticket]
      /\ client \in [Device -> {None, "live", "revoked"}] /\ Call \subseteq Device
  BY TicketsKept DEF TypeOK, Ticket, Device
<1>5. r.at = "insert" => r.kind = "enroll"  BY DEF Placed, Stages, Ended, Kind
<1>6. r.at = "ticket" => r.subject \in Device  BY DEF Placed, Stages, Ended, Kind
<1>7. r.kind = "stream" /\ r.at = "consume" => r.subject \in Call \ {c} /\ ticket[r.subject].state # None
  BY <1>3 DEF Placed
<1>8. r.at = "insert" => q.kind = "enroll"
  BY <1>1, <1>5 DEF Move, Arrives, GoesOn, IsOver, Blank, AfterAuth
<1>9. ASSUME NEW d \in Call PROVE client'[d] # None => call'[d].at = "admitted" /\ call'[d].kind = "enroll"
  <2>1. CASE client' = client  BY <1>1, <1>3, <2>1 DEF Minted
  <2>2. CASE r.at = "insert" /\ q.at = "admitted" /\ client' = [client EXCEPT ![c] = "live"]
    BY <1>1, <1>4, <1>8, <2>2 DEF Minted
  <2>3. QED  BY <1>1, <2>1, <2>2 DEF Move, Writes
<1>10. ASSUME NEW d \in Call PROVE ticket'[d].state # None => call'[d].at = "admitted" /\ ticket'[d].client \in Device
  <2>1. CASE ticket' = ticket  BY <1>1, <1>3, <2>1 DEF Minted
  <2>2. CASE r.at = "consume" /\ q.at = "client" /\ r.kind = "stream"
    <3>1. ticket' = [ticket EXCEPT ![r.subject].state = "consumed"]
      BY <1>1, <2>2 DEF Move, Arrives, GoesOn, IsOver, Blank
    <3>2. d # r.subject => ticket'[d] = ticket[d]  BY <1>4, <3>1
    <3>3. ticket'[r.subject].client = ticket[r.subject].client  BY <1>4, <1>7, <2>2, <3>1 DEF Ticket
    <3>4. QED  BY <1>1, <1>3, <1>7, <2>2, <3>2, <3>3 DEF Minted
  <2>3. ASSUME r.at = "ticket", q.at = "admitted", NEW n,
               ticket' = [ticket EXCEPT ![c] = [state |-> "issued", expires_at |-> n, client |-> r.subject]]
        PROVE  ticket'[d].state # None => call'[d].at = "admitted" /\ ticket'[d].client \in Device
    BY <1>1, <1>4, <1>6, <2>3 DEF Minted
  <2>4. QED  BY <1>1, <2>1, <2>2, <2>3 DEF Move, Writes
<1>11. QED  BY <1>9, <1>10 DEF Minted

\* A barred call never passes the read that refuses it.
LEMMA StepBarredWaits ==
  ASSUME TypeOK, \A d \in Call : Placed(d) /\ Minted(d) /\ BarredWaits(d), NEW c \in Call, Step(c)
  PROVE  \A d \in Call : BarredWaits(d)'
<1> DEFINE r == call[c]
           q == call'[c]
<1>1. (\A d \in Call : d # c => call'[d] = call[d]) /\ Move(c)  BY StepMoves
<1>2. account' = account  BY StepNow
<1>3. \A t \in Call : ticket[t].state # None => ticket'[t].client = ticket[t].client  BY TicketsKept
<1>4. \A x \in Device : client[x] = "revoked" => client'[x] = "revoked"
  <2>1. client \in [Device -> {None, "live", "revoked"}] /\ c \in Device  BY DEF TypeOK, Device
  <2>2. r.at = "insert" => client[c] = None  BY DEF Minted
  <2>3. QED  BY <1>1, <2>1, <2>2 DEF Move, Writes, None
<1>5. ASSUME NEW d \in Call, BarredWaits(d), call'[d].barred => call[d].barred,
             call'[d].kind = call[d].kind, call'[d].subject = call[d].subject,
             account # "suspended" => call'[d].at = call[d].at \/ call'[d].at = "client",
             account = "suspended" => \/ call'[d].at \in {"consume", "client", "account"}
                                      \/ call[d].kind = "enroll" /\ call'[d].at \in {"clock", "claim"},
             call[d].kind = "stream" => call[d].subject \in Call /\ ticket[call[d].subject].state # None
      PROVE  BarredWaits(d)'
  <2>1. Speaker(call[d].kind, call[d].subject) \in Device =>
          Speaker(call[d].kind, call[d].subject)' = Speaker(call[d].kind, call[d].subject)
    BY <1>3, <1>5 DEF Speaker
  <2>2. CASE account = "suspended"  BY <1>2, <1>5, <2>2 DEF BarredWaits
  <2>3. CASE account # "suspended"  BY <1>2, <1>4, <1>5, <2>1, <2>3 DEF BarredWaits, Speaker
  <2>4. QED  BY <2>2, <2>3
<1>6. ASSUME NEW d \in Call, d # c PROVE BarredWaits(d)'
  <2>1. call'[d] = call[d]  BY <1>1, <1>6
  <2>2. CASE ~ call[d].barred  BY <2>1, <2>2 DEF BarredWaits
  <2>3. CASE call[d].barred
    <3>1. call[d].at # "refused"  BY <2>3 DEF BarredWaits
    <3>2. call[d].kind = "stream" => call[d].subject \in Call /\ ticket[call[d].subject].state # None
      BY <3>1 DEF Placed
    <3>3. account = "suspended" => \/ call[d].at \in {"consume", "client", "account"}
                                   \/ call[d].kind = "enroll" /\ call[d].at \in {"clock", "claim"}
      BY <2>3 DEF BarredWaits
    <3>4. QED  BY <1>5, <2>1, <3>2, <3>3
  <2>4. QED  BY <2>2, <2>3
<1>7. ASSUME Arrives(r, q) PROVE BarredWaits(c)'
  <2>1. CASE ~ q.barred  BY <2>1 DEF BarredWaits
  <2>2. CASE q.barred /\ account = "suspended"
    BY <1>2, <1>7, <2>2 DEF Arrives, BarredWaits
  <2>3. CASE q.barred /\ account # "suspended"
    <3>1. Speaker(q.kind, q.subject) # None /\ client[Speaker(q.kind, q.subject)] = "revoked"
      BY <1>7, <2>3 DEF Arrives, Barred
    <3>2. q.kind # "enroll" /\ q.at \in {"consume", "client"}  BY <1>7, <3>1 DEF Arrives, Speaker
    <3>3. Speaker(q.kind, q.subject) \in Device  BY <1>7, <3>2 DEF Arrives, Speaker, Minted
    <3>4. Speaker(call[c].kind, call[c].subject)' = Speaker(q.kind, q.subject)
      BY <1>3, <1>7 DEF Arrives, Speaker
    <3>5. QED  BY <1>4, <3>1, <3>2, <3>3, <3>4 DEF BarredWaits
  <2>4. QED  BY <2>1, <2>2, <2>3
<1>8. ASSUME GoesOn(r, q) PROVE BarredWaits(c)'
  <2>1. CASE ~ r.barred  BY <1>8, <2>1 DEF GoesOn, BarredWaits
  <2>2. CASE r.barred
    <3>1. r.at # "refused" /\ r.at \notin Ended  BY <2>2 DEF BarredWaits, Ended
    <3>2. r.kind = "stream" => r.subject \in Call /\ ticket[r.subject].state # None
      BY <3>1 DEF Placed
    <3>3. r.kind \in Kind /\ r.at \in Stages(r.kind)  BY <3>1 DEF Placed, Ended
    <3>4. CASE account = "suspended"
      BY <1>5, <1>8, <2>2, <3>2, <3>4 DEF GoesOn, BarredWaits
    <3>5. CASE account # "suspended"
      BY <1>5, <1>8, <2>2, <3>2, <3>5 DEF GoesOn, BarredWaits
    <3>6. QED  BY <3>4, <3>5
  <2>3. QED  BY <2>1, <2>2
<1>9. ASSUME IsOver(r, q) PROVE BarredWaits(c)'
  <2>1. ~ q.barred
    <3>1. CASE q.at = "refused" /\ ~ q.barred  BY <3>1
    <3>2. CASE r.at \in {"insert", "ticket", "receipt"} /\ (q.barred <=> r.barred)
      BY <3>2 DEF BarredWaits
    <3>3. CASE r.at = "claim" /\ r.kind # "enroll" /\ (q.barred <=> r.barred)
      BY <3>3 DEF BarredWaits
    <3>4. QED  BY <1>9, <3>1, <3>2, <3>3 DEF IsOver
  <2>2. QED  BY <2>1 DEF BarredWaits
<1>10. QED  BY <1>1, <1>6, <1>7, <1>8, <1>9 DEF Move

LEMMA StepUsedOnce ==
  ASSUME TypeOK, \A d \in Call : Placed(d) /\ Minted(d), UsedOnce, NEW c \in Call, Step(c)
  PROVE  UsedOnce'
<1> DEFINE r == call[c]
           q == call'[c]
<1>1. (\A d \in Call : d # c => call'[d] = call[d]) /\ Move(c)  BY StepMoves
<1>2. ASSUME NEW tk \in Token PROVE \A d, e \in TokenUsers(tk)' : d = e /\ enrollment'[tk].state = "consumed"
  <2>1. CASE r.at = "consume" /\ q.at = "account" /\ r.kind = "enroll"
    <3>1. /\ q.kind = r.kind /\ q.subject = r.subject
          /\ enrollment[r.subject].state = "issued"
          /\ enrollment' = [enrollment EXCEPT ![r.subject].state = "consumed"]
      BY <1>1, <2>1 DEF Move, Arrives, GoesOn, IsOver, Blank
    <3>2. r.subject \in Token  BY <2>1 DEF Placed, Ended
    <3>3. enrollment'[r.subject].state = "consumed"
          /\ \A x \in Token : x # r.subject => enrollment'[x] = enrollment[x]
      BY <3>1, <3>2 DEF TypeOK
    <3>4. TokenUsers(r.subject) = {}  BY <3>1, <3>2 DEF UsedOnce
    <3>5. CASE tk = r.subject
      <4>1. \A d \in TokenUsers(tk)' : d = c
        BY <1>1, <3>4, <3>5 DEF TokenUsers
      <4>2. QED  BY <3>3, <3>5, <4>1
    <3>6. CASE tk # r.subject
      <4>1. TokenUsers(tk)' \subseteq TokenUsers(tk)
        BY <1>1, <3>1, <3>6 DEF TokenUsers
      <4>2. QED  BY <3>3, <3>6, <4>1 DEF UsedOnce
    <3>7. QED  BY <3>5, <3>6
  <2>2. CASE ~(r.at = "consume" /\ q.at = "account" /\ r.kind = "enroll")
    <3>1. enrollment' = enrollment  BY <1>1, <2>2 DEF Move, Writes
    <3>2. r.at \notin Ended => r.kind \in Kind /\ r.at \in Stages(r.kind)  BY DEF Placed, Ended
    <3>3. q.kind = "enroll" /\ q.at \in {"account", "insert", "admitted"} =>
            r.kind = "enroll" /\ r.subject = q.subject /\ r.at \in {"account", "insert"}
      <4>1. CASE Arrives(r, q)  BY <4>1 DEF Arrives
      <4>2. CASE GoesOn(r, q)  BY <2>2, <3>2, <4>2 DEF GoesOn, AfterAuth, Kind, Ended
      <4>3. CASE IsOver(r, q)  BY <3>2, <4>3 DEF IsOver, Stages, Kind
      <4>4. QED  BY <1>1, <4>1, <4>2, <4>3 DEF Move
    <3>4. TokenUsers(tk)' \subseteq TokenUsers(tk)  BY <1>1, <3>3 DEF TokenUsers
    <3>5. QED  BY <3>1, <3>4 DEF UsedOnce
  <2>3. QED  BY <2>1, <2>2
<1>3. ASSUME NEW t \in Call PROVE \A d, e \in TicketUsers(t)' : d = e /\ ticket'[t].state = "consumed"
  <2>0. ticket \in [Call -> Ticket]  BY DEF TypeOK, Ticket
  <2>1. CASE r.at = "consume" /\ q.at = "client" /\ r.kind = "stream"
    <3>1. /\ q.kind = r.kind /\ q.subject = r.subject
          /\ ticket[r.subject].state = "issued"
          /\ ticket' = [ticket EXCEPT ![r.subject].state = "consumed"]
      BY <1>1, <2>1 DEF Move, Arrives, GoesOn, IsOver, Blank
    <3>2. r.subject \in Call  BY <2>1 DEF Placed
    <3>3. ticket'[r.subject].state = "consumed"
          /\ \A x \in Call : x # r.subject => ticket'[x] = ticket[x]
      BY <2>0, <3>1, <3>2 DEF Ticket
    <3>4. TicketUsers(r.subject) = {}  BY <3>1, <3>2 DEF UsedOnce
    <3>5. CASE t = r.subject
      <4>1. \A d \in TicketUsers(t)' : d = c
        BY <1>1, <3>4, <3>5 DEF TicketUsers
      <4>2. QED  BY <3>3, <3>5, <4>1
    <3>6. CASE t # r.subject
      <4>1. TicketUsers(t)' \subseteq TicketUsers(t)
        BY <1>1, <3>1, <3>6 DEF TicketUsers
      <4>2. QED  BY <3>3, <3>6, <4>1 DEF UsedOnce
    <3>7. QED  BY <3>5, <3>6
  <2>2. CASE ~(r.at = "consume" /\ q.at = "client" /\ r.kind = "stream")
    <3>1. ticket[t].state = "consumed" => ticket'[t].state = "consumed"
      <4>1. ticket[t].state = "consumed" => call[t].at = "admitted"  BY DEF Minted, None
      <4>2. \/ ticket' = ticket
            \/ r.at = "ticket" /\ \E n : ticket' = [ticket EXCEPT ![c] =
                 [state |-> "issued", expires_at |-> n, client |-> r.subject]]
        BY <1>1, <2>2 DEF Move, Writes
      <4>3. QED  BY <2>0, <4>1, <4>2
    <3>2. r.at \notin Ended => r.kind \in Kind /\ r.at \in Stages(r.kind)  BY DEF Placed, Ended
    <3>3. q.kind = "stream" /\ q.at \notin {"consume", "refused"} =>
            r.kind = "stream" /\ r.subject = q.subject /\ r.at \notin {"consume", "refused"}
      <4>1. CASE Arrives(r, q)  BY <4>1 DEF Arrives
      <4>2. CASE GoesOn(r, q)  BY <2>2, <3>2, <4>2 DEF GoesOn, AfterAuth, Kind, Ended
      <4>3. CASE IsOver(r, q)  BY <3>2, <4>3 DEF IsOver, Stages, Kind, Ended
      <4>4. QED  BY <1>1, <4>1, <4>2, <4>3 DEF Move
    <3>4. TicketUsers(t)' \subseteq TicketUsers(t)  BY <1>1, <3>3 DEF TicketUsers
    <3>5. QED  BY <3>1, <3>4 DEF UsedOnce
  <2>3. QED  BY <2>1, <2>2
<1>4. QED  BY <1>2, <1>3 DEF UsedOnce

-----------------------------------------------------------------------------
(***************************************************************************)
(* The rate limiter.                                                       *)
(***************************************************************************)
BucketRow(n) == [count : Nat, window_start : 0..n]

\* The row of a claim: a new window at the caller's clock, or one more in the old one.
LEMMA ClaimRow ==
  ASSUME TypeOK, NEW c \in Call, NEW b \in Bucket
  PROVE  LET old == bucket[b]
             row == claimRateBucket(old, call[c].clock)
         IN /\ row \in BucketRow(now)
            /\ \/ /\ row.count = 1 /\ row.window_start = call[c].clock
                  /\ old.count = 0 \/ call[c].clock - old.window_start >= Window
               \/ row.count = old.count + 1 /\ row.window_start = old.window_start
<1>1. bucket[b].count \in Nat /\ bucket[b].window_start \in 0..now
      /\ bucket[b] \in [count : 0..Cardinality(Call), window_start : 0..now]
  BY AccessAssumption, FS_CardinalityType DEF TypeOK
<1>2. call[c].clock \in 0..now /\ now \in Nat  BY CallType DEF CallRow
<1>3. QED  BY <1>1, <1>2 DEF claimRateBucket, BucketRow

LEMMA BucketMoves ==
  ASSUME TypeOK, \A d \in Call : Placed(d), NEW c \in Call, Step(c), ~ checkRateLimit(c)
  PROVE  bucket' = bucket /\ call'[c].claimed = call[c].claimed
<1> DEFINE r == call[c]
           q == call'[c]
<1>1. Move(c)  BY StepMoves
<1>2. CASE r.at # "claim"
  BY <1>1, <1>2 DEF Move, Writes, Arrives, GoesOn, IsOver, Blank
<1>3. CASE r.at = "claim"
  <2>1. Lose(c)
    BY <1>3 DEF Step, handleEnroll, handleCreateSttSession, handleInference, handleStoreRedeem,
                authFromSttUpgrade, Arrive, getClientByKeyId, getClient, getAccount, nowEpochSeconds,
                consumeEnrollment, createClient, createSttTicket, consumeSttTicket, redeemReceipt
  <2>2. Sets(c, Over(r, "refused", r.claimed))  BY <2>1, RefuseSets DEF Lose
  <2>3. q = Over(r, "refused", r.claimed)  BY <2>2, CallType DEF Sets
  <2>4. QED  BY <2>1, <2>3 DEF Lose, Over, tables
<1>4. QED  BY <1>2, <1>3

LEMMA Buckets ==
  ASSUME NEW kind PROVE BucketOf(kind) \in Bucket
BY DEF BucketOf, Bucket

\* A call stays past its claim, and a claim takes it there.
LEMMA PassedGrows ==
  ASSUME TypeOK, \A d \in Call : Placed(d), NEW c \in Call, Step(c), NEW b \in Bucket
  PROVE  /\ Passed(b) \subseteq Passed(b)'
         /\ call[c].at = "claim" => /\ c \notin Passed(b)
                                    /\ BucketOf(call[c].kind) = b => c \in Passed(b)'
                                    /\ call'[c].kind = call[c].kind
<1> DEFINE r == call[c]
           q == call'[c]
<1>1. (\A d \in Call : d # c => call'[d] = call[d]) /\ Move(c)  BY StepMoves
<1>2. ASSUME c \in Passed(b) PROVE c \in Passed(b)'
  <2>1. CASE Arrives(r, q)  BY <1>2, <2>1 DEF Arrives, Passed, Blank, None
  <2>2. CASE GoesOn(r, q)  BY <1>2, <2>2 DEF GoesOn, Passed, AfterAuth
  <2>3. CASE IsOver(r, q)  BY <1>2, <2>3 DEF IsOver, Passed
  <2>4. QED  BY <1>1, <2>1, <2>2, <2>3 DEF Move
<1>3. Passed(b) \subseteq Passed(b)'  BY <1>1, <1>2 DEF Passed
<1>4. ASSUME r.at = "claim"
      PROVE  /\ c \notin Passed(b) /\ q.kind = r.kind
             /\ BucketOf(r.kind) = b => c \in Passed(b)'
  <2>1. CASE GoesOn(r, q)  BY <1>4, <2>1 DEF GoesOn, Passed
  <2>2. CASE IsOver(r, q)  BY <1>4, <2>2 DEF IsOver, Passed
  <2>3. QED  BY <1>1, <1>4, <2>1, <2>2 DEF Move, Arrives, Blank
<1>5. QED  BY <1>3, <1>4

LEMMA PassedFinite ==
  ASSUME NEW b
  PROVE  /\ IsFiniteSet(Passed(b)) /\ Cardinality(Passed(b)) \in Nat
         /\ Cardinality(Passed(b)) <= Cardinality(Call)
BY AccessAssumption, FS_Subset, FS_CardinalityType DEF Passed

LEMMA PassedFiniteNext ==
  ASSUME NEW b
  PROVE  /\ IsFiniteSet(Passed(b)') /\ Cardinality(Passed(b)') \in Nat
         /\ Cardinality(Passed(b)') <= Cardinality(Call)
BY AccessAssumption, FS_Subset, FS_CardinalityType DEF Passed

LEMMA StepCounted ==
  ASSUME TypeOK, \A d \in Call : Placed(d), \A b \in Bucket : Counted(b), NEW c \in Call, Step(c)
  PROVE  /\ \A b \in Bucket : Counted(b)'
         /\ bucket' \in [Bucket -> [count : 0..Cardinality(Call), window_start : 0..now]]
<1>0. /\ bucket \in [Bucket -> [count : 0..Cardinality(Call), window_start : 0..now]]
      /\ Cardinality(Call) \in Nat /\ now \in Nat
  BY AccessAssumption, FS_CardinalityType, CallType DEF TypeOK
<1>1. ASSUME NEW b \in Bucket PROVE Cardinality(Passed(b)) <= Cardinality(Passed(b)')
  BY PassedGrows, PassedFiniteNext, FS_Subset
<1>2. CASE ~ checkRateLimit(c)
  <2>1. bucket' = bucket  BY <1>2, BucketMoves
  <2>2. \A b \in Bucket : Counted(b)'
    <3> SUFFICES ASSUME NEW b \in Bucket PROVE Counted(b)'  OBVIOUS
    <3>1. bucket[b].count \in Nat  BY <1>0
    <3>2. QED  BY <1>1, <2>1, <3>1, PassedFinite, PassedFiniteNext DEF Counted
  <2>3. QED  BY <1>0, <2>1, <2>2
<1>3. CASE checkRateLimit(c)
  <2>0. PICK b \in Bucket : b = BucketOf(call[c].kind)  BY Buckets
  <2> DEFINE row == claimRateBucket(bucket[b], call[c].clock)
  <2>1. call[c].at = "claim" /\ bucket' = [bucket EXCEPT ![b] = row]
    BY <1>3, <2>0 DEF checkRateLimit
  <2>2. row \in BucketRow(now) /\ row.count <= bucket[b].count + 1
    <3>1. bucket[b].count \in Nat  BY <1>0
    <3>2. QED  BY <3>1, ClaimRow
  <2> HIDE DEF row
  <2>3. Cardinality(Passed(b)) + 1 <= Cardinality(Passed(b)')
    <3>1. Passed(b) \cup {c} \subseteq Passed(b)' /\ c \notin Passed(b)  BY <2>0, <2>1, PassedGrows
    <3>2. Cardinality(Passed(b) \cup {c}) = Cardinality(Passed(b)) + 1
      BY <3>1, PassedFinite, FS_AddElement
    <3>3. Cardinality(Passed(b) \cup {c}) <= Cardinality(Passed(b)')
      BY <3>1, PassedFiniteNext, FS_Subset
    <3>4. QED  BY <3>2, <3>3
  <2>4. bucket'[b] = row /\ \A x \in Bucket : x # b => bucket'[x] = bucket[x]  BY <1>0, <2>1
  <2>5. row.count <= Cardinality(Passed(b)')
    <3>1. Cardinality(Passed(b)) \in Nat /\ Cardinality(Passed(b)') \in Nat
      BY PassedFinite, PassedFiniteNext
    <3>2. bucket[b].count <= Cardinality(Passed(b)) /\ bucket[b].count \in Nat  BY <1>0 DEF Counted
    <3>3. row.count \in Nat  BY <2>2 DEF BucketRow
    <3>4. QED  BY <2>2, <2>3, <3>1, <3>2, <3>3
  <2>6. ASSUME NEW x \in Bucket PROVE Counted(x)'
    <3>1. CASE x = b  BY <2>4, <2>5, <3>1 DEF Counted
    <3>2. CASE x # b
      <4>1. bucket[x].count \in Nat /\ bucket'[x] = bucket[x]  BY <1>0, <2>4, <3>2
      <4>2. QED  BY <1>1, <4>1, PassedFinite, PassedFiniteNext DEF Counted
    <3>3. QED  BY <3>1, <3>2
  <2>7. row \in [count : 0..Cardinality(Call), window_start : 0..now]
    <3>1. row.count \in 0..Cardinality(Call)  BY <1>0, <2>2, <2>5, PassedFiniteNext DEF BucketRow
    <3>2. QED  BY <2>2, <3>1 DEF BucketRow
  <2>8. QED  BY <1>0, <2>1, <2>6, <2>7
<1>4. QED  BY <1>2, <1>3

LEMMA ClaimsFinite ==
  ASSUME NEW b, NEW S \in SUBSET Claims(b), NEW t
  PROVE  /\ IsFiniteSet(S) /\ Cardinality(S) \in Nat
         /\ IsFiniteSet(Within(S, t)) /\ Cardinality(Within(S, t)) \in Nat
         /\ Cardinality(Within(S, t)) <= Cardinality(S)
<1>1. S \subseteq Call /\ Within(S, t) \subseteq S  BY DEF Claims, Within
<1>2. IsFiniteSet(S)  BY <1>1, AccessAssumption, FS_Subset
<1>3. QED  BY <1>1, <1>2, FS_Subset, FS_CardinalityType

\* A union is no larger than its parts together.
LEMMA UnionBound ==
  ASSUME NEW S, NEW T, IsFiniteSet(S), IsFiniteSet(T), NEW U \in SUBSET (S \cup T)
  PROVE  /\ Cardinality(U) \in Nat
         /\ Cardinality(U) <= Cardinality(S) + Cardinality(T)
<1>1. /\ IsFiniteSet(S \cup T)
      /\ Cardinality(S \cup T) = Cardinality(S) + Cardinality(T) - Cardinality(S \cap T)
  BY FS_Union
<1>2. IsFiniteSet(S \cap T) /\ Cardinality(S \cap T) \in Nat
  BY FS_Intersection, FS_CardinalityType
<1>3. Cardinality(S) \in Nat /\ Cardinality(T) \in Nat /\ Cardinality(S \cup T) \in Nat
  BY <1>1, FS_CardinalityType
<1>4. IsFiniteSet(U) /\ Cardinality(U) <= Cardinality(S \cup T)  BY <1>1, FS_Subset
<1>5. Cardinality(U) \in Nat  BY <1>4, FS_CardinalityType
<1>6. QED  BY <1>1, <1>2, <1>3, <1>4, <1>5

\* Where no claim is granted and the bucket's row stays, nothing changes.
LEMMA BurstsKept ==
  ASSUME NEW b \in Bucket, Bursts(b), TypeOK, now' \in Nat, now <= now', bucket'[b] = bucket[b],
         Claims(b)' = Claims(b), Passed(b) \subseteq Passed(b)',
         \A d \in Claims(b) : call'[d].claimed = call[d].claimed
  PROVE  Bursts(b)'
<1>1. PICK W \in SUBSET Claims(b), tau \in 0..now : Windowed(b, W, tau)  BY DEF Bursts
<1>2. ASSUME NEW S \in SUBSET Claims(b), NEW t PROVE Within(S, t)' = Within(S, t)
  BY <1>2 DEF Within
<1>3. Windowed(b, W, tau)'
  <2>1. \A t : Within(Claims(b), t)' = Within(Claims(b), t)  BY <1>2 DEF Within
  <2>2. \A t : Within(Claims(b) \ W, t)' = Within(Claims(b) \ W, t)  BY <1>2 DEF Within
  <2>3. QED  BY <1>1, <2>1, <2>2 DEF Windowed
<1>4. tau \in 0..now'  BY CallType
<1>5. QED  BY <1>1, <1>3, <1>4 DEF Bursts

\* A claim is granted, or only counted.
LEMMA ClaimBursts ==
  ASSUME TypeOK, \A d \in Call : Placed(d), \A x \in Bucket : Bursts(x),
         NEW c \in Call, Step(c), checkRateLimit(c), NEW b \in Bucket, b = BucketOf(call[c].kind)
  PROVE  Bursts(b)'
<1> DEFINE r == call[c]
           old == bucket[b]
           row == claimRateBucket(old, r.clock)
           A == Claims(b)
           L == Limit[b]
           D == Window - MaxLag
<1>1. r.at = "claim" /\ bucket' = [bucket EXCEPT ![b] = row]  BY DEF checkRateLimit
<1>2. /\ row \in BucketRow(now)
      /\ \/ /\ row.count = 1 /\ row.window_start = r.clock
            /\ old.count = 0 \/ r.clock - old.window_start >= Window
         \/ row.count = old.count + 1 /\ row.window_start = old.window_start
  BY ClaimRow
<1>3. bucket'[b] = row /\ old.count \in Nat /\ old.window_start \in 0..now
  BY <1>1, AccessAssumption, FS_CardinalityType DEF TypeOK
<1> HIDE DEF row
<1>4. row.count \in Nat /\ row.window_start \in 0..now  BY <1>2 DEF BucketRow
<1>5. /\ now \in Nat /\ now' = now /\ r.clock \in 0..now /\ now - r.clock <= MaxLag
      /\ L \in Nat /\ Window \in Nat /\ MaxLag \in Nat /\ D >= 1 /\ D \in Nat
  BY <1>1, CallType, StepNow, AccessAssumption DEF CallRow, Placed
<1>6. /\ Passed(b) \subseteq Passed(b)' /\ c \notin Passed(b) /\ c \in Passed(b)'
      /\ call'[c].kind = r.kind
  BY <1>1, PassedGrows
<1>7. A \subseteq Passed(b) /\ c \notin A /\ A \subseteq Call  BY <1>6 DEF Bursts, Claims
<1>8. \A d \in Call : d # c => call'[d] = call[d]  BY StepMoves
<1>9. \A d \in A : call[d].claimed \in Nat /\ call[d].claimed - 1 <= now /\ call[d].claimed > 0
  BY CallType DEF CallRow, Claims
<1>10. PICK W \in SUBSET A, tau \in 0..now : Windowed(b, W, tau)  BY DEF Bursts
<1>11. /\ tau <= old.window_start + MaxLag /\ Cardinality(W) <= old.count /\ Cardinality(W) <= L
       /\ \A d \in A \ W : call[d].claimed - 1 <= tau
       /\ \A t \in Time : t + Window - MaxLag - 1 >= tau => Cardinality(Within(A \ W, t)) <= L
       /\ \A t \in Time : Cardinality(Within(A, t)) <= 2 * L
  BY <1>10 DEF Windowed
<1>12. IsFiniteSet(W) /\ Cardinality(W) \in Nat  BY ClaimsFinite
<1>13. ASSUME NEW S \in SUBSET A, NEW t PROVE Within(S, t)' = Within(S, t)
  BY <1>7, <1>8 DEF Within
<1>14. CASE ~ rateLimitAllows(row, b)
  <2>1. call'[c].claimed = r.claimed
    <3>1. Sets(c, Over(r, "refused", r.claimed))
      BY <1>14, RefuseSets DEF checkRateLimit, row
    <3>2. call'[c] = Over(r, "refused", r.claimed)  BY <3>1, CallType DEF Sets
    <3>3. QED  BY <3>2 DEF Over
  <2>2. Claims(b)' = A  BY <1>6, <1>8, <2>1 DEF Claims
  <2>3. Windowed(b, W, tau)'
    <3>1. \A t : Within(Claims(b), t)' = Within(A, t) /\ Within(Claims(b) \ W, t)' = Within(A \ W, t)
      BY <1>7, <1>8, <2>2 DEF Within
    <3>2. tau <= row.window_start + MaxLag /\ Cardinality(W) <= row.count
      <4>1. CASE row.count = old.count + 1 /\ row.window_start = old.window_start
        BY <1>3, <1>5, <1>11, <1>12, <4>1
      <4>2. CASE row.count = 1 /\ row.window_start = r.clock
                 /\ (old.count = 0 \/ r.clock - old.window_start >= Window)
        <5>1. L = 0  BY <1>5, <1>14, <4>2 DEF rateLimitAllows
        <5>2. CASE old.count = 0
          BY <1>3, <1>5, <1>11, <1>12, <4>2, <5>1, <5>2
        <5>3. CASE r.clock - old.window_start >= Window
          BY <1>3, <1>5, <1>11, <1>12, <4>2, <5>1, <5>3
        <5>4. QED  BY <4>2, <5>2, <5>3
      <4>3. QED  BY <1>2, <4>1, <4>2
    <3>3. \A d \in A \ W : call'[d].claimed - 1 <= tau  BY <1>7, <1>8, <1>11
    <3>4. QED  BY <1>3, <1>11, <2>2, <3>1, <3>2, <3>3 DEF Windowed
  <2>4. row.count # 0  BY <1>2, <1>3
  <2>5. QED  BY <1>3, <1>5, <1>6, <1>7, <2>2, <2>3, <2>4 DEF Bursts
<1>15. CASE rateLimitAllows(row, b)
  <2>1. call'[c].claimed = now + 1
    <3>1. CASE b = "infer"
      <4>1. Sets(c, Over(r, "admitted", now + 1))  BY <1>15, <3>1, ClaimSets DEF row
      <4>2. call'[c] = Over(r, "admitted", now + 1)  BY <4>1, CallType DEF Sets
      <4>3. QED  BY <4>2 DEF Over
    <3>2. CASE b # "infer"
      <4>1. Sets(c, Granted(r))  BY <1>15, <3>2, ClaimSets DEF row
      <4>2. call'[c] = Granted(r) /\ r \in CallRow(now)  BY <4>1, CallType DEF Sets
      <4>3. QED  BY <4>2 DEF Granted, CallRow
    <3>3. QED  BY <3>1, <3>2
  <2>2. Claims(b)' = A \cup {c}
    BY <1>5, <1>6, <1>8, <2>1 DEF Claims
  <2>3. row.count <= L /\ row.count >= 1 /\ L >= 1
    BY <1>2, <1>3, <1>4, <1>5, <1>15 DEF rateLimitAllows
  <2>4. ASSUME NEW t \in Time, NEW S \in SUBSET A
        PROVE  Within(S \cup {c}, t)' = IF now \in Span(t) THEN Within(S, t) \cup {c} ELSE Within(S, t)
    <3>1. Within(S, t)' = Within(S, t)  BY <1>13
    <3>2. Within(S \cup {c}, t)' = Within(S, t)' \cup (IF now \in Span(t) THEN {c} ELSE {})
      <4>1. call'[c].claimed - 1 = now  BY <1>5, <2>1
      <4>2. QED  BY <4>1 DEF Within
    <3>3. QED  BY <3>1, <3>2
  \* It is enough to bound the claims before it in the spans that hold its instant.
  <2>5. ASSUME NEW V \in SUBSET (A \cup {c}), NEW tau2 \in 0..now, c \in V,
               tau2 <= row.window_start + MaxLag, Cardinality(V) <= row.count,
               \A d \in A \ V : call[d].claimed - 1 <= tau2,
               \A t \in Time : t + Window - MaxLag - 1 >= tau2 => Cardinality(Within(A \ V, t)) <= L
        PROVE  Bursts(b)'
    <3>1. Claims(b)' \ V = A \ V  BY <1>7, <2>2, <2>5
    <3>2. IsFiniteSet(V) /\ Cardinality(V) \in Nat
      BY <1>7, <2>5, AccessAssumption, FS_Subset, FS_CardinalityType
    <3>3. Cardinality(V) <= L  BY <2>3, <2>5, <3>2, <1>4, <1>5
    <3>4. \A t : Within(Claims(b) \ V, t)' = Within(A \ V, t)
      <4>1. \A t : Within(Claims(b) \ V, t)' = {d \in A \ V : call'[d].claimed - 1 \in Span(t)}
        BY <3>1 DEF Within
      <4>2. QED  BY <1>7, <1>8, <4>1 DEF Within
    <3>5. ASSUME NEW t \in Time PROVE Cardinality(Within(Claims(b), t)') <= 2 * L
      <4>1. Within(Claims(b), t)' = IF now \in Span(t) THEN Within(A, t) \cup {c} ELSE Within(A, t)
        BY <2>2, <2>4 DEF Within
      <4>2. CASE now \notin Span(t)  BY <1>11, <4>1, <4>2
      <4>3. CASE now \in Span(t)
        <5>1. t + Window - MaxLag - 1 >= tau2  BY <1>5, <2>5, <4>3 DEF Span, Time
        <5>2. Cardinality(Within(A \ V, t)) <= L  BY <2>5, <5>1
        <5>3. /\ IsFiniteSet(Within(A \ V, t)) /\ Cardinality(Within(A \ V, t)) \in Nat
          BY ClaimsFinite
        <5>4. Within(Claims(b), t)' \subseteq Within(A \ V, t) \cup V
          BY <2>5, <4>1, <4>3 DEF Within
        <5>5. Cardinality(Within(Claims(b), t)') <= Cardinality(Within(A \ V, t)) + Cardinality(V)
              /\ Cardinality(Within(Claims(b), t)') \in Nat
          BY <3>2, <5>3, <5>4, UnionBound
        <5>6. QED  BY <1>5, <3>2, <3>3, <5>2, <5>3, <5>5
      <4>4. QED  BY <4>2, <4>3
    <3>6. \A d \in Claims(b)' \ V : call'[d].claimed - 1 <= tau2
      BY <1>7, <1>8, <2>5, <3>1
    <3>7. Windowed(b, V, tau2)'
      <4>1. tau2 <= bucket'[b].window_start + MaxLag /\ Cardinality(V) <= bucket'[b].count
        BY <1>3, <2>5
      <4>2. \A t \in Time : t + Window - MaxLag - 1 >= tau2 =>
              Cardinality(Within(Claims(b) \ V, t)') <= L
        BY <2>5, <3>4
      <4>3. QED  BY <3>3, <3>5, <3>6, <4>1, <4>2 DEF Windowed
    <3>8. Claims(b)' \subseteq Passed(b)'  BY <1>6, <1>7, <2>2
    <3>9. bucket'[b].count # 0  BY <1>3, <1>4, <2>3
    <3>10. V \in SUBSET Claims(b)' /\ tau2 \in 0..now'  BY <1>5, <2>2, <2>5
    <3>11. QED  BY <3>7, <3>8, <3>9, <3>10 DEF Bursts
  <2>6. CASE row.count = old.count + 1 /\ row.window_start = old.window_start
    <3> DEFINE V == W \cup {c}
    <3>1. Cardinality(V) = Cardinality(W) + 1  BY <1>7, <1>12, FS_AddElement
    <3>2. A \ V = A \ W  BY <1>7
    <3>3. Cardinality(V) <= row.count  BY <1>3, <1>11, <1>12, <2>6, <3>1
    <3>4. V \in SUBSET (A \cup {c}) /\ c \in V  BY <1>10
    <3> HIDE DEF V
    <3>5. tau <= row.window_start + MaxLag  BY <1>11, <2>6
    <3>6. QED  BY <1>10, <1>11, <2>5, <3>2, <3>3, <3>4, <3>5
  <2>7. CASE row.count = 1 /\ row.window_start = r.clock
             /\ (old.count = 0 \/ r.clock - old.window_start >= Window)
    <3> DEFINE V == {c}
    <3>1. V \in SUBSET (A \cup {c}) /\ c \in V /\ A \ V = A  BY <1>7
    <3>0. Cardinality({c}) = 1  BY FS_Singleton, Zenon
    <3>2. Cardinality(V) <= row.count  BY <1>4, <2>7, <3>0
    <3> HIDE DEF V
    <3>3. now <= row.window_start + MaxLag /\ now \in 0..now  BY <1>5, <2>7
    <3>4. \A d \in A \ V : call[d].claimed - 1 <= now  BY <1>9, <3>1
    <3>5. ASSUME NEW t \in Time, t + Window - MaxLag - 1 >= now
          PROVE  Cardinality(Within(A \ V, t)) <= L
      <4>1. CASE old.count = 0
        <5>1. A = {}  BY <4>1 DEF Bursts
        <5>2. Within(A \ V, t) = {}  BY <5>1 DEF Within
        <5>3. Cardinality(Within(A \ V, t)) = 0  BY <5>2, FS_EmptySet, Zenon
        <5>4. QED  BY <1>5, <5>3
      <4>2. CASE r.clock - old.window_start >= Window
        <5>1. ASSUME NEW d \in A \ W PROVE d \notin Within(A, t)
          <6>1. call[d].claimed - 1 <= tau /\ call[d].claimed \in Nat  BY <1>9, <1>11
          <6>2. tau < t  BY <1>3, <1>5, <1>11, <3>5, <4>2 DEF Time
          <6>3. QED  BY <6>1, <6>2, <1>5 DEF Within, Span, Time
        <5>2. Within(A \ V, t) \subseteq W  BY <3>1, <5>1 DEF Within
        <5>3. Cardinality(Within(A \ V, t)) <= Cardinality(W)  BY <1>12, <5>2, FS_Subset
        <5>4. Cardinality(Within(A \ V, t)) \in Nat  BY ClaimsFinite
        <5>5. QED  BY <1>5, <1>11, <1>12, <5>3, <5>4
      <4>3. QED  BY <2>7, <4>1, <4>2
    <3>6. QED  BY <2>5, <3>1, <3>2, <3>3, <3>4, <3>5
  <2>8. QED  BY <1>2, <2>6, <2>7
<1>16. QED  BY <1>14, <1>15

LEMMA StepBursts ==
  ASSUME TypeOK, \A d \in Call : Placed(d), \A x \in Bucket : Bursts(x), NEW c \in Call, Step(c),
         NEW b \in Bucket
  PROVE  Bursts(b)'
<1>1. (\A d \in Call : d # c => call'[d] = call[d]) /\ Move(c)  BY StepMoves
<1>2. now' = now /\ now \in Nat  BY StepNow, CallType
<1>3. Passed(b) \subseteq Passed(b)'  BY PassedGrows
<1>4. CASE checkRateLimit(c) /\ b = BucketOf(call[c].kind)  BY <1>4, ClaimBursts
<1>5. CASE checkRateLimit(c) /\ b # BucketOf(call[c].kind)
  <2>1. call'[c].kind = call[c].kind  BY <1>5, PassedGrows DEF checkRateLimit
  <2>2. Claims(b)' = Claims(b) /\ c \notin Claims(b)  BY <1>1, <1>5, <2>1 DEF Claims
  <2>3. bucket'[b] = bucket[b]  BY <1>5 DEF checkRateLimit, TypeOK
  <2>4. \A d \in Claims(b) : call'[d].claimed = call[d].claimed  BY <1>1, <2>2 DEF Claims
  <2>5. QED  BY <1>2, <1>3, <2>2, <2>3, <2>4, BurstsKept
<1>6. CASE ~ checkRateLimit(c)
  <2>1. bucket' = bucket /\ call'[c].claimed = call[c].claimed  BY <1>6, BucketMoves
  <2>2. call'[c].kind = call[c].kind \/ ~ (call[c].claimed > 0)
    BY <1>1 DEF Move, Arrives, GoesOn, IsOver, Blank
  <2>3. Claims(b)' = Claims(b)  BY <1>1, <2>1, <2>2 DEF Claims
  <2>4. \A d \in Claims(b) : call'[d].claimed = call[d].claimed  BY <1>1, <2>1 DEF Claims
  <2>5. QED  BY <1>2, <1>3, <2>1, <2>3, <2>4, BurstsKept
<1>7. QED  BY <1>4, <1>5, <1>6

-----------------------------------------------------------------------------
(***************************************************************************)
(* Steps of a call keep the invariant.                                     *)
(***************************************************************************)
LEMMA StepTypeOK ==
  ASSUME TypeOK, \A d \in Call : Placed(d) /\ Minted(d), \A b \in Bucket : Counted(b),
         NEW c \in Call, Step(c)
  PROVE  TypeOK'
<1>1. now' = now /\ account' = account  BY StepNow
<1>2. call' \in [Call -> CallRow(now)]  BY StepPlaced
<1>3. bucket' \in [Bucket -> [count : 0..Cardinality(Call), window_start : 0..now]]  BY StepCounted
<1>4. ticket' \in [Call -> Ticket]  BY TicketsKept
<1>5. Move(c)  BY StepMoves
<1>6. client' \in [Device -> {None, "live", "revoked"}]
  <2>1. c \in Device  BY DEF Device
  <2>2. QED  BY <1>5, <2>1 DEF Move, Writes, TypeOK
<1>7. enrollment' \in [Token -> [state : {None, "issued", "consumed"}, expires_at : 0..(LastTick + TTL)]]
  <2>1. CASE enrollment' = enrollment  BY <2>1 DEF TypeOK
  <2>2. CASE enrollment' # enrollment
    <3>1. enrollment' = [enrollment EXCEPT ![call[c].subject].state = "consumed"]
      BY <1>5, <2>2 DEF Move, Writes, Arrives, GoesOn, IsOver, Blank
    <3>2. ASSUME NEW tk \in Token
          PROVE  enrollment'[tk] \in [state : {None, "issued", "consumed"}, expires_at : 0..(LastTick + TTL)]
      <4>1. enrollment'[tk] = enrollment[tk] \/ enrollment'[tk] = [enrollment[tk] EXCEPT !.state = "consumed"]
        BY <3>1 DEF TypeOK
      <4>2. QED  BY <4>1 DEF TypeOK
    <3>3. enrollment' = [tk \in Token |-> enrollment'[tk]]  BY <3>1 DEF TypeOK
    <3>4. QED  BY <3>2, <3>3
  <2>3. QED  BY <2>1, <2>2
<1>8. credited' \in [Tx -> 0..1]
  <2>1. CASE credited' = credited  BY <2>1 DEF TypeOK
  <2>2. ASSUME NEW x \in Tx, credited[x] = 0, credited' = [credited EXCEPT ![x] = @ + 1]
        PROVE  credited' \in [Tx -> 0..1]
    BY <2>2 DEF TypeOK
  <2>3. CASE CallOnly(c)  BY <2>1, <2>3, CallOnlyFrame
  <2>4. CASE \/ checkRateLimit(c) \/ consumeEnrollment(c) \/ createClient(c) \/ createSttTicket(c)
             \/ consumeSttTicket(c)
    BY <2>1, <2>4 DEF checkRateLimit, consumeEnrollment, createClient, createSttTicket,
                      consumeSttTicket
  <2>5. CASE \E x \in Tx, r \in Receipt : redeemReceipt(c, x, r)
    BY <2>1, <2>2, <2>5 DEF redeemReceipt
  <2>6. QED  BY <2>3, <2>4, <2>5 DEF Step, CallOnly
<1>9. QED
  BY <1>1, <1>2, <1>3, <1>4, <1>6, <1>7, <1>8 DEF TypeOK, CallRow, Ticket

LEMMA StepIInv ==
  ASSUME IInv, NEW c \in Call, Step(c)
  PROVE  IInv'
BY StepTypeOK, StepPlaced, StepMinted, StepBarredWaits, StepUsedOnce, StepCounted, StepBursts
   DEF IInv

-----------------------------------------------------------------------------
(***************************************************************************)
(* So do the clock and the operator.                                       *)
(***************************************************************************)
\* No call and no bucket changes.
LEMMA CallsKept ==
  ASSUME IInv, call' = call, bucket' = bucket, now' \in Nat, now <= now'
  PROVE  /\ \A b \in Bucket : Counted(b)' /\ Bursts(b)'
         /\ \A tk : TokenUsers(tk)' = TokenUsers(tk) /\ TicketUsers(tk)' = TicketUsers(tk)
<1>1. ASSUME NEW b \in Bucket PROVE Counted(b)' /\ Bursts(b)'
  <2>1. Passed(b)' = Passed(b) /\ Claims(b)' = Claims(b)  BY DEF Passed, Claims
  <2>2. Counted(b)'  BY <2>1 DEF IInv, Counted
  <2>3. Bursts(b) /\ TypeOK  BY DEF IInv
  <2>4. Bursts(b)'  BY <2>1, <2>3, BurstsKept
  <2>5. QED  BY <2>2, <2>4
<1>2. QED  BY <1>1 DEF TokenUsers, TicketUsers

LEMMA TickIInv == ASSUME IInv, Tick PROVE IInv'
<1>1. /\ now \in Nat /\ now < LastTick /\ LastTick \in Nat /\ now' = now + 1
      /\ UNCHANGED <<account, client, enrollment, ticket, bucket, credited, call>>
      /\ \A c \in Call : call[c].at = "claim" => now - call[c].clock < MaxLag
  BY AccessAssumption, CallType DEF IInv, Tick, tables
<1>2. TypeOK'
  <2>1. 0..now \subseteq 0..now' /\ 0..(now + 1) \subseteq 0..(now' + 1) /\ now' \in Time
    BY <1>1 DEF Time
  <2>2. call \in [Call -> CallRow(now')]
    <3>1. call \in [Call -> CallRow(now)]  BY CallType DEF IInv
    <3>2. QED  BY <2>1, <3>1 DEF CallRow
  <2>3. bucket \in [Bucket -> [count : 0..Cardinality(Call), window_start : 0..now']]
    BY <2>1 DEF IInv, TypeOK
  <2>4. QED  BY <1>1, <2>1, <2>2, <2>3 DEF IInv, TypeOK, CallRow
<1>3. ASSUME NEW c \in Call PROVE Placed(c)' /\ Minted(c)' /\ BarredWaits(c)'
  <2>1. Placed(c) /\ Minted(c) /\ BarredWaits(c) /\ call[c].clock \in Nat
    BY <1>1, CallType DEF IInv, CallRow
  <2>2. call[c].at = "claim" => now' - call[c].clock <= MaxLag
    BY <1>1, <2>1, AccessAssumption
  <2>3. Placed(c)'  BY <1>1, <2>1, <2>2 DEF Placed
  <2>4. QED  BY <1>1, <2>1, <2>3 DEF Minted, BarredWaits, Speaker
<1>4. now' \in Nat /\ now <= now'  BY <1>1
<1>5. (\A b \in Bucket : Counted(b)' /\ Bursts(b)') /\ UsedOnce'
  BY <1>1, <1>4, CallsKept DEF IInv, UsedOnce
<1>6. QED  BY <1>2, <1>3, <1>5 DEF IInv

LEMMA SuspendIInv == ASSUME IInv, Suspend PROVE IInv'
<1>1. account' = "suspended" /\ UNCHANGED <<now, client, enrollment, ticket, bucket, credited, call>>
  BY DEF Suspend
<1>2. TypeOK'  BY <1>1 DEF IInv, TypeOK
<1>3. ASSUME NEW c \in Call PROVE Placed(c)' /\ Minted(c)' /\ BarredWaits(c)'
  <2>1. Placed(c) /\ Minted(c) /\ BarredWaits(c)  BY DEF IInv
  <2>2. QED  BY <1>1, <2>1 DEF Placed, Minted, BarredWaits, Speaker
<1>4. now' \in Nat /\ now <= now'  BY <1>1, CallType DEF IInv
<1>5. (\A b \in Bucket : Counted(b)' /\ Bursts(b)') /\ UsedOnce'
  BY <1>1, <1>4, CallsKept DEF IInv, UsedOnce
<1>6. QED  BY <1>2, <1>3, <1>5 DEF IInv

\* A token is issued once: its users had consumed it.
LEMMA IssueIInv ==
  ASSUME IInv, NEW tk \in Token, handleCreateEnrollment(tk)
  PROVE  IInv'
<1>1. /\ UNCHANGED <<now, account, client, ticket, bucket, credited, call>>
      /\ enrollment[tk].state = None
      /\ enrollment' = [enrollment EXCEPT ![tk].state = "issued", ![tk].expires_at = now + TTL]
  BY DEF handleCreateEnrollment
<1>2. enrollment' \in [Token -> [state : {None, "issued", "consumed"}, expires_at : 0..(LastTick + TTL)]]
  <2>1. now + TTL \in 0..(LastTick + TTL)  BY AccessAssumption DEF IInv, TypeOK, Time
  <2>2. enrollment[tk] \in [state : {None, "issued", "consumed"}, expires_at : 0..(LastTick + TTL)]
    BY DEF IInv, TypeOK
  <2> DEFINE e == [enrollment[tk] EXCEPT !.state = "issued", !.expires_at = now + TTL]
  <2>3. e.state = "issued" /\ e.expires_at = now + TTL  BY <2>2
  <2>4. e \in [state : {None, "issued", "consumed"}, expires_at : 0..(LastTick + TTL)]
    BY <2>1, <2>2, <2>3
  <2>5. enrollment' = [enrollment EXCEPT ![tk] = e]  BY <1>1, <2>2
  <2> HIDE DEF e
  <2>6. QED  BY <2>4, <2>5 DEF IInv, TypeOK
<1>3. TypeOK'  BY <1>1, <1>2 DEF IInv, TypeOK
<1>4. ASSUME NEW c \in Call PROVE Placed(c)' /\ Minted(c)' /\ BarredWaits(c)'
  <2>1. Placed(c) /\ Minted(c) /\ BarredWaits(c)  BY DEF IInv
  <2>2. QED  BY <1>1, <2>1 DEF Placed, Minted, BarredWaits, Speaker
<1>5. now' \in Nat /\ now <= now'  BY <1>1, CallType DEF IInv
<1>6. /\ \A b \in Bucket : Counted(b)' /\ Bursts(b)'
      /\ \A x : TokenUsers(x)' = TokenUsers(x) /\ TicketUsers(x)' = TicketUsers(x)
  BY <1>1, <1>5, CallsKept
<1>7. UsedOnce'
  <2>1. ASSUME NEW x \in Token, NEW c \in TokenUsers(x), NEW d \in TokenUsers(x)
        PROVE  c = d /\ enrollment'[x].state = "consumed"
    <3>1. c = d /\ enrollment[x].state = "consumed"  BY DEF IInv, UsedOnce
    <3>2. x # tk  BY <1>1, <3>1 DEF None
    <3>3. enrollment'[x] = enrollment[x]  BY <1>1, <3>2 DEF IInv, TypeOK
    <3>4. QED  BY <3>1, <3>3
  <2>2. QED  BY <1>1, <1>6, <2>1 DEF IInv, UsedOnce
<1>8. QED  BY <1>3, <1>4, <1>6, <1>7 DEF IInv

\* A revoked device was live, so it was minted; it stays revoked.
LEMMA RevokeIInv ==
  ASSUME IInv, NEW x \in Device, handleRevokeClient(x)
  PROVE  IInv'
<1>1. /\ UNCHANGED <<now, account, enrollment, ticket, bucket, credited, call>>
      /\ client[x] = "live" /\ client' = [client EXCEPT ![x] = "revoked"]
  BY DEF handleRevokeClient
<1>2. TypeOK'  BY <1>1 DEF IInv, TypeOK
<1>3. ASSUME NEW c \in Call PROVE Placed(c)' /\ Minted(c)' /\ BarredWaits(c)'
  <2>1. Placed(c) /\ Minted(c) /\ BarredWaits(c)  BY DEF IInv
  <2>2. Placed(c)'  BY <1>1, <2>1 DEF Placed
  <2>3. c \in Device /\ client \in [Device -> {None, "live", "revoked"}]
    BY DEF Device, IInv, TypeOK
  <2>4. Minted(c)'  BY <1>1, <2>1, <2>3 DEF Minted, None
  <2>5. \A d \in Device : client[d] = "revoked" => client'[d] = "revoked"  BY <1>1, <2>3
  <2>6. BarredWaits(c)'  BY <1>1, <2>1, <2>5 DEF BarredWaits, Speaker
  <2>7. QED  BY <2>2, <2>4, <2>6
<1>4. now' \in Nat /\ now <= now'  BY <1>1, CallType DEF IInv
<1>5. (\A b \in Bucket : Counted(b)' /\ Bursts(b)') /\ UsedOnce'
  BY <1>1, <1>4, CallsKept DEF IInv, UsedOnce
<1>6. QED  BY <1>2, <1>3, <1>5 DEF IInv

-----------------------------------------------------------------------------
(***************************************************************************)
(* The invariant holds.                                                    *)
(***************************************************************************)
LEMMA InitIInv == ASSUME Init PROVE IInv
<1>1. now = 0 /\ now \in Time /\ Cardinality(Call) \in Nat
  BY AccessAssumption, FS_CardinalityType DEF Init, Time
<1>2. \A c \in Call : call[c] = Blank  BY DEF Init
<1>3. Blank \in CallRow(now)  BY <1>1 DEF CallRow, Blank, At, Ended
<1>4. TypeOK
  <2>1. call \in [Call -> CallRow(now)]  BY <1>3 DEF Init
  <2>2. bucket \in [Bucket -> [count : 0..Cardinality(Call), window_start : 0..now]]
    BY <1>1 DEF Init
  <2>3. client \in [Device -> {None, "live", "revoked"}] /\ account \in {"active", "suspended"}
        /\ credited \in [Tx -> 0..1]
    BY DEF Init
  <2>4. 0 \in 0..(LastTick + TTL)  BY AccessAssumption
  <2>5. /\ enrollment \in [Token -> [state : {None, "issued", "consumed"}, expires_at : 0..(LastTick + TTL)]]
        /\ ticket \in [Call -> Ticket]
    BY <2>4 DEF Init, Ticket
  <2>6. QED  BY <1>1, <2>1, <2>2, <2>3, <2>5 DEF TypeOK, CallRow, Ticket
<1>5. ASSUME NEW c \in Call PROVE Placed(c) /\ Minted(c) /\ BarredWaits(c)
  <2>1. call[c] = Blank /\ ticket[c].state = None /\ client[c] = None
    BY AccessAssumption DEF Init, Device
  <2>2. QED  BY <2>1 DEF Placed, Minted, BarredWaits, Blank, Ended, None
<1>6. UsedOnce
  <2>1. \A x : TokenUsers(x) = {} /\ TicketUsers(x) = {}
    BY <1>2 DEF TokenUsers, TicketUsers, Blank, None
  <2>2. QED  BY <2>1 DEF UsedOnce
<1>7. ASSUME NEW b \in Bucket PROVE Counted(b) /\ Bursts(b)
  <2>1. Passed(b) = {} /\ Claims(b) = {}  BY <1>2 DEF Passed, Claims, Blank, None
  <2>2. bucket[b].count = 0 /\ bucket[b].window_start = 0  BY DEF Init
  <2>3. Cardinality({}) = 0  BY FS_EmptySet, Zenon
  <2>4. \A t : Within({}, t) = {}  BY DEF Within
  <2>5. Windowed(b, {}, 0)
    <3>1. Limit[b] \in Nat /\ MaxLag \in Nat  BY AccessAssumption
    <3>2. {} \ {} = {} /\ 0 <= 0 + MaxLag /\ 0 <= Limit[b] /\ 0 <= 2 * Limit[b]  BY <3>1
    <3>3. \A t : Cardinality(Within({}, t)) = 0  BY <2>3, <2>4
    <3>4. QED  BY <2>1, <2>2, <2>3, <3>2, <3>3 DEF Windowed
  <2>6. QED  BY <1>1, <2>1, <2>2, <2>3, <2>5 DEF Counted, Bursts
<1>8. QED  BY <1>4, <1>5, <1>6, <1>7 DEF IInv

LEMMA NextIInv == ASSUME IInv, [Next]_vars PROVE IInv'
<1>1. CASE Next
  BY <1>1, TickIInv, SuspendIInv, IssueIInv, RevokeIInv, StepIInv DEF Next
<1>2. CASE UNCHANGED vars
  <2>1. UNCHANGED <<now, account, client, enrollment, ticket, bucket, credited, call>>
    BY <1>2 DEF vars, tables
  <2>2. TypeOK' /\ UsedOnce' /\ \A c \in Call : Placed(c)' /\ Minted(c)' /\ BarredWaits(c)'
    BY <2>1 DEF IInv, TypeOK, UsedOnce, TokenUsers, TicketUsers, Placed, Minted, BarredWaits, Speaker
  <2>3. now' \in Nat /\ now <= now'  BY <2>1, CallType DEF IInv
  <2>4. QED  BY <2>1, <2>2, <2>3, CallsKept DEF IInv
<1>3. QED  BY <1>1, <1>2

\* The invariant of every behaviour.
THEOREM AlwaysIInv == Spec => []IInv
BY InitIInv, NextIInv, PTL DEF Spec

\* The tables and the calls keep their shapes, no bucket's window starts in the future
\* and no bucket counts more than the calls there are.
THEOREM TypeCorrect == Spec => []TypeOK
<1>1. IInv => TypeOK  BY DEF IInv
<1>2. QED  BY <1>1, AlwaysIInv, PTL

LEMMA AtMostOne ==
  ASSUME NEW S, \A x, y \in S : x = y
  PROVE  Cardinality(S) <= 1
<1>1. CASE S = {}
  <2>1. Cardinality(S) = 0  BY <1>1, FS_EmptySet, Zenon
  <2>2. QED  BY <2>1
<1>2. CASE S # {}
  <2>1. PICK x : x \in S  BY <1>2
  <2>2. S = {x}  BY <2>1
  <2>3. Cardinality(S) = 1  BY <2>2, FS_Singleton, Zenon
  <2>4. QED  BY <2>3
<1>3. QED  BY <1>1, <1>2

\* An enrollment token makes at most one device and a ticket opens at most one
\* session, for any number of redemptions in any interleaving (SingleUse).
THEOREM UsedAtMostOnce == Spec => []SingleUse
<1>1. ASSUME IInv PROVE SingleUse
  <2>1. ASSUME NEW tk \in Token
        PROVE  Cardinality({c \in Call : /\ call[c].kind = "enroll" /\ call[c].subject = tk
                                         /\ client[c] # None}) <= 1
    <3> DEFINE S == {c \in Call : /\ call[c].kind = "enroll" /\ call[c].subject = tk
                                  /\ client[c] # None}
    <3>1. \A c \in S : call[c].at = "admitted"  BY <1>1 DEF IInv, Minted
    <3>2. S \subseteq TokenUsers(tk)  BY <3>1 DEF TokenUsers
    <3>3. \A c, d \in S : c = d  BY <1>1, <3>2 DEF IInv, UsedOnce
    <3> HIDE DEF S
    <3>4. Cardinality(S) <= 1  BY <3>3, AtMostOne
    <3>5. QED  BY <3>4 DEF S
  <2>2. ASSUME NEW t \in Call PROVE Cardinality(TicketUsers(t)) <= 1
    BY <1>1, AtMostOne DEF IInv, UsedOnce
  <2>3. QED  BY <2>1, <2>2 DEF SingleUse, TicketUsers
<1>2. QED  BY <1>1, AlwaysIInv, PTL

\* Once a device is revoked or the account suspended no later call gets through, the
\* holder of a ticket minted before included (NoLateAdmission).
THEOREM NoneAdmittedLate == Spec => []NoLateAdmission
<1>1. ASSUME IInv PROVE NoLateAdmission
  <2>1. ASSUME NEW c \in Call, call[c].barred PROVE call[c].at # "admitted" /\ client[c] = None
    <3>1. call[c].at # "admitted"  BY <1>1, <2>1 DEF IInv, BarredWaits
    <3>2. QED  BY <1>1, <3>1 DEF IInv, Minted
  <2>2. QED  BY <2>1 DEF NoLateAdmission
<1>2. QED  BY <1>1, AlwaysIInv, PTL

\* At most twice the limit passes in a span of a window less the lag (BurstBound).
THEOREM BurstsAreBounded == Spec => []BurstBound
<1>1. ASSUME IInv PROVE BurstBound
  <2>1. ASSUME NEW b \in Bucket, NEW t \in Time
        PROVE  Cardinality({c \in Call : /\ BucketOf(call[c].kind) = b
                                         /\ call[c].claimed - 1 \in t..(t + Window - MaxLag - 1)})
                 <= 2 * Limit[b]
    <3>1. Cardinality(Within(Claims(b), t)) <= 2 * Limit[b]
      <4>1. PICK W \in SUBSET Claims(b), tau \in 0..now : Windowed(b, W, tau)
        BY <1>1 DEF IInv, Bursts
      <4>2. QED  BY <4>1 DEF Windowed
    <3>2. \A c \in Call : call[c].claimed \in Nat  BY <1>1, CallType DEF IInv, CallRow
    <3>3. {c \in Call : /\ BucketOf(call[c].kind) = b
                        /\ call[c].claimed - 1 \in t..(t + Window - MaxLag - 1)}
          = Within(Claims(b), t)
      BY <3>2 DEF Within, Claims, Span, Time
    <3>4. QED  BY <3>1, <3>3
  <2>2. QED  BY <2>1 DEF BurstBound
<1>2. QED  BY <1>1, AlwaysIInv, PTL
=============================================================================
