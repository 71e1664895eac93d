----------------------------- MODULE SttSession -----------------------------
(***************************************************************************)
(* Live speech-to-text: the WebSocket upgrade of                           *)
(* routes/stt-stream.ts, the signed handoff of stt-handoff.ts, and the     *)
(* Durable Object of stt-session.ts that relays the audio and bills the    *)
(* session once, when it ends.                                             *)
(*                                                                         *)
(* The object's upstream socket, its cap timer and its `finalized` flag    *)
(* live in memory; only the meta rows are stored.  A restart of the object *)
(* loses the former.  Client sockets are hibernatable: they may outlive a  *)
(* restart or be dropped by it.                                            *)
(*                                                                         *)
(* One account with one device and one pool of money (Metering has both    *)
(* pools and the statements of recordUsage, which is one step here).       *)
(***************************************************************************)
EXTENDS Integers, Balance, Sums

CONSTANTS
  Sessions,     \* how many upgrades there are
  Minute,       \* ticks of the clock in a minute
  Cap,          \* FLUX_MAX_SESSION_MS, in ticks
  TTL,          \* STT_HANDOFF_TTL_SEC, in ticks
  Price,        \* unit price of an audio minute
  Credit,       \* the money of the account
  LastTick,     \* bound on the clock
  MaxRestarts   \* bound on restarts of objects

ASSUME SttAssumption ==
  /\ Minute \in Nat \ {0} /\ Cap \in Nat \ {0} /\ TTL \in Nat /\ Price \in Nat
  /\ Credit \in Nat /\ LastTick \in Nat /\ MaxRestarts \in Nat /\ Sessions \in Nat

\* Each upgrade has its own request id and its own object.
Session == 1..Sessions

VARIABLES
  now, restarts,
  standing,   \* what finalize would find wrong with device, account or plan
  pc,         \* the upgrade: Worker, then the object's fetch
  local,      \* the spend the upgrade read, its handoff's exp
  meta,       \* the object's stored started_ms
  sock,       \* the client's socket
  upstream,   \* this.upstream
  due,        \* this.maxTimer: when it fires, 0 when it is cleared
  finalized,  \* this.finalized
  fin,        \* the finalize call under way
  ledger,     \* usage_events by request id
  spent,      \* what the account was charged
  ran,        \* history: how long the client's socket was open, up to the cap
  stopped,    \* history: sessions that were open when an operator acted
  lost        \* history: sessions whose record was lost, by a restart or a failure

doVars == <<meta, sock, upstream, due, finalized, fin, ran>>
vars == <<now, restarts, standing, pc, local, doVars, ledger, spent, stopped, lost>>

Time == 0..LastTick
\* "stopped": the device is revoked or not of this account, the account is
\* suspended, or the plan is missing, unusable or does not entitle the model.
Standing == {"good", "stopped", "missing"}
NoRow == [basis |-> "none", units |-> 0, micro_usd |-> 0]
Quiet == [at |-> "idle", units |-> 0]

Init ==
  /\ now = 0 /\ restarts = 0
  /\ standing = "good"
  /\ pc = [s \in Session |-> "idle"]
  /\ local = [s \in Session |-> [spent |-> 0, exp |-> 0]]
  /\ meta = [s \in Session |-> 0]
  /\ sock = [s \in Session |-> "none"]
  /\ upstream = [s \in Session |-> "null"]
  /\ due = [s \in Session |-> 0]
  /\ finalized = [s \in Session |-> FALSE]
  /\ fin = [s \in Session |-> Quiet]
  /\ ledger = [s \in Session |-> NoRow]
  /\ spent = 0
  /\ ran = [s \in Session |-> 0]
  /\ stopped = {} /\ lost = {}

Tick ==
  /\ now < LastTick
  /\ now' = now + 1
  /\ ran' = [s \in Session |-> IF sock[s] = "open" THEN Lesser(ran[s] + 1, Cap) ELSE ran[s]]
  /\ UNCHANGED <<restarts, standing, pc, local, meta, sock, upstream, due, finalized, fin,
                 ledger, spent, stopped, lost>>

\* An operator revokes, suspends, edits the plan, or removes a row.
Operator(st) ==
  /\ standing = "good"
  /\ standing' = st
  /\ stopped' = {s \in Session : sock[s] = "open"}
  /\ UNCHANGED <<now, restarts, pc, local, doVars, ledger, spent, lost>>

-----------------------------------------------------------------------------
(***************************************************************************)
(* The Worker: upgrade, gates, handoff (the ticket is in Access).          *)
(***************************************************************************)
GoTo(s, phase) == pc' = [pc EXCEPT ![s] = phase]

\* Device, account and plan are read from the tables, on both paths; ctx.now is
\* the arrival of the upgrade.
resolveSttCaller(s) ==
  /\ pc[s] = "idle"
  /\ IF standing = "good"
     THEN /\ GoTo(s, "authed")
          /\ local' = [local EXCEPT ![s] = [spent |-> spent, exp |-> now + TTL]]
     ELSE GoTo(s, "refused") /\ UNCHANGED local
  /\ UNCHANGED <<now, restarts, standing, doVars, ledger, spent, stopped, lost>>

\* The gates: money left, and enough of it for one minute.  What passes is
\* signed and handed to a fresh object.
handleSttStreamUpgrade(s) ==
  /\ pc[s] = "authed"
  /\ LET used == local[s].spent  \* read with the device
     IN IF /\ decideBalance(Credit, used, 0, 0) = "allow"
           /\ Price > 0 => Credit - used >= Price
        THEN GoTo(s, "signed")
        ELSE GoTo(s, "refused")
  /\ UNCHANGED <<now, restarts, standing, local, doVars, ledger, spent, stopped, lost>>

\* A binding, a secret or the unit price is missing, or the rate limit is reached.
RefuseUpgrade(s) ==
  /\ pc[s] \in {"idle", "authed"}
  /\ GoTo(s, "refused")
  /\ UNCHANGED <<now, restarts, standing, local, doVars, ledger, spent, stopped, lost>>

verifySttHandoff(s) == local[s].exp >= now

-----------------------------------------------------------------------------
(***************************************************************************)
(* The Durable Object.                                                     *)
(***************************************************************************)
\* fetch, up to the await on the provider: the handoff is verified and the
\* session's meta rows are stored.
fetch(s) ==
  /\ pc[s] = "signed"
  /\ IF verifySttHandoff(s)
     THEN GoTo(s, "opening") /\ meta' = [meta EXCEPT ![s] = now]
     ELSE GoTo(s, "refused") /\ UNCHANGED meta
  /\ local' = [local EXCEPT ![s] = [spent |-> 0, exp |-> 0]]
  /\ UNCHANGED <<now, restarts, standing, sock, upstream, due, finalized, fin,
                 ledger, spent, ran, stopped, lost>>

\* The provider gives no socket: 502 or 503, and no session.
UpstreamRefuses(s) ==
  /\ pc[s] = "opening"
  /\ GoTo(s, "refused")
  /\ UNCHANGED <<now, restarts, standing, local, doVars, ledger, spent, stopped, lost>>

\* fetch, after it: both sockets are accepted and the cap timer is armed.  The
\* guard keeps the timer within the bound on the clock.
Accept(s) ==
  /\ pc[s] = "opening"
  /\ now + Cap <= LastTick
  /\ GoTo(s, "open")
  /\ sock' = [sock EXCEPT ![s] = "open"]
  /\ upstream' = [upstream EXCEPT ![s] = "open"]
  /\ due' = [due EXCEPT ![s] = now + Cap]
  /\ UNCHANGED <<now, restarts, standing, local, meta, finalized, fin, ledger, spent,
                 ran, stopped, lost>>

\* ws.close on an open socket starts the closing handshake.
Closing(s) == IF sock[s] = "open" THEN "closing" ELSE sock[s]

\* Mutant: whole minutes only.
billableAudioMinutesFloor(ticks) == IF ticks < Minute THEN 1 ELSE ticks \div Minute

\* At least one minute, rounded up.
billableAudioMinutes(ticks) ==
  IF ticks <= 0 THEN 1 ELSE (ticks + Minute - 1) \div Minute

\* Mutant: the duration is not capped.
finalizeUncapped(s) ==
  IF finalized[s]
  THEN UNCHANGED <<finalized, due, fin>>
  ELSE /\ finalized' = [finalized EXCEPT ![s] = TRUE]
       /\ due' = [due EXCEPT ![s] = 0]
       /\ fin' = [fin EXCEPT ![s] = [at |-> "reads", units |-> billableAudioMinutes(now - meta[s])]]

\* finalize, up to its first await: once per life of the object, stop the
\* timer, and fix the duration from the stored start, capped.
finalize(s) ==
  IF finalized[s]
  THEN UNCHANGED <<finalized, due, fin>>
  ELSE /\ finalized' = [finalized EXCEPT ![s] = TRUE]
       /\ due' = [due EXCEPT ![s] = 0]
       /\ fin' = [fin EXCEPT ![s] = [at |-> "reads",
                                     units |-> billableAudioMinutes(Lesser(now - meta[s], Cap))]]

\* Mutant: the cap closes the sockets and leaves the rest to their events.
maxTimerClosesOnly(s) ==
  /\ due[s] > 0 /\ now >= due[s]
  /\ sock' = [sock EXCEPT ![s] = Closing(s)]
  /\ upstream' = [upstream EXCEPT ![s] = IF @ = "open" THEN "closed" ELSE @]
  /\ due' = [due EXCEPT ![s] = 0]
  /\ UNCHANGED <<now, restarts, standing, pc, local, meta, finalized, fin, ledger, spent,
                 ran, stopped, lost>>

\* The cap timer: close everything, then finalize.
maxTimer(s) ==
  /\ due[s] > 0 /\ now >= due[s]
  /\ sock' = [sock EXCEPT ![s] = Closing(s)]
  /\ upstream' = [upstream EXCEPT ![s] = IF @ = "open" THEN "closed" ELSE @]
  /\ finalize(s)
  /\ UNCHANGED <<now, restarts, standing, pc, local, meta, ledger, spent, ran, stopped, lost>>

\* The provider's socket closes or fails: the client's is closed, nothing else.
UpstreamEnds(s) ==
  /\ upstream[s] = "open"
  /\ upstream' = [upstream EXCEPT ![s] = "closed"]
  /\ sock' = [sock EXCEPT ![s] = Closing(s)]
  /\ UNCHANGED <<now, restarts, standing, pc, local, meta, due, finalized, fin, ledger,
                 spent, ran, stopped, lost>>

\* Audio from the client.  With an upstream it is forwarded and changes nothing
\* here; without one (the object was restarted) the session has expired.
webSocketMessage(s) ==
  /\ sock[s] = "open"
  /\ upstream[s] = "null"
  /\ sock' = [sock EXCEPT ![s] = "closing"]
  /\ finalize(s)
  /\ UNCHANGED <<now, restarts, standing, pc, local, meta, upstream, ledger, spent,
                 ran, stopped, lost>>

\* The client's socket closes: it hung up, or the close the object asked for
\* completes.  An error may be reported before it.
webSocketClose(s) ==
  /\ sock[s] \in {"open", "closing", "error"}
  /\ sock' = [sock EXCEPT ![s] = "closed"]
  /\ upstream' = [upstream EXCEPT ![s] = "null"]
  /\ finalize(s)
  /\ UNCHANGED <<now, restarts, standing, pc, local, meta, ledger, spent, ran, stopped, lost>>

webSocketError(s) ==
  /\ sock[s] \in {"open", "closing"}
  /\ sock' = [sock EXCEPT ![s] = "error"]
  /\ upstream' = [upstream EXCEPT ![s] = "null"]
  /\ finalize(s)
  /\ UNCHANGED <<now, restarts, standing, pc, local, meta, ledger, spent, ran, stopped, lost>>

\* The object is restarted: memory is lost, a finalize call under way too.  The
\* client's socket survives, or goes without an event.
Restart(s, survives) ==
  /\ restarts < MaxRestarts
  /\ pc[s] \in {"opening", "open"}
  /\ restarts' = restarts + 1
  /\ upstream' = [upstream EXCEPT ![s] = "null"]
  /\ due' = [due EXCEPT ![s] = 0]
  /\ finalized' = [finalized EXCEPT ![s] = FALSE]
  /\ fin' = [fin EXCEPT ![s] = Quiet]
  /\ sock' = [sock EXCEPT ![s] = IF survives \/ @ = "none" THEN @ ELSE "closed"]
  /\ IF pc[s] = "opening" THEN GoTo(s, "refused") ELSE UNCHANGED pc
  /\ lost' = IF pc[s] = "open" /\ ledger[s] = NoRow THEN lost \cup {s} ELSE lost
  /\ UNCHANGED <<now, standing, local, meta, ledger, spent, ran, stopped>>

-----------------------------------------------------------------------------
(***************************************************************************)
(* finalize, after its awaits.                                             *)
(***************************************************************************)
\* Mutant: ownership is not validated again.
validateNothing(st) == "charge"

\* What the fresh reads of device, account and plan allow.  Without the rows the
\* foreign keys need, nothing can be written.
validate(st) ==
  CASE st = "good" -> "charge"
    [] st = "missing" -> "discard"
    [] OTHER -> "waive"

Validate(s) ==
  /\ fin[s].at = "reads"
  /\ LET verdict == validate(standing)
     IN IF verdict = "discard"
        THEN fin' = [fin EXCEPT ![s] = Quiet] /\ lost' = lost \cup {s}
        ELSE fin' = [fin EXCEPT ![s].at = verdict] /\ UNCHANGED lost
  /\ UNCHANGED <<now, restarts, standing, pc, local, meta, sock, upstream, due, finalized,
                 ledger, spent, ran, stopped>>

\* Mutant: the spend is added whether or not the row was new.
recordUsageUngated(s) ==
  LET row == IF fin[s].at = "charge"
             THEN [basis |-> "measured", units |-> fin[s].units, micro_usd |-> fin[s].units * Price]
             ELSE [basis |-> "unpriced", units |-> fin[s].units, micro_usd |-> 0]
  IN /\ ledger' = [ledger EXCEPT ![s] = IF ledger[s] = NoRow THEN row ELSE @]
     /\ spent' = spent + row.micro_usd

\* The row of this request id, and its charge, unless the row exists.
recordUsage(s) ==
  LET row == IF fin[s].at = "charge"
             THEN [basis |-> "measured", units |-> fin[s].units, micro_usd |-> fin[s].units * Price]
             ELSE [basis |-> "unpriced", units |-> fin[s].units, micro_usd |-> 0]
  IN IF ledger[s] = NoRow
     THEN /\ ledger' = [ledger EXCEPT ![s] = row]
          /\ spent' = spent + row.micro_usd
     ELSE UNCHANGED <<ledger, spent>>

Record(s) ==
  /\ fin[s].at \in {"charge", "waive"}
  /\ recordUsage(s)
  /\ fin' = [fin EXCEPT ![s] = Quiet]
  /\ UNCHANGED <<now, restarts, standing, pc, local, meta, sock, upstream, due, finalized,
                 ran, stopped, lost>>

\* A read or the write rejects: it is logged, and `finalized` stays set.
FinalizeFails(s) ==
  /\ fin[s].at # "idle"
  /\ fin' = [fin EXCEPT ![s] = Quiet]
  /\ lost' = IF ledger[s] = NoRow THEN lost \cup {s} ELSE lost
  /\ UNCHANGED <<now, restarts, standing, pc, local, meta, sock, upstream, due, finalized,
                 ledger, spent, ran, stopped>>

-----------------------------------------------------------------------------
Worker(s) ==
  \/ resolveSttCaller(s)
  \/ handleSttStreamUpgrade(s)
  \/ RefuseUpgrade(s)

Object(s) ==
  \/ fetch(s) \/ UpstreamRefuses(s) \/ Accept(s)
  \/ maxTimer(s) \/ UpstreamEnds(s)
  \/ webSocketMessage(s) \/ webSocketClose(s) \/ webSocketError(s)
  \/ Validate(s) \/ Record(s) \/ FinalizeFails(s)
  \/ \E survives \in BOOLEAN : Restart(s, survives)

Next ==
  \/ Tick
  \/ \E st \in Standing \ {"good"} : Operator(st)
  \/ \E s \in Session : Worker(s) \/ Object(s)

Spec == Init /\ [][Next]_vars

\* Time passes, a due timer fires, and a finalize call that is not lost goes on.
\* Nothing is assumed of clients, providers, or close handshakes.
FairSpec ==
  /\ Spec
  /\ WF_vars(Tick)
  /\ \A s \in Session : WF_vars(maxTimer(s)) /\ WF_vars(Validate(s)) /\ WF_vars(Record(s))

-----------------------------------------------------------------------------
(***************************************************************************)
(* Properties.                                                             *)
(***************************************************************************)
Phase == {"idle", "authed", "signed", "opening", "open", "refused"}
Units == 0..((Cap + Minute) \div Minute)
Micro == {u * Price : u \in Units}

\* Sockets, timers, rows and the account keep their types; a session's minutes
\* stay within the cap.
TypeOK ==
  /\ now \in Time /\ restarts \in 0..MaxRestarts /\ standing \in Standing
  /\ pc \in [Session -> Phase]
  /\ local \in [Session -> [spent: Nat, exp: 0..LastTick + TTL]]
  /\ meta \in [Session -> Time]
  /\ sock \in [Session -> {"none", "open", "closing", "error", "closed"}]
  /\ upstream \in [Session -> {"null", "open", "closed"}]
  /\ due \in [Session -> Time]
  /\ finalized \in [Session -> BOOLEAN]
  /\ fin \in [Session -> [at: {"idle", "reads", "charge", "waive"}, units: Units]]
  /\ ledger \in [Session -> [basis: {"none", "measured", "unpriced"}, units: Units, micro_usd: Micro]]
  /\ spent \in Nat
  /\ ran \in [Session -> 0..Cap]
  /\ stopped \subseteq Session /\ lost \subseteq Session

Charged == {s \in Session : ledger[s].basis = "measured"}

\* The account is charged exactly the sum of its session rows: whichever of close,
\* error, timer and expired message comes first, and however often a restarted
\* object finalizes again, a session moves money once.
ChargedOnce == spent = SumTo([s \in Session |-> ledger[s].micro_usd], Sessions)

\* A charged session ended, its minutes cover the time its socket was open up to
\* the cap, and never go past the cap, also when the timer is late or gone with a
\* restart.
BilledMinutes ==
  \A s \in Charged :
    /\ sock[s] # "open"
    /\ ledger[s].units * Minute >= ran[s]
    /\ (ledger[s].units - 1) * Minute < Cap

\* A session that was still open when an operator revoked its device or suspended
\* its account is never charged, whatever ends it and however often it finalizes.
StoppedIsNotCharged == stopped \cap Charged = {}

\* An open session reaches the ledger: by the client's close, or at the latest by
\* the cap timer.  The exceptions are the ones the object cannot repair: it was
\* restarted, or a statement of finalize rejected.
SessionRecorded ==
  \A s \in Session : pc[s] = "open" ~> (ledger[s] # NoRow \/ s \in lost)
=============================================================================
