-------------------------- MODULE SttSessionProofs --------------------------
(***************************************************************************)
(* SttSession for any number of sessions, any cap, minute and price, and   *)
(* any number of restarts: types, one charge per session, its minutes, and *)
(* no charge for a session an operator stopped.                            *)
(***************************************************************************)
EXTENDS SttSession, SumsProofs

(***************************************************************************)
(* The inductive invariant, session by session.                            *)
(***************************************************************************)
\* Before both sockets are accepted the object has nothing to finalize.
Early(s) ==
  pc[s] # "open" => /\ sock[s] = "none" /\ upstream[s] = "null" /\ due[s] = 0
                    /\ fin[s] = Quiet /\ ledger[s] = NoRow /\ ran[s] = 0

\* The socket was open for no longer than the time since the stored start.
Timed(s) ==
  /\ pc[s] \in {"opening", "open"} => ran[s] <= now - meta[s]
  /\ meta[s] <= now

\* u minutes cover the time the socket was open, and do not go past the cap.
Covers(u, s) == u * Minute >= ran[s] /\ (u - 1) * Minute < Cap

\* What is about to be billed, or was billed, is billed for a socket that is no
\* longer open.
Covered(s) ==
  /\ fin[s].at # "idle" => sock[s] # "open" /\ Covers(fin[s].units, s)
  /\ ledger[s] # NoRow => sock[s] # "open" /\ Covers(ledger[s].units, s)

\* A stopped session had not been validated, and now never will be.
Halted(s) ==
  s \in stopped => standing # "good" /\ fin[s].at # "charge" /\ ledger[s].basis # "measured"

Safe(s) == Early(s) /\ Timed(s) /\ Covered(s) /\ Halted(s)

IInv == TypeOK /\ (\A s \in Session : Safe(s)) /\ ChargedOnce

FinRow == [at : {"idle", "reads", "charge", "waive"}, units : Units]
Row == [basis : {"none", "measured", "unpriced"}, units : Units, micro_usd : Micro]

-----------------------------------------------------------------------------
(***************************************************************************)
(* Minutes and money.                                                      *)
(***************************************************************************)
\* Up to the cap, the minutes are in range and cover the time.
LEMMA Minutes ==
  ASSUME NEW t \in 0..Cap
  PROVE  LET u == billableAudioMinutes(t)
         IN u \in Units /\ u * Minute >= t /\ (u - 1) * Minute < Cap
<1>0. Minute \in Nat /\ Minute > 0 /\ Cap \in Nat /\ Cap > 0 /\ t \in Nat  BY SttAssumption
<1> DEFINE u == billableAudioMinutes(t)
           q == (Cap + Minute) \div Minute
<1>1. q \in Nat /\ Cap + Minute - q * Minute \in 0..(Minute - 1)  BY <1>0, Rounding
<1> HIDE DEF q
<1>2. q * Minute > Cap /\ q * Minute \in Nat  BY <1>0, <1>1
<1>3. q >= 1
  <2>1. q = 0 => q * Minute = 0  BY <1>0
  <2>2. QED  BY <1>0, <1>1, <1>2, <2>1
<1>4. CASE t = 0
  <2>1. u = 1  BY <1>4 DEF billableAudioMinutes
  <2>2. u \in 0..q  BY <1>1, <1>3, <2>1
  <2>3. u * Minute >= t /\ (u - 1) * Minute < Cap  BY <1>0, <1>4, <2>1
  <2>4. QED  BY <2>2, <2>3 DEF Units, q
<1>5. CASE t # 0
  <2>1. u = (t + Minute - 1) \div Minute  BY <1>0, <1>5 DEF billableAudioMinutes
  <2>2. u \in Nat /\ u * Minute - t \in 0..(Minute - 1)  BY <1>0, <2>1, Rounding
  <2> HIDE DEF u
  <2>3. u * Minute >= t /\ u * Minute < t + Minute /\ u * Minute \in Nat  BY <1>0, <2>2
  <2>4. (u - 1) * Minute = u * Minute - Minute  BY <1>0, <2>2
  <2>5. u <= q
    <3>1. SUFFICES ASSUME q + 1 <= u PROVE FALSE  BY <1>1, <2>2
    <3>2. (q + 1) * Minute <= u * Minute  BY <1>0, <1>1, <2>2, <3>1, ProductGrows
    <3>3. (q + 1) * Minute = q * Minute + Minute  BY <1>0, <1>1
    <3>4. QED  BY <1>0, <1>2, <2>3, <3>2, <3>3
  <2>6. QED  BY <1>0, <1>1, <2>2, <2>3, <2>4, <2>5 DEF Units, q, u
<1>6. QED  BY <1>4, <1>5

LEMMA UnitsAreNat == Units \subseteq Nat /\ 0 \in Units /\ Micro \subseteq Nat /\ 0 \in Micro
<1>1. (Cap + Minute) \div Minute \in Nat  BY SttAssumption, Rounding
<1>2. Units \subseteq Nat /\ 0 \in Units  BY <1>1 DEF Units
<1>3. \A u \in Units : u * Price \in Nat  BY <1>2, SttAssumption
<1>4. 0 * Price = 0  BY SttAssumption
<1>5. QED  BY <1>2, <1>3, <1>4 DEF Micro

\* The duration finalize fixes.
LEMMA Duration ==
  ASSUME TypeOK, NEW s \in Session, Timed(s), pc[s] = "open"
  PROVE  LET t == Lesser(now - meta[s], Cap)
         IN t \in 0..Cap /\ ran[s] <= t
<1>1. now \in Nat /\ meta[s] \in Nat /\ ran[s] \in 0..Cap /\ Cap \in Nat
  BY SttAssumption DEF TypeOK, Time
<1>2. QED  BY <1>1 DEF Timed, Lesser

\* finalize leaves the call under way alone, or starts one whose minutes cover the
\* session.
LEMMA FinalizeEffect ==
  ASSUME TypeOK, NEW s \in Session, Timed(s), pc[s] = "open", finalize(s)
  PROVE  /\ finalized' \in [Session -> BOOLEAN] /\ due' \in [Session -> Time]
         /\ fin' \in [Session -> FinRow]
         /\ \A d \in Session : d # s => due'[d] = due[d] /\ fin'[d] = fin[d]
         /\ \/ fin'[s] = fin[s]
            \/ fin'[s].at = "reads" /\ Covers(fin'[s].units, s)
<1> DEFINE t == Lesser(now - meta[s], Cap)
           u == billableAudioMinutes(t)
<1>1. t \in 0..Cap /\ ran[s] <= t /\ ran[s] \in Nat /\ Cap \in Nat  BY Duration, SttAssumption DEF TypeOK
<1>2. u \in Units /\ u * Minute >= t /\ (u - 1) * Minute < Cap
  <2> HIDE DEF t
  <2>1. QED  BY <1>1, Minutes
<1>3. u \in Nat /\ u * Minute \in Nat /\ t \in Nat
  <2> HIDE DEF t, u
  <2>1. u \in Nat /\ t \in Nat /\ Minute \in Nat  BY <1>1, <1>2, UnitsAreNat, SttAssumption
  <2>2. QED  BY <2>1
<1>4. CASE finalized[s]  BY <1>4 DEF finalize, TypeOK, FinRow
<1>5. CASE ~ finalized[s]
  <2>1. /\ finalized' = [finalized EXCEPT ![s] = TRUE] /\ due' = [due EXCEPT ![s] = 0]
        /\ fin' = [fin EXCEPT ![s] = [at |-> "reads", units |-> u]]
    BY <1>5 DEF finalize
  <2> HIDE DEF t, u
  <2>2. [at |-> "reads", units |-> u] \in FinRow  BY <1>2 DEF FinRow
  <2>3. 0 \in Time  BY SttAssumption DEF Time
  <2>4. fin \in [Session -> FinRow] /\ due \in [Session -> Time] /\ finalized \in [Session -> BOOLEAN]
    BY DEF TypeOK, FinRow
  <2>5. fin'[s] = [at |-> "reads", units |-> u]  BY <2>1, <2>4
  <2>6. Covers(fin'[s].units, s)  BY <1>1, <1>2, <1>3, <2>5 DEF Covers
  <2>7. QED  BY <2>1, <2>2, <2>3, <2>4, <2>5, <2>6
<1>6. QED  BY <1>4, <1>5

-----------------------------------------------------------------------------
(***************************************************************************)
(* What a step of one session does to the others, and to itself.           *)
(***************************************************************************)
\* Nothing of session d but its handoff changes.
Same(d) ==
  /\ pc'[d] = pc[d] /\ meta'[d] = meta[d] /\ sock'[d] = sock[d] /\ upstream'[d] = upstream[d]
  /\ due'[d] = due[d] /\ fin'[d] = fin[d] /\ ledger'[d] = ledger[d] /\ ran'[d] = ran[d]

LEMMA SameSafe ==
  ASSUME NEW d \in Session, Safe(d), Same(d), UNCHANGED <<now, standing, stopped>>
  PROVE  Safe(d)'
BY DEF Safe, Same, Early, Timed, Covered, Covers, Halted

\* The account's money moves with the rows only.
LEMMA RowsKept ==
  ASSUME ChargedOnce, UNCHANGED <<ledger, spent>>
  PROVE  ChargedOnce'
BY DEF ChargedOnce

\* The Worker's steps, and those of fetch that give up.
LEMMA UpgradeIInv ==
  ASSUME IInv, NEW s \in Session, Worker(s) \/ fetch(s) \/ UpstreamRefuses(s)
  PROVE  IInv'
<1>1. /\ UNCHANGED <<now, restarts, standing, sock, upstream, due, finalized, fin, ledger, spent,
                     ran, stopped, lost>>
      /\ \E phase \in Phase \ {"open"} : pc' = [pc EXCEPT ![s] = phase]
      /\ pc[s] # "open"
      /\ \/ meta' = meta /\ pc'[s] # "opening"
         \/ meta' = [meta EXCEPT ![s] = now]
  BY DEF Worker, resolveSttCaller, handleSttStreamUpgrade, RefuseUpgrade, fetch, UpstreamRefuses,
         GoTo, doVars, Phase, IInv, TypeOK
<1>2. \/ local' = local
      \/ local' = [local EXCEPT ![s] = [spent |-> spent, exp |-> now + TTL]]
      \/ local' = [local EXCEPT ![s] = [spent |-> 0, exp |-> 0]]
  BY DEF Worker, resolveSttCaller, handleSttStreamUpgrade, RefuseUpgrade, fetch, UpstreamRefuses
<1>3. local' \in [Session -> [spent : Nat, exp : 0..LastTick + TTL]]
  <2>1. now + TTL \in 0..LastTick + TTL /\ 0 \in 0..LastTick + TTL /\ spent \in Nat
    BY SttAssumption DEF IInv, TypeOK, Time
  <2>2. [spent |-> spent, exp |-> now + TTL] \in [spent : Nat, exp : 0..LastTick + TTL]
        /\ [spent |-> 0, exp |-> 0] \in [spent : Nat, exp : 0..LastTick + TTL]
    BY <2>1
  <2>3. local \in [Session -> [spent : Nat, exp : 0..LastTick + TTL]]  BY DEF IInv, TypeOK
  <2>4. QED  BY <1>2, <2>2, <2>3
<1>4. TypeOK'
  <2>1. now \in Time /\ meta \in [Session -> Time] /\ pc \in [Session -> Phase]  BY DEF IInv, TypeOK
  <2>2. meta' \in [Session -> Time] /\ pc' \in [Session -> Phase]  BY <1>1, <2>1
  <2>3. QED  BY <1>1, <1>3, <2>2 DEF IInv, TypeOK
<1>5. ASSUME NEW d \in Session, d # s PROVE Safe(d)'
  <2>1. Same(d)  BY <1>1, <1>5 DEF Same, IInv, TypeOK
  <2>2. QED  BY <1>1, <2>1, SameSafe DEF IInv
<1>6. Safe(s)'
  <2>1. pc'[s] # "open"  BY <1>1 DEF IInv, TypeOK
  <2>2. /\ Early(s) /\ Timed(s) /\ Covered(s) /\ Halted(s)
        /\ now \in Nat /\ meta[s] \in Nat /\ meta'[s] \in Nat
    BY <1>1 DEF IInv, Safe, TypeOK, Time
  <2>3. Early(s)' /\ Covered(s)' /\ Halted(s)'
    BY <1>1, <2>1, <2>2 DEF Early, Covered, Covers, Halted
  <2>4. ran[s] = 0  BY <1>1, <2>2 DEF Early
  <2>5. meta' = meta \/ meta'[s] = now  BY <1>1 DEF IInv, TypeOK
  <2>6. Timed(s)'
    BY <1>1, <2>1, <2>2, <2>4, <2>5 DEF Timed
  <2>7. QED  BY <2>3, <2>6 DEF Safe
<1>7. QED  BY <1>1, <1>4, <1>5, <1>6, RowsKept DEF IInv

LEMMA AcceptIInv == ASSUME IInv, NEW s \in Session, Accept(s) PROVE IInv'
<1>1. /\ UNCHANGED <<now, restarts, standing, local, meta, finalized, fin, ledger, spent, ran,
                     stopped, lost>>
      /\ pc[s] = "opening" /\ now + Cap <= LastTick
      /\ pc' = [pc EXCEPT ![s] = "open"] /\ sock' = [sock EXCEPT ![s] = "open"]
      /\ upstream' = [upstream EXCEPT ![s] = "open"] /\ due' = [due EXCEPT ![s] = now + Cap]
  BY DEF Accept, GoTo
<1>2. TypeOK'
  <2>1. now + Cap \in Time  BY <1>1, SttAssumption DEF IInv, TypeOK, Time
  <2>2. QED  BY <1>1, <2>1 DEF IInv, TypeOK, Phase
<1>3. ASSUME NEW d \in Session, d # s PROVE Safe(d)'
  <2>1. Same(d)  BY <1>1, <1>3 DEF Same, IInv, TypeOK
  <2>2. QED  BY <1>1, <2>1, SameSafe DEF IInv
<1>4. Safe(s)'
  <2>1. Early(s) /\ Timed(s) /\ Halted(s) /\ pc'[s] = "open"  BY <1>1 DEF IInv, Safe, TypeOK
  <2>2. fin[s] = Quiet /\ ledger[s] = NoRow  BY <1>1, <2>1 DEF Early
  <2>3. QED  BY <1>1, <2>1, <2>2 DEF Safe, Early, Timed, Covered, Halted, Quiet
<1>5. QED  BY <1>1, <1>2, <1>3, <1>4, RowsKept DEF IInv

\* The events that end a session: they leave its socket no longer open.
LEMMA EventIInv ==
  ASSUME IInv, NEW s \in Session,
         maxTimer(s) \/ webSocketMessage(s) \/ webSocketClose(s) \/ webSocketError(s)
  PROVE  IInv'
<1>1. /\ UNCHANGED <<now, restarts, standing, pc, local, meta, ledger, spent, ran, stopped, lost>>
      /\ finalize(s)
      /\ \E x \in {"none", "closing", "error", "closed"} : sock' = [sock EXCEPT ![s] = x]
      /\ \E x \in {"null", "open", "closed"} : upstream' = [upstream EXCEPT ![s] = x]
  <2>1. upstream[s] \in {"null", "open", "closed"} /\ upstream' \in [Session -> {"null", "open", "closed"}]
        /\ sock[s] \in {"none", "open", "closing", "error", "closed"}
    BY DEF IInv, TypeOK, maxTimer, webSocketMessage, webSocketClose, webSocketError
  <2>2. Closing(s) \in {"none", "closing", "error", "closed"}  BY <2>1 DEF Closing
  <2>3. CASE maxTimer(s)  BY <2>1, <2>2, <2>3 DEF maxTimer
  <2>4. CASE webSocketMessage(s)
    <3>1. upstream' = [upstream EXCEPT ![s] = upstream[s]]
      BY <2>4 DEF webSocketMessage, IInv, TypeOK
    <3>2. QED  BY <2>1, <2>4, <3>1 DEF webSocketMessage
  <2>5. CASE webSocketClose(s) \/ webSocketError(s)  BY <2>5 DEF webSocketClose, webSocketError
  <2>6. QED  BY <2>3, <2>4, <2>5
<1>2. pc[s] = "open"
  <2>1. Early(s)  BY DEF IInv, Safe
  <2>2. due[s] > 0 \/ sock[s] # "none"
    BY DEF maxTimer, webSocketMessage, webSocketClose, webSocketError
  <2>3. QED  BY <2>1, <2>2 DEF Early
<1>3. /\ finalized' \in [Session -> BOOLEAN] /\ due' \in [Session -> Time]
      /\ fin' \in [Session -> FinRow]
      /\ \A d \in Session : d # s => due'[d] = due[d] /\ fin'[d] = fin[d]
      /\ \/ fin'[s] = fin[s]
         \/ fin'[s].at = "reads" /\ Covers(fin'[s].units, s)
  BY <1>1, <1>2, FinalizeEffect DEF IInv, Safe
<1>4. TypeOK'
  <2>1. sock' \in [Session -> {"none", "open", "closing", "error", "closed"}]
        /\ upstream' \in [Session -> {"null", "open", "closed"}]
    BY <1>1 DEF IInv, TypeOK
  <2>2. QED  BY <1>1, <1>3, <2>1 DEF IInv, TypeOK, FinRow
<1>5. ASSUME NEW d \in Session, d # s PROVE Safe(d)'
  <2>1. Same(d)  BY <1>1, <1>3, <1>5 DEF Same, IInv, TypeOK
  <2>2. QED  BY <1>1, <2>1, SameSafe DEF IInv
<1>6. Safe(s)'
  <2>1. Timed(s) /\ Covered(s) /\ Halted(s) /\ sock'[s] # "open" /\ pc'[s] = "open"
    BY <1>1, <1>2 DEF IInv, Safe, TypeOK
  <2>2. QED  BY <1>1, <1>3, <2>1 DEF Safe, Early, Timed, Covered, Covers, Halted
<1>7. QED  BY <1>1, <1>4, <1>5, <1>6, RowsKept DEF IInv

LEMMA UpstreamEndsIInv == ASSUME IInv, NEW s \in Session, UpstreamEnds(s) PROVE IInv'
<1>1. /\ UNCHANGED <<now, restarts, standing, pc, local, meta, due, finalized, fin, ledger, spent,
                     ran, stopped, lost>>
      /\ upstream[s] = "open" /\ upstream' = [upstream EXCEPT ![s] = "closed"]
      /\ sock' = [sock EXCEPT ![s] = Closing(s)]
  BY DEF UpstreamEnds
<1>2. Closing(s) \in {"none", "closing", "error", "closed"}  BY DEF Closing, IInv, TypeOK
<1>3. TypeOK'  BY <1>1, <1>2 DEF IInv, TypeOK
<1>4. ASSUME NEW d \in Session, d # s PROVE Safe(d)'
  <2>1. Same(d)  BY <1>1, <1>4 DEF Same, IInv, TypeOK
  <2>2. QED  BY <1>1, <2>1, SameSafe DEF IInv
<1>5. Safe(s)'
  <2>1. Early(s) /\ Timed(s) /\ Covered(s) /\ Halted(s) /\ sock'[s] # "open"
    BY <1>1, <1>2 DEF IInv, Safe, TypeOK
  <2>2. pc[s] = "open"  BY <1>1, <2>1 DEF Early
  <2>3. QED  BY <1>1, <2>1, <2>2 DEF Safe, Early, Timed, Covered, Covers, Halted
<1>6. QED  BY <1>1, <1>3, <1>4, <1>5, RowsKept DEF IInv

LEMMA RestartIInv ==
  ASSUME IInv, NEW s \in Session, NEW survives \in BOOLEAN, Restart(s, survives)
  PROVE  IInv'
<1>1. /\ UNCHANGED <<now, standing, local, meta, ledger, spent, ran, stopped>>
      /\ pc[s] \in {"opening", "open"} /\ restarts < MaxRestarts /\ restarts' = restarts + 1
      /\ upstream' = [upstream EXCEPT ![s] = "null"] /\ due' = [due EXCEPT ![s] = 0]
      /\ finalized' = [finalized EXCEPT ![s] = FALSE] /\ fin' = [fin EXCEPT ![s] = Quiet]
      /\ \/ pc' = pc /\ pc[s] = "open"
         \/ pc' = [pc EXCEPT ![s] = "refused"] /\ pc[s] = "opening"
      /\ lost' = lost \/ lost' = lost \cup {s}
  <2>1. \/ pc' = pc /\ pc[s] = "open"
        \/ pc' = [pc EXCEPT ![s] = "refused"] /\ pc[s] = "opening"
    BY DEF Restart, GoTo
  <2>2. lost' = lost \/ lost' = lost \cup {s}
    BY Zenon DEF Restart
  <2>3. QED  BY <2>1, <2>2 DEF Restart
<1>2. \/ sock' = [sock EXCEPT ![s] = "closed"] /\ sock[s] # "none"
      \/ sock' = [sock EXCEPT ![s] = sock[s]]
  BY DEF Restart
<1>3. TypeOK'
  <2>1. restarts' \in 0..MaxRestarts /\ 0 \in Time  BY <1>1, SttAssumption DEF IInv, TypeOK, Time
  <2>2. Quiet \in FinRow  BY UnitsAreNat DEF Quiet, FinRow
  <2>3. fin' \in [Session -> FinRow]  BY <1>1, <2>2 DEF IInv, TypeOK, FinRow
  <2>4. QED  BY <1>1, <1>2, <2>1, <2>3 DEF IInv, TypeOK, Phase, FinRow
<1>4. ASSUME NEW d \in Session, d # s PROVE Safe(d)'
  <2>1. Same(d)  BY <1>1, <1>2, <1>4 DEF Same, IInv, TypeOK
  <2>2. QED  BY <1>1, <2>1, SameSafe DEF IInv
<1>5. Safe(s)'
  <2>1. /\ Early(s) /\ Timed(s) /\ Covered(s) /\ Halted(s)
        /\ upstream'[s] = "null" /\ due'[s] = 0 /\ fin'[s] = Quiet
        /\ (sock'[s] = "closed" /\ sock[s] # "none") \/ sock'[s] = sock[s]
        /\ \/ pc'[s] = "open" /\ pc[s] = "open"
           \/ pc'[s] = "refused" /\ pc[s] = "opening"
    BY <1>1, <1>2 DEF IInv, Safe, TypeOK
  <2>2. Early(s)'  BY <1>1, <2>1 DEF Early
  <2>3. Timed(s)' /\ Halted(s)'  BY <1>1, <2>1 DEF Timed, Halted, Quiet
  <2>4. Covered(s)'  BY <1>1, <2>1 DEF Covered, Covers, Quiet
  <2>5. QED  BY <2>2, <2>3, <2>4 DEF Safe
<1>6. QED  BY <1>1, <1>3, <1>4, <1>5, RowsKept DEF IInv

-----------------------------------------------------------------------------
(***************************************************************************)
(* finalize, after its awaits.                                             *)
(***************************************************************************)
\* Validation goes on with the minutes that were fixed, or ends the call.
LEMMA ValidateIInv ==
  ASSUME IInv, NEW s \in Session, Validate(s) \/ FinalizeFails(s)
  PROVE  IInv'
<1>1. /\ UNCHANGED <<now, restarts, standing, pc, local, meta, sock, upstream, due, finalized,
                     ledger, spent, ran, stopped>>
      /\ fin[s].at # "idle" /\ (lost' = lost \/ lost' = lost \cup {s})
      /\ \/ fin' = [fin EXCEPT ![s] = Quiet]
         \/ fin' = [fin EXCEPT ![s].at = "waive"]
         \/ standing = "good" /\ fin' = [fin EXCEPT ![s].at = "charge"]
  BY DEF Validate, FinalizeFails, validate
<1>2. fin \in [Session -> FinRow]  BY DEF IInv, TypeOK, FinRow
<1>3. /\ fin' \in [Session -> FinRow]
      /\ \A d \in Session : d # s => fin'[d] = fin[d]
      /\ \/ fin'[s] = Quiet
         \/ /\ fin'[s].units = fin[s].units
            /\ fin'[s].at = "waive" \/ (fin'[s].at = "charge" /\ standing = "good")
  <2>1. Quiet \in FinRow  BY UnitsAreNat DEF Quiet, FinRow
  <2>2. QED  BY <1>1, <1>2, <2>1 DEF FinRow
<1>4. TypeOK'  BY <1>1, <1>3 DEF IInv, TypeOK, FinRow
<1>5. ASSUME NEW d \in Session, d # s PROVE Safe(d)'
  <2>1. Same(d)  BY <1>1, <1>3, <1>5 DEF Same
  <2>2. QED  BY <1>1, <2>1, SameSafe DEF IInv
<1>6. Safe(s)'
  <2>1. Early(s) /\ Timed(s) /\ Covered(s) /\ Halted(s)  BY DEF IInv, Safe
  <2>2. pc[s] = "open"  BY <1>1, <2>1 DEF Early, Quiet
  <2>3. QED  BY <1>1, <1>3, <2>1, <2>2 DEF Safe, Early, Timed, Covered, Covers, Halted, Quiet
<1>7. QED  BY <1>1, <1>4, <1>5, <1>6, RowsKept DEF IInv

\* The row a finalize call writes: its minutes, and their price when it may charge.
RowOf(s) ==
  IF fin[s].at = "charge"
  THEN [basis |-> "measured", units |-> fin[s].units, micro_usd |-> fin[s].units * Price]
  ELSE [basis |-> "unpriced", units |-> fin[s].units, micro_usd |-> 0]

LEMMA RecordIInv == ASSUME IInv, NEW s \in Session, Record(s) PROVE IInv'
<1>1. /\ UNCHANGED <<now, restarts, standing, pc, local, meta, sock, upstream, due, finalized,
                     ran, stopped, lost>>
      /\ fin[s].at # "idle" /\ fin' = [fin EXCEPT ![s] = Quiet]
      /\ \/ UNCHANGED <<ledger, spent>>
         \/ /\ ledger[s] = NoRow /\ ledger' = [ledger EXCEPT ![s] = RowOf(s)]
            /\ spent' = spent + RowOf(s).micro_usd
  BY DEF Record, recordUsage, RowOf
<1>2. fin[s] \in FinRow /\ fin \in [Session -> FinRow] /\ ledger \in [Session -> Row] /\ spent \in Nat
  BY DEF IInv, TypeOK, FinRow, Row
<1>3. RowOf(s) \in Row /\ RowOf(s).units = fin[s].units /\ RowOf(s).micro_usd \in Nat
  BY <1>2, UnitsAreNat DEF RowOf, FinRow, Row, Micro
<1>4. RowOf(s).basis = "measured" => fin[s].at = "charge"  BY DEF RowOf
<1> HIDE DEF RowOf
<1>5. TypeOK'
  <2>1. Quiet \in FinRow  BY UnitsAreNat DEF Quiet, FinRow
  <2>2. fin' \in [Session -> FinRow] /\ ledger' \in [Session -> Row] /\ spent' \in Nat
    BY <1>1, <1>2, <1>3, <2>1
  <2>3. QED  BY <1>1, <2>2 DEF IInv, TypeOK, FinRow, Row
<1>6. ASSUME NEW d \in Session, d # s PROVE Safe(d)'
  <2>1. Same(d)  BY <1>1, <1>2, <1>6 DEF Same
  <2>2. QED  BY <1>1, <2>1, SameSafe DEF IInv
<1>7. Safe(s)'
  <2>1. Early(s) /\ Timed(s) /\ Covered(s) /\ Halted(s)  BY DEF IInv, Safe
  <2>2. pc[s] = "open"  BY <1>1, <2>1 DEF Early, Quiet
  <2>3. fin'[s] = Quiet /\ (ledger'[s] = ledger[s] \/ ledger'[s] = RowOf(s))  BY <1>1, <1>2
  <2>4. Covered(s)'  BY <1>1, <1>3, <2>1, <2>3 DEF Covered, Covers, Quiet
  <2>5. Halted(s)'  BY <1>1, <1>4, <2>1, <2>3 DEF Halted, Quiet
  <2>6. QED  BY <1>1, <2>1, <2>2, <2>4, <2>5 DEF Safe, Early, Timed
<1>8. ChargedOnce'
  <2>1. CASE UNCHANGED <<ledger, spent>>  BY <2>1, RowsKept DEF IInv
  <2>2. CASE /\ ledger[s] = NoRow /\ ledger' = [ledger EXCEPT ![s] = RowOf(s)]
             /\ spent' = spent + RowOf(s).micro_usd
    <3> DEFINE f == [d \in Session |-> ledger[d].micro_usd]
               g == [d \in Session |-> ledger'[d].micro_usd]
               x == RowOf(s).micro_usd
    <3>1. ledger' \in [Session -> Row]  BY <1>2, <1>3, <2>2
    <3>2. f \in [Session -> Nat] /\ g \in [Session -> Nat]  BY <1>2, <3>1, UnitsAreNat DEF Row
    <3>3. g[s] = f[s] + x /\ \A d \in Session : d # s => g[d] = f[d]
      BY <1>2, <1>3, <2>2 DEF NoRow
    <3>4. x \in Int /\ Sessions \in Nat  BY <1>3, SttAssumption
    <3>5. spent = SumTo(f, Sessions)  BY DEF IInv, ChargedOnce
    <3> HIDE DEF f, g, x
    <3>6. SumTo(g, Sessions) = SumTo(f, Sessions) + x  BY <3>2, <3>3, <3>4, SumToUpdate DEF Session
    <3>7. spent' = SumTo(g, Sessions)  BY <2>2, <3>5, <3>6 DEF x
    <3>8. QED  BY <3>7 DEF ChargedOnce, g
  <2>3. QED  BY <1>1, <2>1, <2>2
<1>9. QED  BY <1>5, <1>6, <1>7, <1>8 DEF IInv

-----------------------------------------------------------------------------
(***************************************************************************)
(* The clock and the operator.                                             *)
(***************************************************************************)
LEMMA TickIInv == ASSUME IInv, Tick PROVE IInv'
<1>1. /\ UNCHANGED <<restarts, standing, pc, local, meta, sock, upstream, due, finalized, fin,
                     ledger, spent, stopped, lost>>
      /\ now \in Nat /\ now < LastTick /\ LastTick \in Nat /\ now' = now + 1 /\ Cap \in Nat
      /\ ran' = [s \in Session |-> IF sock[s] = "open" THEN Lesser(ran[s] + 1, Cap) ELSE ran[s]]
  BY SttAssumption DEF Tick, IInv, TypeOK, Time
<1>2. ASSUME NEW s \in Session
      PROVE  /\ ran'[s] \in 0..Cap /\ ran'[s] <= ran[s] + 1 /\ ran[s] \in 0..Cap
             /\ sock[s] # "open" => ran'[s] = ran[s]
  <2>1. ran[s] \in 0..Cap  BY DEF IInv, TypeOK
  <2>2. QED  BY <1>1, <2>1 DEF Lesser
<1>3. TypeOK'
  <2>1. ran' \in [Session -> 0..Cap]  BY <1>1, <1>2
  <2>2. now' \in Time  BY <1>1 DEF Time
  <2>3. QED  BY <1>1, <2>1, <2>2 DEF IInv, TypeOK
<1>4. ASSUME NEW s \in Session PROVE Safe(s)'
  <2>1. Early(s) /\ Timed(s) /\ Covered(s) /\ Halted(s) /\ meta[s] \in Nat
    BY DEF IInv, Safe, TypeOK, Time
  <2>2. Early(s)'  BY <1>1, <1>2, <2>1 DEF Early
  <2>3. Timed(s)'  BY <1>1, <1>2, <2>1 DEF Timed
  <2>4. Covered(s)' /\ Halted(s)'  BY <1>1, <1>2, <2>1 DEF Covered, Covers, Halted
  <2>5. QED  BY <2>2, <2>3, <2>4 DEF Safe
<1>5. QED  BY <1>1, <1>3, <1>4, RowsKept DEF IInv

\* Whoever is open has nothing under way, and standing never becomes good again.
LEMMA OperatorIInv ==
  ASSUME IInv, NEW st \in Standing \ {"good"}, Operator(st)
  PROVE  IInv'
<1>1. /\ UNCHANGED <<now, restarts, pc, local, meta, sock, upstream, due, finalized, fin, ran,
                     ledger, spent, lost>>
      /\ standing' = st /\ standing' \in Standing /\ standing' # "good"
      /\ stopped' = {s \in Session : sock[s] = "open"}
  BY DEF Operator, doVars
<1>2. TypeOK'  BY <1>1 DEF IInv, TypeOK
<1>3. ASSUME NEW s \in Session PROVE Safe(s)'
  <2>1. Early(s) /\ Timed(s) /\ Covered(s)  BY DEF IInv, Safe
  <2>2. Halted(s)'  BY <1>1, <2>1 DEF Halted, Covered, NoRow
  <2>3. QED  BY <1>1, <2>1, <2>2 DEF Safe, Early, Timed, Covered, Covers
<1>4. QED  BY <1>1, <1>2, <1>3, RowsKept DEF IInv

-----------------------------------------------------------------------------
(***************************************************************************)
(* The invariant holds.                                                    *)
(***************************************************************************)
LEMMA InitIInv == ASSUME Init PROVE IInv
<1>1. 0 \in Time /\ 0 \in 0..MaxRestarts /\ 0 \in 0..LastTick + TTL /\ 0 \in 0..Cap
  BY SttAssumption DEF Time
<1>2. Quiet \in FinRow /\ NoRow \in Row  BY UnitsAreNat DEF Quiet, NoRow, FinRow, Row
<1>3. TypeOK  BY <1>1, <1>2 DEF Init, TypeOK, Standing, Phase, FinRow, Row
<1>4. ASSUME NEW s \in Session PROVE Safe(s)
  BY DEF Init, Safe, Early, Timed, Covered, Halted, Quiet
<1>5. ChargedOnce
  <2> DEFINE f == [s \in Session |-> ledger[s].micro_usd]
  <2>1. \A i \in 1..Sessions : f[i] = 0  BY DEF Init, NoRow, Session
  <2> HIDE DEF f
  <2>2. SumTo(f, Sessions) = 0  BY <2>1, SumToZero, SttAssumption
  <2>3. QED  BY <2>2 DEF ChargedOnce, f, Init
<1>6. QED  BY <1>3, <1>4, <1>5 DEF IInv

LEMMA NextIInv == ASSUME IInv, [Next]_vars PROVE IInv'
<1>1. ASSUME NEW s \in Session, Worker(s) \/ Object(s) PROVE IInv'
  BY <1>1, UpgradeIInv, AcceptIInv, EventIInv, UpstreamEndsIInv, RestartIInv, ValidateIInv,
     RecordIInv DEF Object
<1>2. CASE Next  BY <1>1, <1>2, TickIInv, OperatorIInv DEF Next
<1>3. CASE UNCHANGED vars
  <2>1. UNCHANGED <<now, restarts, standing, pc, local, meta, sock, upstream, due, finalized, fin,
                    ran, ledger, spent, stopped, lost>>
    BY <1>3 DEF vars, doVars
  <2>2. TypeOK'  BY <2>1 DEF IInv, TypeOK
  <2>3. ASSUME NEW s \in Session PROVE Safe(s)'
    <3>1. Same(s) /\ Safe(s)  BY <2>1 DEF Same, IInv
    <3>2. QED  BY <2>1, <3>1, SameSafe
  <2>4. QED  BY <2>1, <2>2, <2>3, RowsKept DEF IInv
<1>4. QED  BY <1>2, <1>3

\* The invariant of every behaviour.
THEOREM AlwaysIInv == Spec => []IInv
BY InitIInv, NextIInv, PTL DEF Spec

\* Sockets, timers and rows keep their types, and no session's minutes leave the range
\* the cap allows.
THEOREM TypeCorrect == Spec => []TypeOK
<1>1. IInv => TypeOK  BY DEF IInv
<1>2. QED  BY <1>1, AlwaysIInv, PTL

\* The account is charged the sum of its session rows: a session moves money once,
\* however often finalize runs again after a restart (ChargedOnce).
THEOREM EachChargedOnce == Spec => []ChargedOnce
<1>1. IInv => ChargedOnce  BY DEF IInv
<1>2. QED  BY <1>1, AlwaysIInv, PTL

\* A charged session is over, and its minutes cover its time and stay within the cap
\* (BilledMinutes).
THEOREM MinutesCoverTheSession == Spec => []BilledMinutes
<1>1. ASSUME IInv PROVE BilledMinutes
  <2>1. ASSUME NEW s \in Charged
        PROVE  sock[s] # "open" /\ Covers(ledger[s].units, s)
    <3>1. s \in Session /\ ledger[s].basis = "measured" /\ Covered(s)
      BY <1>1 DEF Charged, IInv, Safe
    <3>2. ledger[s] # NoRow  BY <3>1 DEF NoRow
    <3>3. QED  BY <3>1, <3>2 DEF Covered
  <2>2. QED  BY <2>1 DEF BilledMinutes, Covers
<1>2. QED  BY <1>1, AlwaysIInv, PTL

\* No session that was open when an operator stopped its device or account is charged
\* (StoppedIsNotCharged).
THEOREM StoppedStaysFree == Spec => []StoppedIsNotCharged
<1>1. ASSUME IInv PROVE StoppedIsNotCharged
  BY <1>1 DEF IInv, Safe, Halted, StoppedIsNotCharged, Charged
<1>2. QED  BY <1>1, AlwaysIInv, PTL
=============================================================================
