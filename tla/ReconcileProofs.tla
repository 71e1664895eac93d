-------------------------- MODULE ReconcileProofs ---------------------------
(***************************************************************************)
(* Proofs about Reconcile, for any number of rows and of overlapping and   *)
(* crashing runs: types, a row moves money at most once, no row slips      *)
(* behind the watermark unexamined, no audit row is left without its money *)
(* unless a run died, and the watermark of one run at a time only grows.   *)
(***************************************************************************)
EXTENDS Reconcile, SumsProofs, FiniteSetTheorems

USE ReconcileAssumption

\* The watermark a run ends with is an instant of the clock.
LEMMA NextWatermarkType ==
  ASSUME NEW current \in 0..LastTime, NEW newest \in Time \cup {None}, NEW now \in Time
  PROVE  nextWatermark(current, newest, now) \in Time \cup {None}
BY DEF nextWatermark, Time, None

\* A run whose record is replaced by a well-typed one is still a run.
LEMMA RunType ==
  ASSUME TypeOK, NEW w \in Run, NEW x \in {Idle} \cup Busy,
         x.pc \in {"apply", "move"} => x.row \in Row,
         run' = [run EXCEPT ![w] = x]
  PROVE  /\ run' \in [Run -> {Idle} \cup Busy]
         /\ \A v \in Run : run'[v].pc \in {"apply", "move"} => run'[v].row \in Row
BY DEF TypeOK

\* The first state is well typed.
LEMMA InitTypeOK == Init => TypeOK
BY DEF Init, TypeOK, Time, None, Idle

\* The world's steps keep the types.
LEMMA WorldTypeOK ==
  ASSUME TypeOK, Tick \/ \E r \in Row : Request(r) \/ Appear(r) \/ Record(r)
  PROVE  TypeOK'
<1> USE DEF state, history
<1>1. CASE Tick
  BY <1>1 DEF Tick, TypeOK, Time
<1>2. ASSUME NEW r \in Row, Request(r) PROVE TypeOK'
  BY <1>2 DEF Request, TypeOK
<1>3. ASSUME NEW r \in Row, Appear(r) PROVE TypeOK'
  BY <1>3 DEF Appear, TypeOK
<1>4. ASSUME NEW r \in Row, Record(r) PROVE TypeOK'
  BY <1>4 DEF Record, TypeOK
<1>5. QED
  BY <1>1, <1>2, <1>3, <1>4

\* So do the steps of a run.
LEMMA RunTypeOK ==
  ASSUME TypeOK, NEW w \in Run,
         (\E dry \in BOOLEAN : runReconcile(w, dry)) \/ Work(w) \/ listSinceFails(w) \/ Crash(w)
  PROVE  TypeOK'
<1> USE DEF world, state, history
<1> DEFINE RunsTyped ==
             /\ run' \in [Run -> {Idle} \cup Busy]
             /\ \A v \in Run : run'[v].pc \in {"apply", "move"} => run'[v].row \in Row
<1>0. run[w].pc # "idle" => run[w] \in Busy
  BY DEF TypeOK, Idle
<1>1. ASSUME NEW dry \in BOOLEAN, runReconcile(w, dry)
      PROVE  TypeOK'
  <2> DEFINE x == [pc |-> "paging", dry |-> dry, now |-> clock,
                   floor |-> IF watermark = None THEN Since ELSE watermark,
                   page |-> 1, batch |-> {}, short |-> FALSE,
                   decisions |-> 0, newest |-> None, applied |-> 0, row |-> None]
  <2>1. x \in Busy /\ x.pc = "paging"
    BY DEF TypeOK, Busy, Time, None, Since
  <2>2. run' = [run EXCEPT ![w] = x]
    BY <1>1 DEF runReconcile
  <2> HIDE DEF x
  <2>3. RunsTyped
    BY <2>1, <2>2, RunType
  <2>4. QED
    BY <1>1, <2>3 DEF runReconcile, TypeOK
<1>2. CASE listSince(w)
  <2> DEFINE page == Page(run[w].floor, run[w].page)
             rows == {r \in page : Outcome[r] # "malformed"}
             small == Cardinality(page) < PerPage
             x1 == [run[w] EXCEPT !.pc = "rows"]
             x2 == [x1 EXCEPT !.batch = rows]
             x3 == [x2 EXCEPT !.short = small]
  <2>1. run[w] \in Busy
    BY <1>0, <1>2 DEF listSince
  <2>2. rows \in SUBSET Row /\ small \in BOOLEAN
    BY DEF Page, Feed, TypeOK
  <2>3. run' = [run EXCEPT ![w] = x3]
    BY <1>2 DEF listSince
  <2>4. x3 \in Busy /\ x3.pc = "rows"
    <3> HIDE DEF rows, small
    <3>1. x1 \in Busy /\ x1.pc = "rows"
      BY <2>1 DEF Busy
    <3> HIDE DEF x1
    <3>2. x2 \in Busy /\ x2.pc = "rows"
      BY <2>2, <3>1 DEF Busy
    <3> HIDE DEF x2
    <3>3. QED
      BY <2>2, <3>2 DEF Busy
  <2> HIDE DEF x3
  <2>5. RunsTyped
    BY <2>3, <2>4, RunType
  <2>6. QED
    BY <1>2, <2>5 DEF listSince, TypeOK
<1>3. CASE NextPage(w)
  <2> DEFINE p == IF run[w].short THEN "advance" ELSE "paging"
             n == IF run[w].short THEN run[w].page ELSE run[w].page + 1
             x1 == [run[w] EXCEPT !.pc = p]
             x2 == [x1 EXCEPT !.page = n]
  <2>1. run[w] \in Busy
    BY <1>0, <1>3 DEF NextPage
  <2>2. n \in Nat /\ p \in {"paging", "advance"}
    BY <2>1 DEF Busy
  <2>3. run' = [run EXCEPT ![w] = x2]
    BY <1>3 DEF NextPage
  <2>4. x2 \in Busy /\ x2.pc \in {"paging", "advance"}
    <3> HIDE DEF n, p
    <3>1. x1 \in Busy /\ x1.pc = p
      BY <2>1, <2>2 DEF Busy
    <3> HIDE DEF x1
    <3>2. QED
      BY <2>2, <3>1 DEF Busy
  <2> HIDE DEF x2
  <2>5. RunsTyped
    BY <2>3, <2>4, RunType
  <2>6. QED
    BY <1>3, <2>5 DEF NextPage, TypeOK
<1>4. ASSUME NEW r \in Row, Truncate(w, r)
      PROVE  TypeOK'
  <2>1. run[w] \in Busy
    BY <1>0, <1>4 DEF Truncate
  <2> DEFINE x == [run[w] EXCEPT !.pc = "advance"]
  <2>2. run' = [run EXCEPT ![w] = x] /\ x \in Busy /\ x.pc = "advance"
    BY <1>4, <2>1 DEF Truncate, Busy
  <2> HIDE DEF x
  <2>3. RunsTyped
    BY <2>2, RunType
  <2>4. QED
    BY <1>4, <2>3 DEF Truncate, TypeOK
<1>5. ASSUME NEW r \in Row, Decide(w, r)
      PROVE  TypeOK'
  <2> DEFINE acts == decideAdjustment(r, needsLedgerLookup(r) /\ r \in ledger) = "adjust"
                       /\ ~run[w].dry
             p == IF acts THEN "apply" ELSE "rows"
             q == IF acts THEN r ELSE None
             x1 == [run[w] EXCEPT !.pc = p]
             x2 == [x1 EXCEPT !.row = q]
             x3 == [x2 EXCEPT !.batch = run[w].batch \ {r}]
             x4 == [x3 EXCEPT !.decisions = run[w].decisions + 1]
             x5 == [x4 EXCEPT !.newest = createdAt[r]]
  <2>1. run[w] \in Busy
    BY <1>0, <1>5 DEF Decide
  <2>2. /\ p \in {"rows", "apply"} /\ (p = "apply" => q \in Row)
        /\ q \in Row \cup {None}
        /\ run[w].batch \ {r} \in SUBSET Row
        /\ run[w].decisions + 1 \in Nat
        /\ createdAt[r] \in Time \cup {None}
    BY <2>1 DEF Busy, TypeOK
  <2>3. run' = [run EXCEPT ![w] = x5]
    BY <1>5 DEF Decide
  <2> HIDE DEF acts, p, q
  <2>4. x5 \in Busy /\ x5.pc = p /\ x5.row = q
    <3>1. x1 \in Busy /\ x1.pc = p
      BY <2>1, <2>2 DEF Busy
    <3> HIDE DEF x1
    <3>2. x2 \in Busy /\ x2.pc = p /\ x2.row = q
      BY <2>2, <3>1 DEF Busy
    <3> HIDE DEF x2
    <3>3. x3 \in Busy /\ x3.pc = p /\ x3.row = q
      BY <2>2, <3>2 DEF Busy
    <3> HIDE DEF x3
    <3>4. x4 \in Busy /\ x4.pc = p /\ x4.row = q
      BY <2>2, <3>3 DEF Busy
    <3> HIDE DEF x4
    <3>5. QED
      BY <2>2, <3>4 DEF Busy
  <2> HIDE DEF x5
  <2>5. RunsTyped
    BY <2>2, <2>3, <2>4, RunType
  <2>6. QED
    BY <1>5, <2>5 DEF Decide, TypeOK
<1>6. CASE insertAdjustment(w)
  <2> DEFINE x1 == [run[w] EXCEPT !.pc = "rows"]
             x2 == [x1 EXCEPT !.row = None]
             y == [run[w] EXCEPT !.pc = "move"]
  <2>1. run[w] \in Busy /\ run[w].row \in Row
    BY <1>0, <1>6 DEF insertAdjustment, TypeOK
  <2>2. x2 \in Busy /\ x2.pc = "rows"
    <3>1. x1 \in Busy /\ x1.pc = "rows"
      BY <2>1 DEF Busy
    <3> HIDE DEF x1
    <3>2. QED
      BY <3>1 DEF Busy
  <2>3. y \in Busy /\ y.row = run[w].row
    BY <2>1 DEF Busy
  <2>4. run' = [run EXCEPT ![w] = x2] \/ run' = [run EXCEPT ![w] = y]
    BY <1>6 DEF insertAdjustment
  <2> HIDE DEF x2, y
  <2>5. RunsTyped
    BY <2>1, <2>2, <2>3, <2>4, RunType
  <2>6. QED
    BY <1>6, <2>1, <2>5 DEF insertAdjustment, TypeOK
<1>7. CASE moveMoney(w)
  <2> DEFINE x1 == [run[w] EXCEPT !.pc = "rows"]
             x2 == [x1 EXCEPT !.row = None]
             x3 == [x2 EXCEPT !.applied = run[w].applied + 1]
  <2>1. run[w] \in Busy /\ run[w].applied + 1 \in Nat
    BY <1>0, <1>7 DEF moveMoney, Busy
  <2>2. x3 \in Busy /\ x3.pc = "rows"
    <3>1. x1 \in Busy /\ x1.pc = "rows"
      BY <2>1 DEF Busy
    <3> HIDE DEF x1
    <3>2. x2 \in Busy /\ x2.pc = "rows"
      BY <3>1 DEF Busy
    <3> HIDE DEF x2
    <3>3. QED
      BY <2>1, <3>2 DEF Busy
  <2>3. run' = [run EXCEPT ![w] = x3]
    BY <1>7 DEF moveMoney
  <2> HIDE DEF x3
  <2>4. RunsTyped
    BY <2>2, <2>3, RunType
  <2>5. moved' \in [Row -> Nat]
    BY <1>7 DEF moveMoney, TypeOK
  <2>6. QED
    BY <1>7, <2>4, <2>5 DEF moveMoney, TypeOK
<1>8. CASE advanceReconcileState(w)
  <2>1. run[w] \in Busy
    BY <1>0, <1>8 DEF advanceReconcileState
  <2>2. /\ nextWatermark(run[w].floor, run[w].newest, run[w].now) \in Time \cup {None}
        /\ run[w].applied \in Nat
    BY <2>1, NextWatermarkType DEF Busy
  <2>3. watermark' \in Time \cup {None} /\ rowsAdjusted' \in Nat
    BY <1>8, <2>2 DEF advanceReconcileState, TypeOK
  <2>4. RunsTyped
    BY <1>8, RunType DEF advanceReconcileState, Idle
  <2>5. QED
    BY <1>8, <2>3, <2>4 DEF advanceReconcileState, TypeOK
<1>9. CASE listSinceFails(w) \/ Crash(w)
  <2>1. RunsTyped
    BY <1>9, RunType DEF listSinceFails, Crash, Idle
  <2>2. failures' \in 0..MaxFailures
    BY <1>9 DEF listSinceFails, Crash, TypeOK
  <2>3. QED
    BY <1>9, <2>1, <2>2 DEF listSinceFails, Crash, TypeOK
<1>10. QED
  BY <1>1, <1>2, <1>3, <1>4, <1>5, <1>6, <1>7, <1>8, <1>9 DEF Work

\* A step of one run leaves the others where they are.
LEMMA RunFrame ==
  ASSUME TypeOK, NEW w \in Run,
         (\E dry \in BOOLEAN : runReconcile(w, dry)) \/ Work(w) \/ listSinceFails(w) \/ Crash(w),
         NEW v \in Run \ {w}
  PROVE  run'[v] = run[v]
BY DEF TypeOK, runReconcile, Work, listSince, NextPage, Truncate, Decide, insertAdjustment,
       moveMoney, advanceReconcileState, listSinceFails, Crash

\* The inductive invariant.
IInv == TypeOK /\ TruedUpOnce /\ OneMover

LEMMA InitIInv == Init => IInv
<1> SUFFICES ASSUME Init PROVE IInv
  OBVIOUS
<1>1. TypeOK
  BY InitTypeOK
<1>2. QED
  BY <1>1 DEF Init, IInv, TruedUpOnce, OneMover, Idle

\* A run may insert an audit row or move its money; nothing else concerns either.
LEMMA RunMovesOnce ==
  ASSUME IInv, NEW w \in Run,
         (\E dry \in BOOLEAN : runReconcile(w, dry)) \/ Work(w) \/ listSinceFails(w) \/ Crash(w)
  PROVE  TruedUpOnce' /\ OneMover'
<1> USE DEF world, state, history, IInv
<1>0. \A v \in Run \ {w} : run'[v] = run[v]
  BY RunFrame
<1>1. CASE insertAdjustment(w)
  <2> DEFINE r == run[w].row
  <2>1. run[w] \in Busy /\ r \in Row /\ moved' = moved
    BY <1>1 DEF insertAdjustment, TypeOK, Idle
  <2>2. CASE r \in adjusted
    <3>0. run' = [run EXCEPT ![w] = [run[w] EXCEPT !.pc = "rows", !.row = None]]
      BY <1>1, <2>2 DEF insertAdjustment
    <3>1. run'[w].pc = "rows" /\ adjusted' = adjusted
      BY <1>1, <2>1, <2>2, <3>0 DEF insertAdjustment, TypeOK, Busy
    <3>2. QED
      BY <1>0, <2>1, <3>1 DEF TruedUpOnce, OneMover
  <2>3. CASE r \notin adjusted
    <3>1. run'[w].pc = "move" /\ run'[w].row = r /\ adjusted' = adjusted \cup {r}
      BY <1>1, <2>1, <2>3 DEF insertAdjustment, TypeOK, Busy
    <3>2. moved[r] = 0
      BY <2>1, <2>3 DEF TruedUpOnce, TypeOK
    <3>3. TruedUpOnce'
      BY <2>1, <3>1, <3>2 DEF TruedUpOnce, TypeOK
    <3>4. OneMover'
      BY <1>0, <2>1, <2>3, <3>1, <3>2 DEF OneMover
    <3>5. QED
      BY <3>3, <3>4
  <2>4. QED
    BY <2>2, <2>3
<1>2. CASE moveMoney(w)
  <2> DEFINE r == run[w].row
  <2>1. run[w] \in Busy /\ r \in Row /\ run[w].pc = "move"
    BY <1>2 DEF moveMoney, TypeOK, Idle
  <2>2. moved[r] = 0 /\ r \in adjusted /\ adjusted' = adjusted
    BY <1>2, <2>1 DEF moveMoney, OneMover
  <2>3. moved' = [moved EXCEPT ![r] = 1]
    BY <1>2, <2>2 DEF moveMoney, TypeOK
  <2>4. run'[w].pc = "rows"
    BY <1>2, <2>1 DEF moveMoney, TypeOK, Busy
  <2>5. TruedUpOnce'
    BY <2>1, <2>2, <2>3 DEF TruedUpOnce, TypeOK
  <2>6. OneMover'
    BY <1>0, <2>1, <2>2, <2>3, <2>4 DEF OneMover, TypeOK
  <2>7. QED
    BY <2>5, <2>6
<1>3. CASE ~insertAdjustment(w) /\ ~moveMoney(w)
  <2>1. adjusted' = adjusted /\ moved' = moved
    BY <1>3 DEF runReconcile, Work, listSince, NextPage, Truncate, Decide,
       advanceReconcileState, listSinceFails, Crash
  <2>2. run'[w].pc # "move"
    <3>1. run[w].pc = "idle" \/ run[w] \in Busy
      BY DEF TypeOK, Idle
    <3>2. CASE (\E dry \in BOOLEAN : runReconcile(w, dry)) \/ advanceReconcileState(w)
               \/ listSinceFails(w) \/ Crash(w)
      BY <3>2 DEF TypeOK, Idle, runReconcile, advanceReconcileState, listSinceFails, Crash
    <3>3. CASE listSince(w)
      BY <3>1, <3>3 DEF TypeOK, Busy, listSince
    <3>4. CASE NextPage(w)
      BY <3>1, <3>4 DEF TypeOK, Busy, NextPage
    <3>5. ASSUME NEW r \in Row, Truncate(w, r) PROVE run'[w].pc # "move"
      BY <3>1, <3>5 DEF TypeOK, Busy, Truncate
    <3>6. ASSUME NEW r \in Row, Decide(w, r) PROVE run'[w].pc # "move"
      BY <3>1, <3>6 DEF TypeOK, Busy, Decide
    <3>7. QED
      BY <1>3, <3>2, <3>3, <3>4, <3>5, <3>6 DEF Work
  <2>3. QED
    BY <1>0, <2>1, <2>2 DEF TruedUpOnce, OneMover
<1>4. QED
  BY <1>1, <1>2, <1>3

LEMMA NextIInv == IInv /\ [Next]_vars => IInv'
<1> SUFFICES ASSUME IInv, [Next]_vars
             PROVE  IInv'
  OBVIOUS
<1>1. ASSUME NEW w \in Run,
             (\E dry \in BOOLEAN : runReconcile(w, dry)) \/ Work(w) \/ listSinceFails(w) \/ Crash(w)
      PROVE  IInv'
  BY <1>1, RunTypeOK, RunMovesOnce DEF IInv
<1>2. CASE Tick \/ \E r \in Row : Request(r) \/ Appear(r) \/ Record(r)
  <2>1. UNCHANGED <<adjusted, run, moved>>
    BY <1>2 DEF Tick, Request, Appear, Record, history
  <2>2. QED
    BY <1>2, <2>1, WorldTypeOK DEF IInv, TruedUpOnce, OneMover
<1>3. CASE UNCHANGED vars
  BY <1>3 DEF vars, world, state, history, IInv, TypeOK, TruedUpOnce, OneMover
<1>4. QED
  BY <1>1, <1>2, <1>3 DEF Next

LEMMA AlwaysIInv == Spec => []IInv
BY InitIInv, NextIInv, PTL DEF Spec

\* Instants stay on the clock and every run is at a known await, for any number
\* of rows and of overlapping runs (reconcile-run.ts).
THEOREM TypeCorrect == Spec => []TypeOK
<1>1. IInv => TypeOK
  BY DEF IInv
<1>2. QED
  BY <1>1, AlwaysIInv, PTL

\* No gateway row moves money twice, whatever runs overlap, crash and start over
\* (reconcile-run.ts runReconcile, store-d1.ts applyUsageAdjustment).
THEOREM NeverTruedUpTwice == Spec => []TruedUpOnce
<1>1. IInv => TruedUpOnce
  BY DEF IInv
<1>2. QED
  BY <1>1, AlwaysIInv, PTL
-----------------------------------------------------------------------------

(***************************************************************************)
(* Ranks: the rows of a feed are numbered without a gap.                   *)
(***************************************************************************)
\* The rows of the feed up to r.
UpTo(F, r) == {q \in F : Before(q, r)}

LEMMA BeforeIsOrder ==
  ASSUME TypeOK
  PROVE  /\ \A r \in Row : Before(r, r)
         /\ \A q, r \in Row : Before(q, r) \/ Before(r, q)
         /\ \A q, r \in Row : Before(q, r) /\ Before(r, q) => q = r
         /\ \A p, q, r \in Row : Before(p, q) /\ Before(q, r) => Before(p, r)
<1>1. \A r \in Row : createdAt[r] \in Int /\ r \in Int  BY DEF TypeOK, Time, None, Row
<1>2. QED  BY <1>1 DEF Before

LEMMA UpToFinite ==
  ASSUME NEW F \in SUBSET Row, NEW r
  PROVE  /\ IsFiniteSet(UpTo(F, r)) /\ Rank(F, r) = Cardinality(UpTo(F, r))
         /\ Rank(F, r) \in Nat /\ UpTo(F, r) \subseteq F
<1>1. IsFiniteSet(Row)  BY FS_Interval DEF Row
<1>2. UpTo(F, r) \in SUBSET Row  BY DEF UpTo
<1>3. IsFiniteSet(UpTo(F, r))  BY <1>1, <1>2, FS_Subset
<1>4. Cardinality(UpTo(F, r)) \in Nat  BY <1>3, FS_CardinalityType
<1>5. Rank(F, r) = Cardinality(UpTo(F, r))  BY DEF Rank, UpTo
<1>6. QED  BY <1>3, <1>4, <1>5 DEF UpTo

\* A lower rank is an earlier row.
LEMMA RankOrders ==
  ASSUME TypeOK, NEW F \in SUBSET Row, NEW q \in F, NEW r \in F, Rank(F, q) < Rank(F, r)
  PROVE  q # r /\ Before(q, r)
<1>1. CASE Before(q, r)
  <2>1. q # r  BY UpToFinite
  <2>2. QED  BY <1>1, <2>1
<1>2. CASE ~ Before(q, r)
  <2>1. Before(r, q)  BY <1>2, BeforeIsOrder
  <2>2. UpTo(F, r) \in SUBSET UpTo(F, q)  BY <2>1, BeforeIsOrder DEF UpTo
  <2>3. Cardinality(UpTo(F, r)) <= Cardinality(UpTo(F, q))  BY <2>2, UpToFinite, FS_Subset
  <2>4. FALSE  BY <2>3, UpToFinite
  <2>5. QED  BY <2>4
<1>3. QED  BY <1>1, <1>2

LEMMA RankPositive ==
  ASSUME TypeOK, NEW F \in SUBSET Row, NEW r \in F
  PROVE  Rank(F, r) >= 1
<1>1. r \in UpTo(F, r)  BY BeforeIsOrder DEF UpTo
<1>2. Cardinality(UpTo(F, r)) # 0  BY <1>1, UpToFinite, FS_EmptySet
<1>3. QED  BY <1>2, UpToFinite

\* The row just before r has the rank just below.
LEMMA RankPredecessor ==
  ASSUME TypeOK, NEW F \in SUBSET Row, NEW r \in F, Rank(F, r) > 1
  PROVE  \E q \in F : Rank(F, q) = Rank(F, r) - 1
<1> DEFINE D == UpTo(F, r) \ {r}
           T == {Rank(F, r) - Rank(F, q) : q \in D}
<1>1. r \in UpTo(F, r)  BY BeforeIsOrder DEF UpTo
<1>2. IsFiniteSet(D) /\ Cardinality(D) = Rank(F, r) - 1
  BY <1>1, UpToFinite, FS_RemoveElement
<1>3. D # {}
  <2>1. Cardinality(D) # 0  BY <1>2, UpToFinite
  <2>2. QED  BY <2>1, FS_EmptySet
<1>4. ASSUME NEW q \in D PROVE q \in F /\ Rank(F, r) - Rank(F, q) \in Nat
  <2>1. q \in F /\ Before(q, r)  BY <1>4 DEF UpTo
  <2>2. UpTo(F, q) \in SUBSET UpTo(F, r)  BY <2>1, BeforeIsOrder DEF UpTo
  <2>3. Cardinality(UpTo(F, q)) <= Cardinality(UpTo(F, r))  BY <2>2, UpToFinite, FS_Subset
  <2>4. QED  BY <2>1, <2>3, UpToFinite
<1>5. T \subseteq Nat /\ T # {}  BY <1>3, <1>4
<1>6. PICK t \in T : \A u \in T : t <= u
  <2> HIDE DEF T
  <2>1. QED  BY <1>5, NatMinimum
<1>7. PICK q \in D : t = Rank(F, r) - Rank(F, q)  BY <1>6
<1>8. q \in F /\ q # r /\ Before(q, r)  BY <1>7 DEF UpTo
<1>9. ASSUME NEW p \in D PROVE Before(p, q)
  <2>1. Rank(F, r) - Rank(F, q) <= Rank(F, r) - Rank(F, p)  BY <1>6, <1>7, <1>9
  <2>2. ~ (Rank(F, q) < Rank(F, p))
    <3>1. Rank(F, q) \in Nat /\ Rank(F, p) \in Nat /\ Rank(F, r) \in Nat  BY UpToFinite
    <3>2. QED  BY ONLY <2>1, <3>1
  <2>3. CASE Rank(F, p) < Rank(F, q)  BY <1>4, <1>8, <1>9, <2>3, RankOrders
  <2>4. CASE Rank(F, p) = Rank(F, q)
    <3>1. p \in F  BY <1>4, <1>9
    <3>2. CASE ~ Before(p, q)
      <4>1. Before(q, p) /\ p \in Row /\ q \in Row  BY <1>8, <3>1, <3>2, BeforeIsOrder
      <4>2. UpTo(F, q) \in SUBSET UpTo(F, p)  BY <4>1, BeforeIsOrder DEF UpTo
      <4>3. UpTo(F, q) = UpTo(F, p)  BY <2>4, <4>2, UpToFinite, FS_Subset
      <4>4. p \in UpTo(F, p)  BY <3>1, BeforeIsOrder DEF UpTo
      <4>5. QED  BY <3>2, <4>3, <4>4 DEF UpTo
    <3>3. QED  BY <3>2
  <2>5. QED  BY <2>2, <2>3, <2>4, UpToFinite
<1>10. UpTo(F, q) = D
  <2>1. r \notin UpTo(F, q)  BY <1>8, BeforeIsOrder DEF UpTo
  <2>2. UpTo(F, q) \subseteq UpTo(F, r)  BY <1>8, BeforeIsOrder DEF UpTo
  <2>3. \A p \in D : p \in UpTo(F, q)  BY <1>4, <1>9 DEF UpTo
  <2>4. QED  BY <2>1, <2>2, <2>3
<1>11. QED  BY <1>2, <1>8, <1>10, UpToFinite

\* Every rank below that of a row is taken.
LEMMA RankOnto ==
  ASSUME TypeOK, NEW F \in SUBSET Row, NEW r \in F, NEW k \in Nat, k >= 1, k <= Rank(F, r)
  PROVE  \E q \in F : Rank(F, q) = k
<1> SUFFICES ASSUME \A q \in F : Rank(F, q) # k PROVE FALSE
  OBVIOUS
<1> DEFINE T == {Rank(F, q) : q \in {p \in F : Rank(F, p) > k}}
<1>1. \A q \in F : Rank(F, q) \in Nat  BY UpToFinite
<1>2. T \subseteq Nat /\ Rank(F, r) \in T  BY <1>1
<1>3. PICK t \in T : \A u \in T : t <= u
  <2> HIDE DEF T
  <2>1. QED  BY <1>2, NatMinimum
<1>4. PICK p \in F : Rank(F, p) = t /\ t > k  BY <1>3
<1>5. PICK q \in F : Rank(F, q) = Rank(F, p) - 1
  <2>1. Rank(F, p) > 1  BY <1>1, <1>4
  <2>2. QED  BY <2>1, RankPredecessor
<1>6. Rank(F, q) > k  BY <1>1, <1>4, <1>5
<1>7. Rank(F, q) \in T  BY <1>6
<1>8. t <= Rank(F, q) /\ Rank(F, q) = t - 1 /\ t \in Nat  BY <1>1, <1>3, <1>4, <1>5, <1>7
<1>9. QED  BY ONLY <1>8

\* A page that is not the last of its feed is full.
LEMMA PageFull ==
  ASSUME TypeOK, NEW F \in SUBSET Row, NEW r \in F, NEW lo \in Nat, Rank(F, r) > lo + PerPage
  PROVE  Cardinality({q \in F : Rank(F, q) \in lo + 1 .. lo + PerPage}) >= PerPage
<1> DEFINE P == {q \in F : Rank(F, q) \in lo + 1 .. lo + PerPage}
           I == lo + 1 .. lo + PerPage
           f == [q \in P |-> Rank(F, q)]
<1>1. IsFiniteSet(P)
  <2>1. IsFiniteSet(Row)  BY FS_Interval DEF Row
  <2>2. P \in SUBSET Row  OBVIOUS
  <2> HIDE DEF P
  <2>3. QED  BY <2>1, <2>2, FS_Subset
<1>2. \A k \in I : \E q \in P : Rank(F, q) = k
  <2> SUFFICES ASSUME NEW k \in I PROVE \E q \in P : Rank(F, q) = k
    OBVIOUS
  <2>1. k \in Nat /\ k >= 1 /\ k <= Rank(F, r)  BY UpToFinite
  <2>2. PICK q \in F : Rank(F, q) = k  BY <2>1, RankOnto
  <2>3. q \in P  BY <2>2
  <2>4. QED  BY <2>2, <2>3
<1>3. f \in Surjection(P, I)
  <2>1. f \in [P -> I]  OBVIOUS
  <2>2. \A k \in I : \E q \in P : f[q] = k  BY <1>2
  <2> HIDE DEF P, I, f
  <2>3. QED  BY <2>1, <2>2 DEF Surjection
<1>4. Cardinality(I) <= Cardinality(P)
  <2> HIDE DEF P, I, f
  <2>1. QED  BY <1>1, <1>3, FS_Surjection
<1>5. Cardinality(I) = PerPage
  <2>1. lo + 1 \in Int /\ lo + PerPage \in Int /\ ~(lo + 1 > lo + PerPage)  OBVIOUS
  <2>2. QED  BY <2>1, FS_Interval
<1>6. QED  BY <1>4, <1>5
-----------------------------------------------------------------------------
(***************************************************************************)
(* What a live run x knows.                                                *)
(***************************************************************************)
Kept(r) == Outcome[r] # "malformed"

\* Row r is dealt with, or is one of H, whose audit row is about to be written.
Handled(r, H) ==
  r \in examined /\ (Outcome[r] = "adjust" => r \in adjusted \cup reported \cup H)
Held(x) == IF x.pc = "apply" THEN {x.row} ELSE {}

\* The rows the watermark may come to pass when x ends, and their places in the feed.
Window(x) == {r \in Row : createdAt[r] > x.floor /\ createdAt[r] <= x.now - Settle}
Pos(x, r) == Rank(Window(x), r)

\* How many places the pages read so far have covered.
Seen(x) == (IF x.pc = "paging" THEN x.page - 1 ELSE x.page) * PerPage

\* Row r is younger than the last one decided.
Ahead(x, r) == x.newest = None \/ createdAt[r] > x.newest

\* All below the floor is dealt with.
Behind(x) ==
  \A r \in Row : createdAt[r] # None /\ createdAt[r] <= x.floor /\ Kept(r) => Handled(r, {})

\* The window is readable, and x looks at no row outside its feed.
Timely(x) ==
  /\ x.now <= clock /\ x.floor < clock /\ x.page >= 1
  /\ Window(x) \subseteq visible
  /\ x.newest # None => x.newest <= x.now - Settle
  /\ x.decisions > 0 => x.newest # None
  /\ x.batch \subseteq Feed(x.floor)
  /\ x.pc = "paging" => x.batch = {}

\* Rows are decided oldest first, across pages too.
Ordered(x) ==
  /\ \A q \in x.batch : Ahead(x, q)
  /\ \A r \in Window(x) : Pos(x, r) > Seen(x) =>
       Ahead(x, r) /\ \A q \in x.batch : createdAt[q] < createdAt[r]

\* Row r of the window is dealt with, or x will come to it, or x stopped before it.
CoveredRow(x, r) ==
  \/ Handled(r, Held(x))
  \/ x.pc # "advance" /\ r \in x.batch
  \/ x.pc # "advance" /\ Pos(x, r) > Seen(x) /\ (x.pc = "paging" \/ ~ x.short)
  \/ x.pc = "advance" /\ x.newest # None /\ createdAt[r] > x.newest
Covered(x) == \A r \in Window(x) : Kept(r) => CoveredRow(x, r)

Sound(x) == Behind(x) /\ Timely(x) /\ Ordered(x) /\ Covered(x)
Live(w) == \A x \in Busy : run[w] = x /\ ~ x.dry => Sound(x)

\* No two rows of one instant; the feed is settled up to the settling time, and the
\* watermark stays behind it.
Settled ==
  /\ \A q, r \in Row : q # r /\ createdAt[q] # None => createdAt[q] # createdAt[r]
  /\ \A r \in Row : createdAt[r] # None => createdAt[r] <= clock
  /\ \A r \in Row : createdAt[r] # None /\ createdAt[r] + Settle <= clock => r \in visible
  /\ watermark < clock

Watched == ~ Ties => Settled /\ NoRowLost /\ \A w \in Run : Live(w)

LEMMA RunFields ==
  ASSUME NEW x \in Busy
  PROVE  /\ x.now \in Nat /\ x.floor \in Nat /\ x.page \in Nat /\ x.decisions \in Nat
         /\ x.batch \in SUBSET Row /\ x.newest \in Int /\ (x.newest # None => x.newest \in Nat)
         /\ x.row \in Row \cup {None} /\ x.dry \in BOOLEAN /\ x.short \in BOOLEAN
BY DEF Busy, Time, None

LEMMA WorldFields ==
  ASSUME TypeOK
  PROVE  /\ clock \in Nat /\ watermark \in Int /\ visible \subseteq Row
         /\ \A r \in Row : createdAt[r] \in Int /\ (createdAt[r] # None => createdAt[r] >= 1)
BY DEF TypeOK, Time, None

\* The world may have grown; what it had is the same.
Grows ==
  /\ clock' >= clock
  /\ \A r \in Row : createdAt'[r] = createdAt[r] \/ (createdAt[r] = None /\ createdAt'[r] = clock')
  /\ visible \subseteq visible' /\ examined \subseteq examined'
  /\ adjusted \subseteq adjusted' /\ reported \subseteq reported'

\* The window of a run is fixed when it starts.
LEMMA WindowFixed ==
  ASSUME TypeOK, TypeOK', Grows, NEW x \in Busy, x.now <= clock
  PROVE  /\ Window(x)' = Window(x)
         /\ \A r \in Window(x) : createdAt'[r] = createdAt[r] /\ Pos(x, r)' = Pos(x, r)
<1>1. \A r \in Row : /\ createdAt[r] \in Int /\ createdAt'[r] \in Int
                     /\ clock \in Nat /\ clock' \in Nat
  BY DEF TypeOK, Time, None
<1>2. x.now \in Nat /\ x.floor \in Nat  BY RunFields
<1>3. \A r \in Row : createdAt'[r] # createdAt[r] => createdAt[r] = -1 /\ createdAt'[r] = clock'
  BY DEF Grows, None
<1>4. clock' >= clock  BY DEF Grows
<1>5. \A r \in Row : createdAt'[r] # createdAt[r] =>
         ~ (createdAt[r] > x.floor) /\ ~ (createdAt'[r] <= x.now - Settle)
  BY <1>1, <1>2, <1>3, <1>4
<1>6. Window(x)' = Window(x)  BY <1>5 DEF Window
<1>7. \A r \in Window(x) : createdAt'[r] = createdAt[r]  BY <1>5 DEF Window
<1>8. ASSUME NEW r \in Window(x) PROVE Pos(x, r)' = Pos(x, r)
  <2>1. {q \in Window(x)' : Before(q, r)'} = {q \in Window(x) : Before(q, r)}
    BY <1>6, <1>7, <1>8 DEF Before
  <2>2. QED  BY <2>1 DEF Pos, Rank
<1>9. QED  BY <1>6, <1>7, <1>8

LEMMA GrowsSound ==
  ASSUME TypeOK, TypeOK', Grows, NEW x \in Busy, Sound(x)
  PROVE  Sound(x)'
<1>1. /\ Window(x)' = Window(x)
      /\ \A r \in Window(x) : createdAt'[r] = createdAt[r] /\ Pos(x, r)' = Pos(x, r)
  BY WindowFixed DEF Sound, Timely
<1>2. x.now \in Nat /\ x.floor \in Nat /\ clock \in Nat /\ clock' \in Nat /\ clock' >= clock
  BY RunFields DEF TypeOK, Time, Grows
<1>3. \A r \in Row : createdAt[r] \in Int /\ createdAt'[r] \in Int  BY DEF TypeOK, Time, None
<1>4. \A r, H : Handled(r, H) => Handled(r, H)'  BY DEF Grows, Handled
<1>5. Behind(x)'
  <2>1. \A r \in Row : createdAt'[r] <= x.floor => createdAt'[r] = createdAt[r]
    BY <1>2, <1>3 DEF Grows, Sound, Timely
  <2>2. QED  BY <1>4, <2>1 DEF Behind, Sound
<1>6. \A q \in x.batch : createdAt'[q] = createdAt[q] /\ q \in visible /\ createdAt[q] > x.floor
  <2>1. \A q \in x.batch : q \in Row /\ q \in visible /\ createdAt[q] > x.floor
    BY RunFields DEF Sound, Timely, Feed
  <2>2. \A q \in x.batch : createdAt[q] # None  BY <1>2, <1>3, <2>1 DEF None
  <2>3. QED  BY <2>1, <2>2 DEF Grows
<1>7. Timely(x)'
  <2>1. x.now <= clock' /\ x.floor < clock'  BY <1>2 DEF Sound, Timely
  <2>2. x.batch \subseteq Feed(x.floor)'  BY <1>6 DEF Feed, Grows
  <2>3. QED  BY <1>1, <2>1, <2>2 DEF Sound, Timely, Grows
<1>8. Ordered(x)'
  BY <1>1, <1>6 DEF Sound, Ordered, Ahead, Seen
<1>9. Covered(x)'
  <2> SUFFICES ASSUME NEW r \in Window(x), Kept(r) PROVE CoveredRow(x, r)'
    BY <1>1 DEF Covered
  <2>1. CoveredRow(x, r)  BY DEF Sound, Covered
  <2>2. QED  BY <1>1, <1>4, <2>1 DEF CoveredRow, Seen, Held
<1>10. QED  BY <1>5, <1>7, <1>8, <1>9 DEF Sound
-----------------------------------------------------------------------------
(***************************************************************************)
(* The steps of a run: x before, y after.                                  *)
(***************************************************************************)
Continues(x, y) ==
  y.floor = x.floor /\ y.now = x.now /\ y.decisions = x.decisions /\ y.newest = x.newest

LEMMA SameWindow ==
  ASSUME NEW x, NEW y, y.floor = x.floor, y.now = x.now
  PROVE  /\ Window(y) = Window(x) /\ (Behind(x) <=> Behind(y))
         /\ \A r : Pos(y, r) = Pos(x, r)
BY DEF Window, Pos, Behind

\* The places of the window are places of the feed.
LEMMA PosIsRank ==
  ASSUME TypeOK, NEW x \in Busy, Timely(x), NEW r \in Window(x)
  PROVE  r \in Feed(x.floor) /\ Pos(x, r) = Rank(Feed(x.floor), r)
<1>1. r \in Feed(x.floor)  BY DEF Timely, Window, Feed
<1>2. \A q \in Feed(x.floor) : Before(q, r) => q \in Window(x)
  <2>1. x.now - Settle \in Int  BY RunFields
  <2>2. \A q \in Row : createdAt[q] \in Int  BY WorldFields
  <2>3. QED  BY <2>1, <2>2, WorldFields DEF Before, Window, Feed
<1>3. \A q \in Window(x) : q \in Feed(x.floor)  BY DEF Timely, Window, Feed
<1>4. {q \in Feed(x.floor) : Before(q, r)} = {q \in Window(x) : Before(q, r)}  BY <1>2, <1>3
<1>5. QED  BY <1>1, <1>4 DEF Pos, Rank

\* Two rows of different places are of different instants.
LEMMA StrictlyBefore ==
  ASSUME TypeOK, Settled, NEW q \in Row, NEW r \in Row, q # r, Before(q, r), createdAt[q] # None
  PROVE  createdAt[q] < createdAt[r]
<1>1. createdAt[q] \in Int /\ createdAt[r] \in Int  BY WorldFields
<1>2. createdAt[q] # createdAt[r]  BY DEF Settled
<1>3. QED  BY <1>1, <1>2 DEF Before

LEMMA PageArithmetic ==
  ASSUME NEW p \in Nat, p >= 1
  PROVE  (p - 1) * PerPage \in Nat /\ p * PerPage \in Nat /\ p * PerPage = (p - 1) * PerPage + PerPage
<1>1. p - 1 \in Nat /\ PerPage \in Nat  OBVIOUS
<1>2. (p - 1) * PerPage \in Nat  BY <1>1, ProductGrows
<1>3. \A i, j \in Int : i * j = (i - 1) * j + j  OBVIOUS
<1>4. p * PerPage = (p - 1) * PerPage + PerPage  BY <1>1, <1>3
<1>5. QED  BY <1>1, <1>2, <1>4

\* A page is fetched.
LEMMA ListSound ==
  ASSUME TypeOK, Settled, NEW x \in Busy, NEW y \in Busy, Sound(x), Continues(x, y),
         x.pc = "paging", y.pc = "rows", y.page = x.page,
         y.batch = {r \in Page(x.floor, x.page) : Outcome[r] # "malformed"},
         y.short = (Cardinality(Page(x.floor, x.page)) < PerPage)
  PROVE  Sound(y)
<1> DEFINE F == Feed(x.floor)
           lo == (x.page - 1) * PerPage
           hi == x.page * PerPage
<1>1. /\ x.page \in Nat /\ x.page >= 1 /\ x.floor \in Nat /\ x.now \in Nat /\ x.newest \in Int
      /\ Timely(x) /\ Ordered(x) /\ Behind(x) /\ Covered(x)
  BY RunFields DEF Sound, Timely
<1>2. lo \in Nat /\ hi \in Nat /\ hi = lo + PerPage  BY <1>1, PageArithmetic
<1>3. Seen(x) = lo /\ Seen(y) = hi  BY DEF Seen
<1>4. F \in SUBSET Row /\ \A q \in F : createdAt[q] > x.floor /\ createdAt[q] # None /\ createdAt[q] \in Int
  <2>1. \A q \in F : q \in Row /\ createdAt[q] > x.floor  BY WorldFields DEF Feed
  <2>2. QED  BY <1>1, <2>1, WorldFields DEF None
<1>5. /\ Window(y) = Window(x) /\ Behind(y) /\ \A r : Pos(y, r) = Pos(x, r)
  BY <1>1, SameWindow DEF Continues
<1>6. \A r \in Window(x) : r \in F /\ Pos(x, r) = Rank(F, r) /\ r \in Row
  BY <1>1, PosIsRank DEF Window
<1>7. \A q \in y.batch : q \in F /\ Rank(F, q) \in lo + 1 .. hi  BY DEF Page
<1>8. \A r \in F : Rank(F, r) \in Nat  BY <1>4, UpToFinite
<1> HIDE DEF F, lo, hi
<1>9. Timely(y)
  <2>1. y.batch \subseteq Feed(y.floor)  BY <1>7 DEF F, Continues
  <2>2. QED  BY <1>1, <1>5, <2>1 DEF Timely, Continues
<1>10. Ordered(y)
  <2>1. ASSUME NEW q \in y.batch PROVE Ahead(y, q)
    <3>1. q \in F /\ q \in Row /\ Rank(F, q) > lo /\ createdAt[q] \in Int
      BY <1>2, <1>4, <1>7, <1>8, <2>1
    <3>2. CASE q \in Window(x)
      <4>1. Pos(x, q) > Seen(x)  BY <1>3, <1>6, <3>1, <3>2
      <4>2. Ahead(x, q)  BY <1>1, <3>2, <4>1 DEF Ordered
      <4>3. QED  BY <4>2 DEF Ahead, Continues
    <3>3. CASE q \notin Window(x)
      <4>1. createdAt[q] > x.now - Settle  BY <1>1, <1>4, <3>1, <3>3 DEF Window
      <4>2. x.newest # None => x.newest <= x.now - Settle  BY <1>1 DEF Timely
      <4>3. QED  BY <1>1, <3>1, <4>1, <4>2 DEF Ahead, Continues
    <3>4. QED  BY <3>2, <3>3
  <2>2. ASSUME NEW r \in Window(y), Pos(y, r) > Seen(y)
        PROVE  Ahead(y, r) /\ \A q \in y.batch : createdAt[q] < createdAt[r]
    <3>1. r \in Window(x) /\ r \in F /\ r \in Row /\ Rank(F, r) > hi /\ Pos(x, r) > Seen(x)
      BY <1>2, <1>3, <1>5, <1>6, <1>8, <2>2
    <3>2. Ahead(x, r)  BY <1>1, <3>1 DEF Ordered
    <3>3. ASSUME NEW q \in y.batch PROVE createdAt[q] < createdAt[r]
      <4>1. q \in F /\ q \in Row /\ Rank(F, q) < Rank(F, r) /\ createdAt[q] # None
        BY <1>2, <1>4, <1>7, <1>8, <3>1, <3>3
      <4>2. q # r /\ Before(q, r)  BY <1>4, <3>1, <4>1, RankOrders
      <4>3. QED  BY <3>1, <4>1, <4>2, StrictlyBefore
    <3>4. QED  BY <3>2, <3>3 DEF Ahead, Continues
  <2>3. QED  BY <2>1, <2>2 DEF Ordered
<1>11. Covered(y)
  <2> SUFFICES ASSUME NEW r \in Window(y), Kept(r) PROVE CoveredRow(y, r)
    BY DEF Covered
  <2>1. r \in Window(x) /\ r \in F /\ Pos(x, r) = Rank(F, r) /\ Rank(F, r) \in Nat
    BY <1>5, <1>6, <1>8
  <2>2. CASE Handled(r, {})  BY <2>2 DEF CoveredRow, Held
  <2>3. CASE ~ Handled(r, {})
    <3>1. Rank(F, r) > lo
      <4>1. x.batch = {}  BY <1>1 DEF Timely
      <4>2. Held(x) = {}  BY DEF Held
      <4>3. QED  BY <1>1, <1>3, <2>1, <2>3, <4>1, <4>2 DEF Covered, CoveredRow
    <3>2. CASE Rank(F, r) <= hi
      <4>1. Rank(F, r) \in lo + 1 .. hi  BY <1>2, <2>1, <3>1, <3>2
      <4>2. r \in Page(x.floor, x.page)  BY <2>1, <4>1 DEF Page, F, lo, hi
      <4>3. r \in y.batch  BY <4>2 DEF Kept
      <4>4. QED  BY <4>3 DEF CoveredRow
    <3>3. CASE Rank(F, r) > hi
      <4>1. Cardinality({q \in F : Rank(F, q) \in lo + 1 .. lo + PerPage}) >= PerPage
        BY <1>2, <1>4, <2>1, <3>3, PageFull
      <4>2. Page(x.floor, x.page) = {q \in F : Rank(F, q) \in lo + 1 .. lo + PerPage}
        BY <1>2 DEF Page, F, lo, hi
      <4>3. IsFiniteSet(Page(x.floor, x.page))
        <5>1. IsFiniteSet(Row)  BY FS_Interval DEF Row
        <5>2. Page(x.floor, x.page) \in SUBSET Row  BY <1>4 DEF Page, F
        <5>3. QED  BY <5>1, <5>2, FS_Subset
      <4>4. Cardinality(Page(x.floor, x.page)) \in Nat  BY <4>3, FS_CardinalityType
      <4>5. ~ y.short
        <5>1. Cardinality(Page(x.floor, x.page)) >= PerPage  BY <4>1, <4>2
        <5>2. ~ (Cardinality(Page(x.floor, x.page)) < PerPage)  BY <4>4, <5>1
        <5>3. QED  BY <5>2, Zenon
      <4>6. QED  BY <1>3, <1>5, <2>1, <3>3, <4>5 DEF CoveredRow
    <3>4. QED  BY <1>2, <2>1, <3>2, <3>3
  <2>4. QED  BY <2>2, <2>3
<1>12. QED  BY <1>5, <1>9, <1>10, <1>11 DEF Sound
\* The page is exhausted.
LEMMA PageSound ==
  ASSUME TypeOK, NEW x \in Busy, NEW y \in Busy, Sound(x), Continues(x, y),
         x.pc = "rows", x.batch = {}, y.batch = {},
         \/ x.short /\ y.pc = "advance" /\ y.page = x.page
         \/ ~ x.short /\ y.pc = "paging" /\ y.page = x.page + 1
  PROVE  Sound(y)
<1>1. x.page \in Nat /\ x.page >= 1 /\ Timely(x) /\ Ordered(x) /\ Behind(x) /\ Covered(x)
  BY RunFields DEF Sound, Timely
<1>2. /\ Window(y) = Window(x) /\ Behind(y) /\ \A r : Pos(y, r) = Pos(x, r)
  BY <1>1, SameWindow DEF Continues
<1>3. Seen(y) = Seen(x)
  <2>1. (IF y.pc = "paging" THEN y.page - 1 ELSE y.page) = x.page  BY <1>1
  <2>2. QED  BY <2>1 DEF Seen
<1>4. Timely(y)  BY <1>1, <1>2 DEF Timely, Continues
<1>5. Ordered(y)  BY <1>1, <1>2, <1>3 DEF Ordered, Ahead, Continues
<1>6. Covered(y)
  <2> SUFFICES ASSUME NEW r \in Window(y), Kept(r) PROVE CoveredRow(y, r)
    BY DEF Covered
  <2>1. CoveredRow(x, r)  BY <1>1, <1>2 DEF Covered
  <2>2. QED  BY <1>2, <1>3, <2>1 DEF CoveredRow, Held
<1>7. QED  BY <1>2, <1>4, <1>5, <1>6 DEF Sound

\* The run stops at row q: the rows it leaves out are younger than the last one it
\* decided, or too young for the watermark.
LEMMA TruncateSound ==
  ASSUME TypeOK, Settled, NEW x \in Busy, NEW y \in Busy, Sound(x), Continues(x, y),
         x.pc = "rows", y.pc = "advance", y.batch = x.batch, y.page = x.page,
         NEW q \in Row, First(x.batch, q), createdAt[q] > x.now - Settle \/ x.decisions >= MaxRows
  PROVE  Sound(y)
<1>1. /\ x.now \in Nat /\ x.decisions \in Nat /\ x.newest \in Int /\ x.batch \in SUBSET Row
      /\ Timely(x) /\ Ordered(x) /\ Behind(x) /\ Covered(x)
  BY RunFields DEF Sound
<1>2. /\ Window(y) = Window(x) /\ Behind(y) /\ \A r : Pos(y, r) = Pos(x, r)
  BY <1>1, SameWindow DEF Continues
<1>3. Seen(y) = Seen(x)  BY DEF Seen
<1>4. Timely(y)  BY <1>1, <1>2 DEF Timely, Continues
<1>5. Ordered(y)  BY <1>1, <1>2, <1>3 DEF Ordered, Ahead, Continues
<1>6. ASSUME NEW r \in Window(y), Kept(r) PROVE CoveredRow(y, r)
  <2>1. r \in Window(x) /\ r \in Row /\ CoveredRow(x, r)  BY <1>1, <1>2, <1>6 DEF Covered, Window
  <2>2. CASE Handled(r, {})  BY <2>2 DEF CoveredRow, Held
  <2>3. CASE r \in x.batch \/ Pos(x, r) > Seen(x)
    <3>1. Ahead(x, r)  BY <1>1, <2>1, <2>3 DEF Ordered
    <3>2. createdAt[q] <= createdAt[r]
      <4>1. createdAt[q] \in Int /\ createdAt[r] \in Int  BY <2>1, WorldFields
      <4>2. q \in x.batch /\ (r \in x.batch => Before(q, r))  BY DEF First
      <4>3. Pos(x, r) > Seen(x) => createdAt[q] < createdAt[r]  BY <1>1, <2>1, <4>2 DEF Ordered
      <4>4. QED  BY <2>3, <4>1, <4>2, <4>3 DEF Before
    <3>3. createdAt[r] <= x.now - Settle  BY <2>1 DEF Window
    <3>4. x.decisions >= MaxRows
      <4>1. createdAt[q] \in Int /\ createdAt[r] \in Int  BY <2>1, WorldFields
      <4>2. QED  BY <1>1, <3>2, <3>3, <4>1
    <3>5. x.newest # None  BY <1>1, <3>4 DEF Timely
    <3>6. QED  BY <3>1, <3>5 DEF CoveredRow, Ahead, Continues
  <2>4. QED  BY <2>1, <2>2, <2>3 DEF CoveredRow, Held
<1>7. QED  BY <1>2, <1>4, <1>5, <1>6 DEF Sound, Covered

\* The money of a row moves, or a true-up turns out to be there already.
LEMMA ApplySound ==
  ASSUME NEW x \in Busy, NEW y \in Busy, Sound(x)', Continues(x, y),
         x.pc \in {"apply", "move"}, y.pc \in {"rows", "move"},
         y.batch = x.batch, y.page = x.page, y.short = x.short,
         x.pc = "apply" => x.row \in adjusted'
  PROVE  Sound(y)'
<1>1. Timely(x)' /\ Ordered(x)' /\ Behind(x)' /\ Covered(x)'  BY DEF Sound
<1>2. /\ Window(y)' = Window(x)' /\ Behind(y)' /\ \A r : Pos(y, r)' = Pos(x, r)'
  BY <1>1 DEF Window, Pos, Behind, Continues
<1>3. Seen(y) = Seen(x)  BY DEF Seen
<1>4. Timely(y)'  BY <1>1, <1>2 DEF Timely, Continues
<1>5. Ordered(y)'  BY <1>1, <1>2, <1>3 DEF Ordered, Ahead, Continues, Seen
<1>6. \A r : Handled(r, Held(x))' => Handled(r, Held(y))'  BY DEF Handled, Held
<1>7. Covered(y)'
  <2> SUFFICES ASSUME NEW r \in Window(x)', Kept(r) PROVE CoveredRow(y, r)'
    BY <1>2 DEF Covered
  <2>1. CoveredRow(x, r)'  BY <1>1 DEF Covered
  <2>2. QED  BY <1>2, <1>3, <1>6, <2>1 DEF CoveredRow, Seen
<1>8. QED  BY <1>2, <1>4, <1>5, <1>7 DEF Sound

\* Row q, the first of the batch, is decided.
LEMMA DecideSound ==
  ASSUME TypeOK, Settled, NEW x \in Busy, NEW y \in Busy, Sound(x), Sound(x)',
         y.floor = x.floor, y.now = x.now, y.page = x.page, y.short = x.short,
         UNCHANGED <<createdAt, visible, clock>>, NEW q \in Row,
         x.pc = "rows", y.pc \in {"rows", "apply"}, First(x.batch, q),
         createdAt[q] <= x.now - Settle,
         y.batch = x.batch \ {q}, y.decisions = x.decisions + 1, y.newest = createdAt[q],
         Handled(q, Held(y))'
  PROVE  Sound(y)'
<1>1. /\ x.now \in Nat /\ x.floor \in Nat /\ x.decisions \in Nat /\ x.batch \in SUBSET Row
      /\ Timely(x) /\ Ordered(x)
      /\ Timely(x)' /\ Behind(x)' /\ Covered(x)'
  BY RunFields DEF Sound
<1>2. /\ Window(y) = Window(x) /\ Window(x)' = Window(x) /\ Window(y)' = Window(x)
      /\ Behind(y)' /\ \A r : Pos(y, r)' = Pos(x, r)' /\ Pos(x, r)' = Pos(x, r)
  BY <1>1 DEF Window, Pos, Behind, Rank, Before
<1>3. Seen(y) = Seen(x)  BY DEF Seen
<1>4. q \in x.batch /\ createdAt[q] # None /\ createdAt[q] \in Int
  <2>1. q \in x.batch /\ q \in Feed(x.floor)  BY <1>1 DEF First, Timely
  <2>2. createdAt[q] > x.floor /\ createdAt[q] \in Int  BY <2>1, WorldFields DEF Feed
  <2>3. QED  BY <1>1, <2>1, <2>2 DEF None
<1>5. Timely(y)'
  <2>1. y.batch \subseteq Feed(y.floor)'  BY <1>1 DEF Timely, Feed
  <2>2. QED  BY <1>1, <1>2, <1>4, <2>1 DEF Timely
<1>6. \A p \in y.batch : createdAt[q] < createdAt[p]
  <2> SUFFICES ASSUME NEW p \in y.batch PROVE createdAt[q] < createdAt[p]
    OBVIOUS
  <2>1. p \in Row /\ p # q /\ Before(q, p)  BY <1>1 DEF First
  <2>2. QED  BY <1>4, <2>1, StrictlyBefore
<1>7. Ordered(y)'
  <2>1. \A p \in y.batch : Ahead(y, p)'  BY <1>6 DEF Ahead
  <2>2. ASSUME NEW r \in Window(x), Pos(x, r) > Seen(x)
        PROVE  Ahead(y, r)' /\ \A p \in y.batch : createdAt[p] < createdAt[r]
    BY <1>1, <1>4, <2>2 DEF Ordered, Ahead
  <2>3. QED  BY <1>2, <1>3, <2>1, <2>2 DEF Ordered, Seen
<1>8. Covered(y)'
  <2> SUFFICES ASSUME NEW r \in Window(x), Kept(r) PROVE CoveredRow(y, r)'
    BY <1>2 DEF Covered
  <2>1. CASE r = q  BY <2>1 DEF CoveredRow
  <2>2. CASE r # q
    <3>1. CoveredRow(x, r)'  BY <1>1, <1>2 DEF Covered
    <3>2. Handled(r, Held(x))' => Handled(r, Held(y))'  BY DEF Handled, Held
    <3>3. QED  BY <1>2, <1>3, <2>2, <3>1, <3>2 DEF CoveredRow, Seen
  <2>3. QED  BY <2>1, <2>2
<1>9. QED  BY <1>2, <1>5, <1>7, <1>8 DEF Sound
\* A run starts.
LEMMA StartSound ==
  ASSUME TypeOK, Settled, NoRowLost, NEW x \in Busy,
         x.pc = "paging", x.now = clock, x.page = 1, x.batch = {}, x.decisions = 0, x.newest = None,
         x.floor = IF watermark = None THEN Since ELSE watermark
  PROVE  Sound(x)
<1>1. /\ clock \in Nat /\ watermark \in Int /\ clock >= 1
      /\ \A r \in Row : createdAt[r] \in Int /\ (createdAt[r] # None => createdAt[r] >= 1)
  BY WorldFields DEF TypeOK, Time
<1>2. Behind(x)
  <2>1. \A r \in Row : createdAt[r] # None /\ createdAt[r] <= x.floor => createdAt[r] <= watermark
    BY <1>1 DEF Since
  <2>2. QED  BY <2>1 DEF Behind, NoRowLost, Passed, Handled, Kept
<1>3. Timely(x)
  <2>1. \A r \in Window(x) : r \in Row /\ createdAt[r] # None /\ createdAt[r] + Settle <= clock
    <3>1. x.floor \in Nat  BY RunFields
    <3>2. QED  BY <1>1, <3>1 DEF Window, None
  <2>2. Window(x) \subseteq visible  BY <2>1 DEF Settled
  <2>3. x.floor < clock  BY <1>1 DEF Since, Settled
  <2>4. QED  BY <1>1, <2>2, <2>3 DEF Timely
<1>4. Seen(x) = 0
  <2>1. 0 * PerPage = 0  OBVIOUS
  <2>2. (IF x.pc = "paging" THEN x.page - 1 ELSE x.page) = 0  OBVIOUS
  <2>3. QED  BY <2>1, <2>2 DEF Seen
<1>5. \A r \in Window(x) : Pos(x, r) > 0
  <2>1. Window(x) \in SUBSET Row  BY DEF Window
  <2>2. \A r \in Window(x) : Pos(x, r) >= 1 /\ Pos(x, r) \in Nat
    BY <2>1, RankPositive, UpToFinite DEF Pos
  <2>3. QED  BY <2>2
<1>6. Ordered(x)  BY DEF Ordered, Ahead
<1>7. Covered(x)  BY <1>4, <1>5 DEF Covered, CoveredRow
<1>8. QED  BY <1>2, <1>3, <1>6, <1>7 DEF Sound

\* The watermark is written: nothing it passes is left out.
LEMMA AdvanceLosesNothing ==
  ASSUME TypeOK, NEW x \in Busy, Sound(x), x.pc = "advance", NEW to,
         to = nextWatermark(x.floor, x.newest, x.now), to # None
  PROVE  /\ to \in Int /\ to < clock /\ to <= clock - Settle /\ to > x.floor
         /\ \A r \in Row : createdAt[r] # None /\ createdAt[r] <= to /\ Kept(r) => Handled(r, {})
<1>1. /\ x.now \in Nat /\ x.floor \in Nat /\ x.newest \in Int /\ clock \in Nat
      /\ x.now <= clock /\ (x.newest # None => x.newest <= x.now - Settle)
      /\ Behind(x) /\ Covered(x)
  BY RunFields, WorldFields DEF Sound, Timely
<1>2. /\ to \in Int /\ to <= x.now - Settle /\ to > x.floor
      /\ x.newest # None => to <= x.newest
  BY <1>1 DEF nextWatermark
<1>3. ASSUME NEW r \in Row, createdAt[r] # None, createdAt[r] <= to, Kept(r) PROVE Handled(r, {})
  <2>1. createdAt[r] \in Int  BY WorldFields
  <2>2. CASE createdAt[r] <= x.floor  BY <1>1, <1>3, <2>2 DEF Behind
  <2>3. CASE createdAt[r] > x.floor
    <3>1. r \in Window(x)  BY <1>1, <1>2, <1>3, <2>1, <2>3 DEF Window
    <3>2. CoveredRow(x, r)  BY <1>1, <1>3, <3>1 DEF Covered
    <3>3. ~ (x.newest # None /\ createdAt[r] > x.newest)  BY <1>1, <1>2, <1>3, <2>1
    <3>4. QED  BY <3>2, <3>3 DEF CoveredRow, Held
  <2>4. QED  BY <1>1, <2>1, <2>2, <2>3
<1>4. QED  BY <1>1, <1>2, <1>3
-----------------------------------------------------------------------------
(***************************************************************************)
(* Every step.                                                             *)
(***************************************************************************)
RunStep(w) ==
  (\E dry \in BOOLEAN : runReconcile(w, dry)) \/ Work(w) \/ listSinceFails(w) \/ Crash(w)

\* The steps of a run leave the world alone, and deal with more rows or none.
LEMMA RunGrows ==
  ASSUME TypeOK, NEW w \in Run, RunStep(w)
  PROVE  Grows /\ UNCHANGED <<clock, createdAt, visible>>
<1>1. UNCHANGED <<clock, createdAt, visible>>
  BY DEF RunStep, runReconcile, Work, listSince, NextPage, Truncate, Decide, insertAdjustment,
         moveMoney, advanceReconcileState, listSinceFails, Crash, world
<1>2. adjusted \subseteq adjusted'
  BY DEF RunStep, runReconcile, Work, listSince, NextPage, Truncate, Decide, insertAdjustment,
         moveMoney, advanceReconcileState, listSinceFails, Crash
<1>3. examined \subseteq examined' /\ reported \subseteq reported'
  BY DEF RunStep, runReconcile, Work, listSince, NextPage, Truncate, Decide, insertAdjustment,
         moveMoney, advanceReconcileState, listSinceFails, Crash, history
<1>4. clock' >= clock  BY <1>1, WorldFields
<1>5. QED  BY <1>1, <1>2, <1>3, <1>4 DEF Grows

\* What a step makes of its own run x.
LEMMA DecideLive ==
  ASSUME TypeOK, Settled, NEW w \in Run, NEW x \in Busy, run[w] = x, Sound(x), Sound(x)', ~ x.dry,
         NEW q \in Row, Decide(w, q), NEW y \in Busy, run'[w] = y
  PROVE  Sound(y)'
<1> DEFINE out == decideAdjustment(q, needsLedgerLookup(q) /\ q \in ledger)
           acts == out = "adjust" /\ ~ x.dry
<1>1. y = [x EXCEPT !.pc = IF acts THEN "apply" ELSE "rows", !.row = IF acts THEN q ELSE None,
                    !.batch = x.batch \ {q}, !.decisions = x.decisions + 1, !.newest = createdAt[q]]
  BY DEF Decide, TypeOK
<1>2. /\ x.pc = "rows" /\ First(x.batch, q) /\ ~ (createdAt[q] > x.now - Settle)
      /\ examined' = examined \cup {q}
      /\ reported' = IF out = "no_ledger_row" THEN reported \cup {q} ELSE reported
      /\ UNCHANGED <<createdAt, visible, clock>>
  BY DEF Decide, Unsettled, world
<1>3. /\ y.pc = IF acts THEN "apply" ELSE "rows"
      /\ y.row = IF acts THEN q ELSE None
      /\ y.batch = x.batch \ {q} /\ y.decisions = x.decisions + 1 /\ y.newest = createdAt[q]
      /\ y.floor = x.floor /\ y.now = x.now /\ y.page = x.page /\ y.short = x.short
  <2> HIDE DEF acts
  <2>1. QED  BY <1>1 DEF Busy
<1>4. Outcome[q] = "adjust" => out = "adjust" \/ out = "no_ledger_row"
  BY DEF decideAdjustment
<1>5. Handled(q, Held(y))'
  <2> HIDE DEF out
  <2>1. CASE acts
    <3>1. q \in Held(y)  BY <1>3, <2>1 DEF Held
    <3>2. QED  BY <1>2, <3>1 DEF Handled, Held
  <2>2. CASE ~ acts
    <3>1. Outcome[q] = "adjust" => q \in reported'  BY <1>2, <1>4, <2>2
    <3>2. QED  BY <1>2, <3>1 DEF Handled
  <2>3. QED  BY <2>1, <2>2
<1>6. createdAt[q] <= x.now - Settle
  BY <1>2, WorldFields, RunFields
<1> HIDE DEF out, acts
<1>7. QED  BY <1>2, <1>3, <1>5, <1>6, DecideSound

LEMMA OwnLive ==
  ASSUME TypeOK, TypeOK', Settled, NoRowLost, NEW w \in Run, Live(w), RunStep(w),
         NEW y \in Busy, run'[w] = y, ~ y.dry
  PROVE  Sound(y)'
<1>0. Grows  BY RunGrows
<1>1. ASSUME NEW dry \in BOOLEAN, runReconcile(w, dry) PROVE Sound(y)'
  <2>1. y = [pc |-> "paging", dry |-> dry, now |-> clock,
             floor |-> IF watermark = None THEN Since ELSE watermark,
             page |-> 1, batch |-> {}, short |-> FALSE,
             decisions |-> 0, newest |-> None, applied |-> 0, row |-> None]
    BY <1>1 DEF runReconcile, TypeOK
  <2>2. Sound(y)  BY <2>1, StartSound
  <2>3. QED  BY <1>0, <2>2, GrowsSound
<1>2. CASE Work(w)
  <2>1. run[w].pc # "idle"
    BY <1>2 DEF Work, listSince, NextPage, Truncate, Decide, insertAdjustment, moveMoney,
                advanceReconcileState
  <2>2. PICK x \in Busy : x = run[w]  BY <2>1 DEF TypeOK, Idle
  <2>3. run' # [run EXCEPT ![w] = Idle]
    <3>1. Idle \notin Busy  BY DEF Idle, Busy
    <3>2. QED  BY <3>1 DEF TypeOK
  <2>4. ASSUME Sound(x), Sound(x)', ~ x.dry PROVE Sound(y)'
    <3>1. CASE listSince(w)
      <4>1. y = [x EXCEPT !.pc = "rows",
                   !.batch = {r \in Page(x.floor, x.page) : Outcome[r] # "malformed"},
                   !.short = Cardinality(Page(x.floor, x.page)) < PerPage]
        BY <2>2, <3>1 DEF listSince, TypeOK
      <4>2. /\ x.pc = "paging" /\ y.pc = "rows" /\ y.page = x.page /\ Continues(x, y)
            /\ y.batch = {r \in Page(x.floor, x.page) : Outcome[r] # "malformed"}
        BY <2>2, <3>1, <4>1 DEF listSince, Busy, Continues
      <4>3. y.short = (Cardinality(Page(x.floor, x.page)) < PerPage)
        BY <4>1 DEF Busy
      <4>4. Sound(y)  BY <2>4, <4>2, <4>3, ListSound
      <4>5. QED  BY <1>0, <4>4, GrowsSound
    <3>2. CASE NextPage(w)
      <4>1. y = [x EXCEPT !.pc = IF x.short THEN "advance" ELSE "paging",
                          !.page = IF x.short THEN x.page ELSE x.page + 1]
        BY <2>2, <3>2 DEF NextPage, TypeOK
      <4>2. /\ x.pc = "rows" /\ x.batch = {} /\ y.batch = {} /\ Continues(x, y)
            /\ y.pc = (IF x.short THEN "advance" ELSE "paging")
            /\ y.page = (IF x.short THEN x.page ELSE x.page + 1)
        BY <2>2, <3>2, <4>1 DEF NextPage, Busy, Continues
      <4>3. Sound(y)  BY <2>4, <4>2, PageSound
      <4>4. QED  BY <1>0, <4>3, GrowsSound
    <3>3. ASSUME NEW q \in Row, Truncate(w, q) PROVE Sound(y)'
      <4>1. y = [x EXCEPT !.pc = "advance"]  BY <2>2, <3>3 DEF Truncate, TypeOK
      <4>2. /\ x.pc = "rows" /\ y.pc = "advance" /\ y.batch = x.batch /\ y.page = x.page
            /\ Continues(x, y)
        BY <2>2, <3>3, <4>1 DEF Truncate, Busy, Continues
      <4>3. First(x.batch, q) /\ (createdAt[q] > x.now - Settle \/ x.decisions >= MaxRows)
        BY <2>2, <3>3 DEF Truncate, Unsettled, Capped
      <4>4. Sound(y)  BY <2>4, <4>2, <4>3, TruncateSound
      <4>5. QED  BY <1>0, <4>4, GrowsSound
    <3>4. ASSUME NEW q \in Row, Decide(w, q) PROVE Sound(y)'
      BY <2>2, <2>4, <3>4, DecideLive
    <3>5. CASE insertAdjustment(w)
      <4>1. /\ x.pc = "apply" /\ x.row \in adjusted'
            /\ \/ y = [x EXCEPT !.pc = "rows", !.row = None]
               \/ y = [x EXCEPT !.pc = "move"]
        BY <2>2, <3>5 DEF insertAdjustment, TypeOK
      <4>2. /\ y.pc \in {"rows", "move"} /\ y.batch = x.batch /\ y.page = x.page /\ y.short = x.short
            /\ Continues(x, y)
        BY <4>1 DEF Busy, Continues
      <4>3. QED  BY <2>4, <4>1, <4>2, ApplySound
    <3>6. CASE moveMoney(w)
      <4>1. y = [x EXCEPT !.pc = "rows", !.row = None, !.applied = x.applied + 1]
        BY <2>2, <3>6 DEF moveMoney, TypeOK
      <4>2. /\ x.pc = "move" /\ y.pc = "rows" /\ y.batch = x.batch /\ y.page = x.page
            /\ y.short = x.short /\ Continues(x, y)
        BY <2>2, <3>6, <4>1 DEF moveMoney, Busy, Continues
      <4>3. QED  BY <2>4, <4>2, ApplySound
    <3>7. ~ advanceReconcileState(w)  BY <2>3 DEF advanceReconcileState
    <3>8. QED  BY <1>2, <3>1, <3>2, <3>3, <3>4, <3>5, <3>6, <3>7 DEF Work
  <2>5. y.dry = x.dry
    <3>1. ~ advanceReconcileState(w)  BY <2>3 DEF advanceReconcileState
    <3>2. CASE listSince(w)  BY <2>2, <3>2 DEF listSince, TypeOK, Busy
    <3>3. CASE NextPage(w)  BY <2>2, <3>3 DEF NextPage, TypeOK, Busy
    <3>4. ASSUME NEW q \in Row, Truncate(w, q) PROVE y.dry = x.dry  BY <2>2, <3>4 DEF Truncate, TypeOK, Busy
    <3>5. ASSUME NEW q \in Row, Decide(w, q) PROVE y.dry = x.dry  BY <2>2, <3>5 DEF Decide, TypeOK, Busy
    <3>6. CASE insertAdjustment(w)
      <4>1. y = [x EXCEPT !.pc = "rows", !.row = None] \/ y = [x EXCEPT !.pc = "move"]
        BY <2>2, <3>6 DEF insertAdjustment, TypeOK
      <4>2. QED  BY <4>1 DEF Busy
    <3>7. CASE moveMoney(w)  BY <2>2, <3>7 DEF moveMoney, TypeOK, Busy
    <3>8. QED  BY <1>2, <3>1, <3>2, <3>3, <3>4, <3>5, <3>6, <3>7 DEF Work
  <2>6. ~ x.dry  BY <2>5
  <2>7. Sound(x)  BY <2>2, <2>6 DEF Live
  <2>8. Sound(x)'  BY <1>0, <2>7, GrowsSound
  <2>9. QED  BY <2>4, <2>6, <2>7, <2>8
<1>3. ~ listSinceFails(w) /\ ~ Crash(w)
  <2>1. Idle \notin Busy  BY DEF Idle, Busy
  <2>2. QED  BY <2>1 DEF TypeOK, listSinceFails, Crash
<1>4. QED  BY <1>1, <1>2, <1>3 DEF RunStep
LEMMA GrowsLive ==
  ASSUME TypeOK, TypeOK', Grows, NEW w \in Run, Live(w), run'[w] = run[w]
  PROVE  Live(w)'
BY GrowsSound DEF Live

\* A row behind the watermark stays dealt with.
LEMMA StaysHandled ==
  ASSUME TypeOK, TypeOK', Settled, NoRowLost, Grows, watermark' = watermark
  PROVE  NoRowLost'
<1>1. clock \in Nat /\ clock' \in Nat /\ watermark \in Int  BY DEF TypeOK, Time, None
<1>2. \A r \in Row : createdAt'[r] \in Int /\ createdAt[r] \in Int  BY DEF TypeOK, Time, None
<1>3. \A r \in Row : createdAt'[r] <= watermark => createdAt'[r] = createdAt[r]
  BY <1>1, <1>2 DEF Grows, Settled
<1>4. QED  BY <1>3 DEF Grows, NoRowLost, Passed

LEMMA RunWatched ==
  ASSUME TypeOK, TypeOK', Settled, NoRowLost, \A v \in Run : Live(v), NEW w \in Run, RunStep(w)
  PROVE  Settled' /\ NoRowLost' /\ \A v \in Run : Live(v)'
<1>1. Grows /\ UNCHANGED <<clock, createdAt, visible>>  BY RunGrows
<1>2. \A v \in Run : Live(v)'
  <2>1. \A v \in Run \ {w} : run'[v] = run[v]  BY RunFrame DEF RunStep
  <2>2. \A v \in Run \ {w} : Live(v)'  BY <1>1, <2>1, GrowsLive
  <2>3. Live(w)'  BY OwnLive DEF Live
  <2>4. QED  BY <2>2, <2>3
<1>3. CASE watermark' = watermark
  BY <1>1, <1>2, <1>3, StaysHandled DEF Settled
<1>4. CASE watermark' # watermark
  <2>1. advanceReconcileState(w)
    BY <1>4 DEF RunStep, runReconcile, Work, listSince, NextPage, Truncate, Decide, insertAdjustment,
                moveMoney, listSinceFails, Crash, state
  <2>2. PICK x \in Busy : x = run[w]  BY <2>1 DEF advanceReconcileState, TypeOK, Idle
  <2>3. /\ x.pc = "advance" /\ ~ x.dry /\ watermark' # None
        /\ watermark' = nextWatermark(x.floor, x.newest, x.now)
    BY <1>4, <2>1, <2>2 DEF advanceReconcileState, state
  <2>4. Sound(x)  BY <2>2, <2>3 DEF Live
  <2>5. /\ watermark' < clock
        /\ \A r \in Row : createdAt[r] # None /\ createdAt[r] <= watermark' /\ Kept(r) => Handled(r, {})
    BY <2>3, <2>4, AdvanceLosesNothing
  <2>6. NoRowLost'
    BY <1>1, <2>5 DEF NoRowLost, Passed, Kept, Handled, Grows
  <2>7. QED  BY <1>1, <1>2, <2>5, <2>6 DEF Settled
<1>5. QED  BY <1>3, <1>4

LEMMA WorldWatched ==
  ASSUME TypeOK, TypeOK', Settled, NoRowLost, \A v \in Run : Live(v), ~ Ties,
         Tick \/ \E r \in Row : Request(r) \/ Appear(r) \/ Record(r)
  PROVE  Settled' /\ NoRowLost' /\ \A v \in Run : Live(v)'
<1>1. UNCHANGED <<run, watermark, examined, adjusted, reported>>
  BY DEF Tick, Request, Appear, Record, state, history
<1>2. /\ clock \in Nat /\ watermark \in Int
      /\ \A r \in Row : createdAt[r] \in Int
  BY WorldFields
<1>3. Grows /\ Settled'
  <2>1. CASE Tick
    <3>1. /\ clock' = clock + 1 /\ UNCHANGED <<createdAt, visible>>
          /\ \A r \in Row : createdAt[r] # None /\ createdAt[r] + Settle <= clock + 1 => r \in visible
      BY <2>1 DEF Tick
    <3>2. Grows  BY <1>1, <1>2, <3>1 DEF Grows
    <3>3. QED  BY <1>1, <1>2, <3>1, <3>2 DEF Settled
  <2>2. ASSUME NEW r \in Row, Request(r) PROVE Grows /\ Settled'
    <3>1. /\ UNCHANGED <<clock, visible>> /\ createdAt[r] = None /\ createdAt'[r] = clock
          /\ \A q \in Row : createdAt[q] # clock
          /\ \A q \in Row \ {r} : createdAt'[q] = createdAt[q]
      BY <2>2 DEF Request, TypeOK
    <3>2. Grows  BY <1>1, <1>2, <3>1 DEF Grows
    <3>3. \A p, q \in Row : p # q /\ createdAt'[p] # None => createdAt'[p] # createdAt'[q]
      BY <3>1 DEF Settled
    <3>4. \A q \in Row : createdAt'[q] # None => createdAt'[q] <= clock
      BY <1>2, <3>1 DEF Settled
    <3>5. \A q \in Row : createdAt'[q] # None /\ createdAt'[q] + Settle <= clock => q \in visible
      BY <1>2, <3>1 DEF Settled
    <3>6. QED  BY <1>1, <3>1, <3>2, <3>3, <3>4, <3>5 DEF Settled
  <2>3. ASSUME NEW r \in Row, Appear(r) \/ Record(r) PROVE Grows /\ Settled'
    BY <1>1, <1>2, <2>3 DEF Appear, Record, Grows, Settled
  <2>4. QED  BY <2>1, <2>2, <2>3
<1>4. NoRowLost'  BY <1>1, <1>3, StaysHandled
<1>5. \A v \in Run : Live(v)'  BY <1>1, <1>3, GrowsLive
<1>6. QED  BY <1>3, <1>4, <1>5

LEMMA NextWatched ==
  ASSUME TypeOK, TypeOK', Watched, [Next]_vars
  PROVE  Watched'
<1> SUFFICES ASSUME ~ Ties PROVE Settled' /\ NoRowLost' /\ \A v \in Run : Live(v)'
  BY DEF Watched
<1>1. Settled /\ NoRowLost /\ \A v \in Run : Live(v)  BY DEF Watched
<1>2. CASE UNCHANGED vars
  <2>1. UNCHANGED <<clock, createdAt, visible, watermark, examined, adjusted, reported, run>>
    BY <1>2 DEF vars, world, state, history
  <2>2. Grows  BY <2>1, WorldFields DEF Grows
  <2>3. Settled'  BY <1>1, <2>1 DEF Settled
  <2>4. QED  BY <1>1, <2>1, <2>2, <2>3, StaysHandled, GrowsLive
<1>3. QED  BY <1>1, <1>2, RunWatched, WorldWatched DEF Next, RunStep

LEMMA InitWatched == Init => Watched
<1> SUFFICES ASSUME Init PROVE Settled /\ NoRowLost /\ \A w \in Run : Live(w)
  BY DEF Watched
<1>1. Idle \notin Busy  BY DEF Idle, Busy
<1>2. \A w \in Run : Live(w)  BY <1>1 DEF Init, Live
<1>3. Settled /\ NoRowLost  BY DEF Init, Settled, NoRowLost, Passed, None
<1>4. QED  BY <1>2, <1>3

\* No row slips behind the watermark, for any number of rows and of overlapping runs,
\* any page size, cap and settling time, as long as no two rows share an instant (with
\* ties the cap can cut between them, which the run over ties shows).
THEOREM NoRowIsLost == Spec => [](~ Ties => NoRowLost)
<1>1. Watched => (~ Ties => NoRowLost)  BY DEF Watched
<1>2. IInv /\ Watched /\ [Next]_vars => Watched'  BY NextIInv, NextWatched DEF IInv
<1>3. QED  BY <1>1, <1>2, InitIInv, InitWatched, NextIInv, PTL DEF Spec
-----------------------------------------------------------------------------
(***************************************************************************)
(* Audit rows and their money.                                             *)
(***************************************************************************)

\* Only inserting an audit row, moving its money and dying bear on AuditedIsMoved.
LEMMA RunAudited ==
  ASSUME IInv, AuditedIsMoved, NEW w \in Run, RunStep(w)
  PROVE  AuditedIsMoved'
<1> SUFFICES ASSUME failures' = 0, NEW r \in adjusted'
             PROVE  moved'[r] = 1 \/ \E v \in Run : run'[v].pc = "move" /\ run'[v].row = r
  BY DEF AuditedIsMoved
<1> USE DEF world, state, history
<1>0. TypeOK /\ \A v \in Run \ {w} : run'[v] = run[v]
  BY RunFrame DEF IInv, RunStep
<1>1. ~ listSinceFails(w) /\ ~ Crash(w)
  BY <1>0 DEF listSinceFails, Crash, TypeOK
<1>2. failures = 0
  BY <1>0, <1>1 DEF RunStep, runReconcile, Work, listSince, NextPage, Truncate, Decide, insertAdjustment,
         moveMoney, advanceReconcileState
<1>3. CASE insertAdjustment(w)
  <2>1. run[w] \in Busy /\ run[w].pc = "apply" /\ moved' = moved
    BY <1>0, <1>3 DEF insertAdjustment, TypeOK, Idle
  <2>2. CASE r \in adjusted
    <3>1. moved[r] = 1 \/ \E v \in Run \ {w} : run[v].pc = "move" /\ run[v].row = r
      BY <1>2, <2>1, <2>2 DEF AuditedIsMoved
    <3>2. QED  BY <1>0, <2>1, <3>1
  <2>3. CASE r \notin adjusted
    <3>1. r = run[w].row /\ run' = [run EXCEPT ![w] = [run[w] EXCEPT !.pc = "move"]]
      BY <1>3, <2>3 DEF insertAdjustment
    <3>2. run'[w].pc = "move" /\ run'[w].row = r
      BY <1>0, <2>1, <3>1 DEF TypeOK, Busy
    <3>3. QED  BY <3>2
  <2>4. QED  BY <2>2, <2>3
<1>4. CASE moveMoney(w)
  <2>1. /\ run[w].pc = "move" /\ run[w].row \in Row /\ moved[run[w].row] = 0 /\ adjusted' = adjusted
        /\ r \in Row
    BY <1>0, <1>4 DEF moveMoney, IInv, OneMover, TypeOK
  <2>2. moved' = [moved EXCEPT ![run[w].row] = 1]
    BY <1>0, <1>4, <2>1 DEF moveMoney, TypeOK
  <2>3. CASE r = run[w].row  BY <1>0, <2>1, <2>2, <2>3 DEF TypeOK
  <2>4. CASE r # run[w].row
    <3>1. moved'[r] = moved[r]  BY <1>0, <2>1, <2>2, <2>4 DEF TypeOK
    <3>2. moved[r] = 1 \/ \E v \in Run \ {w} : run[v].pc = "move" /\ run[v].row = r
      BY <1>2, <2>1, <2>4 DEF AuditedIsMoved
    <3>3. QED  BY <1>0, <3>1, <3>2
  <2>5. QED  BY <2>3, <2>4
<1>5. CASE ~ insertAdjustment(w) /\ ~ moveMoney(w)
  <2>1. run[w].pc # "move" /\ UNCHANGED <<adjusted, moved>>
    BY <1>0, <1>1, <1>5 DEF RunStep, runReconcile, Work, listSince, NextPage, Truncate, Decide,
                       advanceReconcileState
  <2>2. moved[r] = 1 \/ \E v \in Run \ {w} : run[v].pc = "move" /\ run[v].row = r
    BY <1>2, <2>1 DEF AuditedIsMoved
  <2>3. QED  BY <1>0, <2>1, <2>2
<1>6. QED  BY <1>3, <1>4, <1>5

LEMMA NextAudited == IInv /\ AuditedIsMoved /\ [Next]_vars => AuditedIsMoved'
<1> SUFFICES ASSUME IInv, AuditedIsMoved, [Next]_vars PROVE AuditedIsMoved'
  OBVIOUS
<1>1. ASSUME UNCHANGED <<failures, adjusted, moved, run>> PROVE AuditedIsMoved'
  BY <1>1 DEF AuditedIsMoved
<1>2. CASE UNCHANGED vars  BY <1>1, <1>2 DEF vars, history
<1>3. CASE Tick \/ \E r \in Row : Request(r) \/ Appear(r) \/ Record(r)
  BY <1>1, <1>3 DEF Tick, Request, Appear, Record, history
<1>4. QED  BY <1>2, <1>3, RunAudited DEF Next, RunStep

\* Unless a run died or the feed failed it, an audit row's money has moved or its run
\* is moving it, whatever runs overlap (store-d1.ts applyUsageAdjustment).
THEOREM MoneyFollowsAudit == Spec => []AuditedIsMoved
<1>1. Init => AuditedIsMoved  BY DEF Init, AuditedIsMoved
<1>2. QED  BY <1>1, InitIInv, NextIInv, NextAudited, PTL DEF Spec
-----------------------------------------------------------------------------
(***************************************************************************)
(* The watermark of one run at a time.                                     *)
(***************************************************************************)
OneRun == \A v, w \in Run : v = w

\* The floor a run compares with is still the watermark when it writes; it read the
\* clock when it started.
Guarded ==
  \A w \in Run : \A x \in Busy : run[w] = x =>
    /\ x.floor = IF watermark = None THEN Since ELSE watermark
    /\ x.now <= clock

\* A step of a run leaves its floor and its clock reading alone, until it ends.
LEMMA FloorStays ==
  ASSUME TypeOK, NEW w \in Run, Work(w), NEW x \in Busy, run[w] = x, NEW y \in Busy, run'[w] = y
  PROVE  y.floor = x.floor /\ y.now = x.now /\ watermark' = watermark
<1> USE DEF state
<1>1. CASE listSince(w)  BY <1>1 DEF listSince, TypeOK, Busy
<1>2. CASE NextPage(w)  BY <1>2 DEF NextPage, TypeOK, Busy
<1>3. ASSUME NEW q \in Row, Truncate(w, q) PROVE y.floor = x.floor /\ y.now = x.now /\ watermark' = watermark
  BY <1>3 DEF Truncate, TypeOK, Busy
<1>4. ASSUME NEW q \in Row, Decide(w, q) PROVE y.floor = x.floor /\ y.now = x.now /\ watermark' = watermark
  BY <1>4 DEF Decide, TypeOK, Busy
<1>5. CASE insertAdjustment(w)
  <2>1. y = [x EXCEPT !.pc = "rows", !.row = None] \/ y = [x EXCEPT !.pc = "move"]
    BY <1>5 DEF insertAdjustment, TypeOK
  <2>2. QED  BY <1>5, <2>1 DEF insertAdjustment, Busy
<1>6. CASE moveMoney(w)  BY <1>6 DEF moveMoney, TypeOK, Busy
<1>7. ~ advanceReconcileState(w)  BY DEF advanceReconcileState, TypeOK, Idle, Busy
<1>8. QED  BY <1>1, <1>2, <1>3, <1>4, <1>5, <1>6, <1>7 DEF Work

LEMMA RunGuarded ==
  ASSUME OneRun, TypeOK, TypeOK', Guarded, NEW w \in Run, RunStep(w)
  PROVE  Guarded'
<1> SUFFICES ASSUME NEW y \in Busy, run'[w] = y
             PROVE  /\ y.floor = IF watermark' = None THEN Since ELSE watermark'
                    /\ y.now <= clock'
  BY DEF Guarded, OneRun
<1>1. clock' = clock /\ clock \in Nat  BY RunGrows, WorldFields
<1>2. ASSUME NEW dry \in BOOLEAN, runReconcile(w, dry)
      PROVE  /\ y.floor = IF watermark' = None THEN Since ELSE watermark'
             /\ y.now <= clock'
  BY <1>1, <1>2 DEF runReconcile, TypeOK, state
<1>3. CASE Work(w)
  <2>1. run[w].pc # "idle"
    BY <1>3 DEF Work, listSince, NextPage, Truncate, Decide, insertAdjustment, moveMoney,
                advanceReconcileState
  <2>2. PICK x \in Busy : run[w] = x  BY <2>1 DEF TypeOK, Idle
  <2>3. y.floor = x.floor /\ y.now = x.now /\ watermark' = watermark  BY <1>3, <2>2, FloorStays
  <2>4. QED  BY <1>1, <2>2, <2>3 DEF Guarded
<1>4. ~ listSinceFails(w) /\ ~ Crash(w)
  <2>1. Idle \notin Busy  BY DEF Idle, Busy
  <2>2. QED  BY <2>1 DEF TypeOK, listSinceFails, Crash
<1>5. QED  BY <1>2, <1>3, <1>4 DEF RunStep

LEMMA NextGuarded ==
  ASSUME OneRun, TypeOK, TypeOK', Guarded, [Next]_vars
  PROVE  Guarded'
<1>1. ASSUME UNCHANGED <<watermark, run>>, clock' >= clock PROVE Guarded'
  <2>1. clock \in Nat /\ clock' \in Nat /\ \A x \in Busy : x.now \in Nat
    BY RunFields DEF TypeOK, Time
  <2>2. QED  BY <1>1, <2>1 DEF Guarded
<1>2. CASE UNCHANGED vars
  BY <1>1, <1>2, WorldFields DEF vars, world, state
<1>3. CASE Tick \/ \E r \in Row : Request(r) \/ Appear(r) \/ Record(r)
  BY <1>1, <1>3, WorldFields DEF Tick, Request, Appear, Record, state
<1>4. QED  BY <1>2, <1>3, RunGuarded DEF Next, RunStep

\* One write of a run that is alone.
LEMMA ForwardStep ==
  ASSUME TypeOK, Guarded, [Next]_vars, watermark' # watermark
  PROVE  watermark' > watermark /\ watermark' <= clock - Settle
<1>1. PICK w \in Run : advanceReconcileState(w)
  BY DEF Next, vars, Tick, Request, Appear, Record, runReconcile, Work, listSince, NextPage, Truncate,
         Decide, insertAdjustment, moveMoney, listSinceFails, Crash, state
<1>2. PICK x \in Busy : x = run[w]  BY <1>1 DEF advanceReconcileState, TypeOK, Idle
<1>3. watermark' # None /\ watermark' = nextWatermark(x.floor, x.newest, x.now)
  BY <1>1, <1>2 DEF advanceReconcileState, state
<1>4. /\ x.floor \in Nat /\ x.now \in Nat /\ x.newest \in Int /\ x.now <= clock
      /\ clock \in Nat /\ watermark \in Int
      /\ x.floor = IF watermark = None THEN Since ELSE watermark
  BY <1>2, RunFields, WorldFields DEF Guarded
<1>5. QED  BY <1>3, <1>4 DEF nextWatermark, None, Since

\* While runs do not overlap, the watermark never moves backwards and never past the
\* settling time, whatever crashes (reconcile.ts nextWatermark).  The run that is
\* alone is the constant's choice; nothing in the code forbids two.
THEOREM WatermarkOnlyGrows ==
  ASSUME OneRun
  PROVE  Spec => WatermarkForward
<1>1. Init => Guarded
  <2>1. Idle \notin Busy  BY DEF Idle, Busy
  <2>2. QED  BY <2>1 DEF Init, Guarded
<1>2. IInv /\ Guarded /\ [Next]_vars => Guarded'  BY NextIInv, NextGuarded DEF IInv
<1>3. IInv /\ Guarded /\ [Next]_vars =>
        [watermark' # watermark => watermark' > watermark /\ watermark' <= clock - Settle]_watermark
  BY ForwardStep DEF IInv
<1>4. QED  BY <1>1, <1>2, <1>3, InitIInv, NextIInv, PTL DEF Spec, WatermarkForward
=============================================================================
