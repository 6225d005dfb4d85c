----------------------------- MODULE BudgetProofs -----------------------------
(***************************************************************************)
(* For any number of admissions, operations and scopes: no scope exceeds   *)
(* its limit, spending moves only with its reservation, at once, and some  *)
(* open transaction never waits.                                           *)
(*                                                                         *)
(* The argument: a scope that an admission has charged is locked by it     *)
(* alone, so what it wrote is still what the row holds plus its charge     *)
(* when it commits; by then it has locked all it wanted, because every     *)
(* scope it wanted has a row.  A transaction that waits is behind the one  *)
(* it waits for in a strict order, and one of them is farthest.            *)
(*                                                                         *)
(* The second half is about AuxiliaryJobs, work a run leaves behind: no two *)
(* workers are ever on one job, for any number of jobs, workers and        *)
(* attempts, whenever a claim lasts longer than a handler.  The argument:  *)
(* a worker's claim has exactly the time left that the worker has not      *)
(* spent, and a worker never spends all of it; so the job of a live worker *)
(* is running under a live claim, and a sweep does not reopen it.          *)
(***************************************************************************)
EXTENDS Budget, AuxiliaryJobs, FiniteSetTheorems, TLAPS

\* A scope is locked by one reserving transaction, or by preflights only.
LocksExclude ==
    \A t, u \in Txns : t # u /\ Reserves(t) => locked[t] \cap locked[u] = {}

\* An operation is being reserved by one transaction, and is not reserved yet.
ReservingExcludes ==
    \A t \in Txns : reserving[t] =>
        /\ Reserves(t) /\ reserved[Op[t]] = NoReservation
        /\ \A u \in Txns : reserving[u] /\ Op[u] = Op[t] => u = t

\* What a reserving transaction has made and locked at each point.
ProgressOf(t) ==
    /\ pc[t] = "charge" => reserving[t]
    /\ pc[t] = "ensure" => done[t] \subseteq rows \cup made[t] /\ locked[t] = {}
    /\ pc[t] \in {"reserve", "charge", "commit"} => Wanted[t] \subseteq rows \cup made[t]
    /\ pc[t] \in {"idle", "reserve"} => locked[t] = {} /\ done[t] = {}
    /\ pc[t] = "charge" => locked[t] = done[t]
    /\ pc[t] = "commit" /\ reserving[t] => locked[t] = Wanted[t]
    /\ pc[t] = "commit" /\ ~reserving[t] => locked[t] = {}

\* How far a reserving transaction has come; a preflight only has the second loop.
Progress ==
    \A t \in Txns :
        /\ pc[t] \in {"ensure", "reserve"} => Reserves(t)
        /\ pc[t] \in {"idle", "ensure", "reserve"} => ~reserving[t]
        /\ Reserves(t) => ProgressOf(t)

\* What a reserving transaction has written is the row's value plus its charge.
WrittenUnderLock ==
    \A t \in Txns : Reserves(t) =>
        \A s \in locked[t] : next[t][s] = used[s] + Charge[t] /\ (s \in Exempt \/ next[t][s] <= Limit[s])

Inv == TypeOK /\ WithinLimit /\ LocksExclude /\ ReservingExcludes /\ Progress /\ WrittenUnderLock

-----------------------------------------------------------------------------
(* The initial state, and what a transaction's end does *)

LEMMA InitInv == Init => Inv
BY BudgetAssumption
DEF Init, Inv, TypeOK, WithinLimit, LocksExclude, ReservingExcludes, Progress, ProgressOf, WrittenUnderLock,
    Nothing, NoReservation, Reserves

\* A transaction that ends without writing disturbs nothing (refusal, conflict,
\* error, crash).
LEMMA EndInv ==
    ASSUME Inv, NEW t \in Txns, End(t), UNCHANGED <<rows, used, reserved>>
    PROVE  Inv'
<1>1. TypeOK'
  BY DEF Inv, TypeOK, End, Nothing
<1>2. WithinLimit'
  BY DEF Inv, WithinLimit
<1>3. LocksExclude'
  BY DEF Inv, TypeOK, LocksExclude, End, Reserves
<1>4. ReservingExcludes'
  BY DEF Inv, TypeOK, ReservingExcludes, End, Reserves
<1>5. Progress'
  BY DEF Inv, TypeOK, Progress, ProgressOf, End, Reserves
<1>6. WrittenUnderLock'
  BY DEF Inv, TypeOK, WrittenUnderLock, End, Reserves
<1> QED BY <1>1, <1>2, <1>3, <1>4, <1>5, <1>6 DEF Inv

-----------------------------------------------------------------------------
(* One lemma per step of a transaction *)

LEMMA BeginInv ==
    ASSUME Inv, NEW t \in Txns, Begin(t)
    PROVE  Inv'
<1>1. TypeOK'
  BY DEF Inv, TypeOK, Begin
<1>2. Progress'
  BY DEF Inv, TypeOK, Progress, ProgressOf, Begin, Reserves
<1>3. WithinLimit' /\ LocksExclude' /\ ReservingExcludes' /\ WrittenUnderLock'
  BY DEF Inv, Begin, WithinLimit, LocksExclude, ReservingExcludes, WrittenUnderLock, Reserves
<1> QED BY <1>1, <1>2, <1>3 DEF Inv

LEMMA EnsureInv ==
    ASSUME Inv, NEW t \in Txns, NEW s \in Scopes, EnsureTx(t, s)
    PROVE  Inv'
<1>1. TypeOK'
  BY DEF Inv, TypeOK, EnsureTx
<1>2. Progress'
  BY DEF Inv, TypeOK, Progress, ProgressOf, EnsureTx, Reserves
<1>3. WithinLimit' /\ LocksExclude' /\ ReservingExcludes' /\ WrittenUnderLock'
  BY DEF Inv, EnsureTx, WithinLimit, LocksExclude, ReservingExcludes, WrittenUnderLock, Reserves
<1> QED BY <1>1, <1>2, <1>3 DEF Inv

LEMMA EnsuredInv ==
    ASSUME Inv, NEW t \in Txns, Ensured(t)
    PROVE  Inv'
<1>1. TypeOK'
  BY DEF Inv, TypeOK, Ensured
<1>2. Progress'
  BY DEF Inv, TypeOK, Progress, ProgressOf, Ensured, Reserves
<1>3. WithinLimit' /\ LocksExclude' /\ ReservingExcludes' /\ WrittenUnderLock'
  BY DEF Inv, Ensured, WithinLimit, LocksExclude, ReservingExcludes, WrittenUnderLock, Reserves
<1> QED BY <1>1, <1>2, <1>3 DEF Inv

\* A fresh reservation is nobody else's: whoever holds the operation would have made
\* this one wait.
LEMMA ReserveInv ==
    ASSUME Inv, NEW t \in Txns, Reserve(t)
    PROVE  Inv'
<1>1. CASE /\ ~Repeated(t) /\ reserving' = [reserving EXCEPT ![t] = TRUE]
           /\ pc' = [pc EXCEPT ![t] = "charge"]
           /\ UNCHANGED <<rows, used, reserved, made, done, locked, next>>
  <2>1. TypeOK'
    BY <1>1 DEF Inv, TypeOK
  <2>2. \A u \in Txns \ {t} : Op[u] = Op[t] => ~reserving[u]
    BY DEF Reserve, Blocked, Waits, HoldsReservation
  <2>3. ReservingExcludes'
    BY <1>1, <2>2 DEF Inv, TypeOK, ReservingExcludes, Progress, Reserve, Repeated, Reserves
  <2>4. Progress'
    BY <1>1 DEF Inv, TypeOK, Progress, ProgressOf, Reserve, Reserves
  <2>5. WithinLimit' /\ LocksExclude' /\ WrittenUnderLock'
    BY <1>1 DEF Inv, WithinLimit, LocksExclude, WrittenUnderLock, Reserves
  <2> QED BY <2>1, <2>3, <2>4, <2>5 DEF Inv
<1>2. CASE /\ pc' = [pc EXCEPT ![t] = "commit"]
           /\ UNCHANGED <<rows, used, reserved, made, done, reserving, locked, next>>
  <2>1. TypeOK'
    BY <1>2 DEF Inv, TypeOK
  <2>2. Progress'
    BY <1>2 DEF Inv, TypeOK, Progress, ProgressOf, Reserve, Reserves
  <2>3. WithinLimit' /\ LocksExclude' /\ ReservingExcludes' /\ WrittenUnderLock'
    BY <1>2 DEF Inv, WithinLimit, LocksExclude, ReservingExcludes, WrittenUnderLock, Reserves
  <2> QED BY <2>1, <2>2, <2>3 DEF Inv
<1>3. CASE End(t) /\ UNCHANGED <<rows, used, reserved>>
  BY <1>3, EndInv
<1> QED BY <1>1, <1>2, <1>3 DEF Reserve

\* The lock that is taken excludes the others, and what is written under it fits.
LEMMA ChargeScopeInv ==
    ASSUME Inv, NEW t \in Txns, NEW s \in Scopes, ChargeScope(t, s)
    PROVE  Inv'
<1>1. CASE /\ Fits(t, s)
           /\ done' = [done EXCEPT ![t] = @ \cup {s}]
           /\ locked' = [locked EXCEPT ![t] = IF s \in rows \cup made[t] THEN @ \cup {s} ELSE @]
           /\ next' = [next EXCEPT ![t][s] = used[s] + Charge[t]]
           /\ UNCHANGED <<rows, used, reserved, pc, made, reserving>>
  <2>1. TypeOK'
    <3>1. used[s] + Charge[t] \in Nat
      BY BudgetAssumption DEF Inv, TypeOK
    <3>2. next' \in [Txns -> [Scopes -> Nat]]
      BY <1>1, <3>1 DEF Inv, TypeOK
    <3> QED BY <1>1, <3>2 DEF Inv, TypeOK
  <2>2. \A u \in Txns \ {t} : Reserves(t) \/ Reserves(u) => s \notin locked[u]
    BY DEF ChargeScope, Blocked, Waits
  <2>3. LocksExclude'
    BY <1>1, <2>2 DEF Inv, TypeOK, LocksExclude, Reserves
  <2>4. s \in Wanted[t]
    BY BudgetAssumption DEF ChargeScope, IsNext, Todo
  <2>5. Progress'
    BY <1>1, <2>4 DEF Inv, TypeOK, Progress, ProgressOf, ChargeScope, Reserves
  <2>6. WrittenUnderLock'
    BY <1>1, BudgetAssumption DEF Inv, TypeOK, WrittenUnderLock, Fits, Reserves
  <2>7. WithinLimit' /\ ReservingExcludes'
    BY <1>1 DEF Inv, WithinLimit, ReservingExcludes, Reserves
  <2> QED BY <2>1, <2>3, <2>5, <2>6, <2>7 DEF Inv
<1>2. CASE End(t) /\ UNCHANGED <<rows, used, reserved>>
  BY <1>2, EndInv
<1> QED BY <1>1, <1>2 DEF ChargeScope

LEMMA ChargedInv ==
    ASSUME Inv, NEW t \in Txns, Charged(t)
    PROVE  Inv'
<1>1. TypeOK'
  BY DEF Inv, TypeOK, Charged
<1>2. Progress'
  BY DEF Inv, TypeOK, Progress, ProgressOf, Charged, Reserves
<1>3. WithinLimit' /\ LocksExclude' /\ ReservingExcludes' /\ WrittenUnderLock'
  BY DEF Inv, Charged, WithinLimit, LocksExclude, ReservingExcludes, WrittenUnderLock, Reserves
<1> QED BY <1>1, <1>2, <1>3 DEF Inv

\* What a commit makes of the rows: the charge, added to every wanted scope.
LEMMA CommitWrites ==
    ASSUME Inv, NEW t \in Txns, Commit(t)
    PROVE  IF reserving[t]
             THEN /\ reserved[Op[t]] = NoReservation
                  /\ reserved' = [reserved EXCEPT ![Op[t]] = Reservation(t)]
                  /\ used' = [s \in Scopes |-> IF s \in Wanted[t] THEN used[s] + Charge[t] ELSE used[s]]
             ELSE UNCHANGED <<used, reserved>>
<1>1. CASE reserving[t]
  <2>1. Reserves(t) /\ reserved[Op[t]] = NoReservation
    BY <1>1 DEF Inv, ReservingExcludes
  <2>2. locked[t] = Wanted[t]
    BY <1>1, <2>1 DEF Inv, Progress, ProgressOf, Commit
  <2>3. \A s \in Wanted[t] : next[t][s] = used[s] + Charge[t]
    BY <2>1, <2>2 DEF Inv, WrittenUnderLock
  <2> QED BY <1>1, <2>1, <2>2, <2>3 DEF Commit, Written
<1>2. CASE ~reserving[t]
  BY <1>2 DEF Inv, TypeOK, Commit, Written
<1> QED BY <1>1, <1>2

\* A commit leaves the rows others have locked as they were.
LEMMA CommitInv ==
    ASSUME Inv, NEW t \in Txns, Commit(t)
    PROVE  Inv'
<1>1. TypeOK'
  <2>1. Reservation(t) \in [scopes : SUBSET Scopes, charge : Nat]
    BY BudgetAssumption DEF Reservation
  <2>2. used' \in [Scopes -> Nat] /\ reserved' \in [Ops -> [scopes : SUBSET Scopes, charge : Nat]]
    <3>1. \A s \in Scopes : used[s] + Charge[t] \in Nat
      BY BudgetAssumption DEF Inv, TypeOK
    <3>2. CASE reserving[t]
      <4>1. used' \in [Scopes -> Nat]
        BY <3>1, <3>2, CommitWrites DEF Inv, TypeOK
      <4>2. reserved' \in [Ops -> [scopes : SUBSET Scopes, charge : Nat]]
        <5> DEFINE R == [scopes : SUBSET Scopes, charge : Nat]
        <5>1. reserved \in [Ops -> R] /\ Reservation(t) \in R
          BY <2>1 DEF Inv, TypeOK
        <5>2. reserved' = [reserved EXCEPT ![Op[t]] = Reservation(t)]
          BY <3>2, CommitWrites
        <5> HIDE DEF R
        <5>3. reserved' \in [Ops -> R]
          BY <5>1, <5>2
        <5> QED BY <5>3 DEF R
      <4> QED BY <4>1, <4>2
    <3>3. CASE ~reserving[t]
      BY <3>3, CommitWrites DEF Inv, TypeOK
    <3> QED BY <3>2, <3>3
  <2> QED BY <2>2 DEF Inv, TypeOK, Commit, End, Nothing
<1>2. WithinLimit'
  <2>1. CASE reserving[t]
    <3>1. Reserves(t) /\ \A s \in locked[t] : s \in Exempt \/ next[t][s] <= Limit[s]
      BY <2>1 DEF Inv, ReservingExcludes, WrittenUnderLock
    <3> QED BY <3>1 DEF Inv, WithinLimit, Commit, Written
  <2>2. CASE ~reserving[t]
    BY <2>2, CommitWrites DEF Inv, WithinLimit
  <2> QED BY <2>1, <2>2
<1>3. LocksExclude'
  BY DEF Inv, TypeOK, LocksExclude, Commit, End, Reserves
<1>4. ReservingExcludes'
  BY CommitWrites, BudgetAssumption DEF Inv, TypeOK, ReservingExcludes, Commit, End, Reserves
<1>5. Progress'
  BY DEF Inv, TypeOK, Progress, ProgressOf, Commit, End, Reserves
<1>6. WrittenUnderLock'
  <2> SUFFICES ASSUME NEW u \in Txns, Reserves(u), NEW s \in locked'[u]
               PROVE  next'[u][s] = used'[s] + Charge[u] /\ (s \in Exempt \/ next'[u][s] <= Limit[s])
    BY DEF WrittenUnderLock, Reserves
  <2>1. u # t /\ s \in locked[u] /\ next'[u] = next[u]
    BY DEF Inv, TypeOK, Commit, End
  <2>2. s \in Scopes /\ s \notin locked[t]
    BY <2>1 DEF Inv, TypeOK, LocksExclude
  <2>3. used'[s] = used[s]
    BY <2>2 DEF Commit, Written
  <2> QED BY <2>1, <2>3 DEF Inv, WrittenUnderLock
<1> QED BY <1>1, <1>2, <1>3, <1>4, <1>5, <1>6 DEF Inv

-----------------------------------------------------------------------------
(* The theorems *)

LEMMA NextInv == Inv /\ [Next]_vars => Inv'
<1> SUFFICES ASSUME Inv, [Next]_vars PROVE Inv'
  OBVIOUS
<1>1. CASE Next
  <2> PICK t \in Txns : Begin(t) \/ Step(t) \/ Rollback(t)
    BY <1>1 DEF Next
  <2>1. CASE Rollback(t)
    BY <2>1, EndInv DEF Rollback
  <2> QED BY <2>1, BeginInv, EnsureInv, ChargeScopeInv, EnsuredInv, ReserveInv, ChargedInv, CommitInv DEF Step
<1>2. CASE UNCHANGED vars
  BY <1>2
  DEF vars, private, Inv, TypeOK, WithinLimit, LocksExclude, ReservingExcludes, Progress, ProgressOf,
      WrittenUnderLock, Reserves
<1> QED BY <1>1, <1>2

\* The invariant holds in every reachable state, whatever the admissions and scopes.
THEOREM Invariance == Spec => []Inv
BY InitInv, NextInv, PTL DEF Spec

\* No scope is ever charged over its limit (addWithinPolicy under the row lock of
\* reserve), for any number of overlapping admissions.
THEOREM LimitsHold == Spec => []WithinLimit
<1>1. Inv => WithinLimit
  BY DEF Inv
<1> QED BY <1>1, Invariance, PTL

\* What a reserve charges is charged to all of its scopes and with its reservation,
\* exactly once: no step of any transaction loses, splits or repeats a charge.
THEOREM ChargesAreAtomic == Spec => ChargedAtOnce
<1>1. Inv /\ [Next]_vars => [ChargeStep]_vars
  <2> SUFFICES ASSUME Inv, Next PROVE ChargeStep
    OBVIOUS
  <2> PICK t \in Txns : Begin(t) \/ Step(t) \/ Rollback(t)
    BY DEF Next
  <2>1. CASE Commit(t) /\ reserving[t]
    <3>1. reserved'[Op[t]] = Reservation(t)
      BY <2>1, CommitWrites, BudgetAssumption DEF Inv, TypeOK
    <3> QED BY <2>1, <3>1, CommitWrites, BudgetAssumption DEF Reservation, ChargeStep
  <2>2. CASE Commit(t) /\ ~reserving[t]
    BY <2>2, CommitWrites DEF ChargeStep
  <2>3. CASE ~Commit(t)
    BY <2>3 DEF ChargeStep, Begin, Step, Rollback, EnsureTx, ChargeScope, Ensured, Reserve, Charged
  <2> QED BY <2>1, <2>2, <2>3
<1> QED BY <1>1, Invariance, PTL DEF Spec, ChargedAtOnce

-----------------------------------------------------------------------------
(* Waiting goes one way.  Transactions are ordered by how far they have     *)
(* come, and one only ever waits for another that has come farther; an      *)
(* order has no circle, however many transactions there are.                *)

Stage(t) ==
    CASE pc[t] = "idle" -> 0 [] pc[t] = "ensure" -> 1 [] pc[t] = "reserve" -> 2
      [] pc[t] = "charge" -> 3 [] pc[t] = "commit" -> 4

\* The order of each loop: EnsureTx takes the live scopes last, reserve sorts all.
Before(stage, s, r) ==
    IF stage = 1 THEN \/ s \notin Live /\ r \in Live
                      \/ (s \in Live <=> r \in Live) /\ s < r
                 ELSE s < r

\* t has not come as far as u.
Behind(t, u) ==
    \/ Stage(t) < Stage(u)
    \/ /\ Stage(t) = Stage(u)
       /\ \E s \in Scopes : IsNext(t, s) /\ \A r \in Scopes : IsNext(u, r) => Before(Stage(t), s, r)

\* Whoever waits waits for one that has come farther.
WaitsForFarther == \A t, u \in Txns : t # u /\ Waits(t, u) => Behind(t, u)

\* A loop has done the scopes before those it has yet to do, and holds only those.
InOrder ==
    \A t \in Txns :
        /\ pc[t] \in {"ensure", "charge"} =>
              \A s \in done[t], r \in Wanted[t] \ done[t] : Before(Stage(t), s, r)
        /\ pc[t] = "idle" => made[t] = {} /\ done[t] = {}
        /\ pc[t] = "ensure" => made[t] \subseteq done[t]
        /\ pc[t] \in {"idle", "ensure", "reserve"} => locked[t] = {}
        /\ pc[t] = "reserve" => done[t] = {}
        /\ pc[t] = "charge" => locked[t] \subseteq done[t]

WaitInv == Inv /\ InOrder

\* Nobody is behind itself, and who is behind one that is behind a third is too.
BehindIsAnOrder ==
    /\ \A t \in Txns : ~Behind(t, t)
    /\ \A t, u, v \in Txns : Behind(t, u) /\ Behind(u, v) => Behind(t, v)

LEMMA BehindOrders == TypeOK => BehindIsAnOrder
<1> SUFFICES ASSUME TypeOK PROVE BehindIsAnOrder
  OBVIOUS
<1>1. \A t \in Txns : Stage(t) \in 0 .. 4
  BY DEF TypeOK, Stage
<1>2. \A k \in 0 .. 4 : \A a, b, c \in Scopes :
          /\ ~Before(k, a, a)
          /\ Before(k, a, b) /\ Before(k, b, c) => Before(k, a, c)
  BY BudgetAssumption DEF Before
<1>3. \A t \in Txns : ~Behind(t, t)
  BY <1>1, <1>2 DEF Behind
<1>4. ASSUME NEW t \in Txns, NEW u \in Txns, NEW v \in Txns, Behind(t, u), Behind(u, v)
      PROVE  Behind(t, v)
  <2>1. CASE Stage(t) < Stage(u) \/ Stage(u) < Stage(v)
    BY <1>1, <1>4, <2>1 DEF Behind
  <2>2. CASE Stage(t) = Stage(u) /\ Stage(u) = Stage(v)
    <3>1. PICK a \in Scopes : IsNext(t, a) /\ \A r \in Scopes : IsNext(u, r) => Before(Stage(t), a, r)
      BY <1>1, <1>4, <2>2 DEF Behind
    <3>2. PICK b \in Scopes : IsNext(u, b) /\ \A r \in Scopes : IsNext(v, r) => Before(Stage(u), b, r)
      BY <1>1, <1>4, <2>2 DEF Behind
    <3>3. \A r \in Scopes : IsNext(v, r) => Before(Stage(t), a, r)
      BY <1>1, <1>2, <2>2, <3>1, <3>2
    <3> QED BY <2>2, <3>1, <3>3 DEF Behind
  <2> QED BY <1>1, <1>4, <2>1, <2>2 DEF Behind
<1> QED BY <1>3, <1>4 DEF BehindIsAnOrder

\* The loops keep to their order.
LEMMA EndInOrder ==
    ASSUME TypeOK, InOrder, NEW t \in Txns, End(t)
    PROVE  InOrder'
<1>1. \A u \in Txns \ {t} : Stage(u)' = Stage(u)
  BY DEF TypeOK, End, Stage
<1> QED BY <1>1 DEF TypeOK, InOrder, End, Before

LEMMA NextInOrder == WaitInv /\ [Next]_vars => InOrder'
<1> SUFFICES ASSUME Inv, InOrder, [Next]_vars PROVE InOrder'
  BY DEF WaitInv
<1> USE DEF Inv
<1>1. CASE UNCHANGED vars
  BY <1>1 DEF vars, private, InOrder, Stage, Before
<1>2. CASE Next
  <2>1. PICK t \in Txns : Begin(t) \/ Step(t) \/ Rollback(t)
    BY <1>2 DEF Next
  <2>2. CASE End(t)
    BY <2>2, EndInOrder
  <2>3. CASE Begin(t)
    BY <2>3 DEF TypeOK, InOrder, Begin, Stage, Before, Reserves
  <2>4. CASE Ensured(t) \/ Charged(t)
    BY <2>4 DEF TypeOK, InOrder, Ensured, Charged, Stage, Before
  <2>5. CASE Reserve(t) /\ ~End(t)
    BY <2>5 DEF TypeOK, InOrder, Reserve, Stage, Before
  <2>6. ASSUME NEW s \in Scopes, EnsureTx(t, s)
        PROVE  InOrder'
    <3>1. \A r \in Wanted[t] \ (done[t] \cup {s}) : Before(1, s, r)
      BY <2>6, BudgetAssumption DEF EnsureTx, IsNext, Todo, Before
    <3> QED BY <2>6, <3>1 DEF TypeOK, InOrder, EnsureTx, Stage, Before
  <2>7. ASSUME NEW s \in Scopes, ChargeScope(t, s), ~End(t)
        PROVE  InOrder'
    <3>1. \A r \in Wanted[t] \ (done[t] \cup {s}) : Before(3, s, r)
      BY <2>7, BudgetAssumption DEF ChargeScope, IsNext, Todo, Before
    <3>2. pc[t] = "charge" /\ Stage(t) = 3
      BY <2>7 DEF ChargeScope, Stage
    <3>3. /\ done'[t] = done[t] \cup {s} /\ locked'[t] \subseteq locked[t] \cup {s}
          /\ \A u \in Txns \ {t} : done'[u] = done[u] /\ locked'[u] = locked[u]
          /\ UNCHANGED <<pc, made>>
      BY <2>7 DEF TypeOK, ChargeScope
    <3>4. \A u \in Txns : Stage(u)' = Stage(u)
      BY <3>3 DEF Stage
    <3>5. \A u \in Txns : pc[u] \in {"ensure", "charge"} =>
              \A a \in done'[u], r \in Wanted[u] \ done'[u] : Before(Stage(u), a, r)
      BY <3>1, <3>2, <3>3 DEF InOrder
    <3> QED BY <3>2, <3>3, <3>4, <3>5 DEF InOrder, Before
  <2> QED BY <2>1, <2>2, <2>3, <2>4, <2>5, <2>6, <2>7 DEF Step, Commit, Rollback
<1> QED BY <1>1, <1>2

LEMMA WaitersAreBehind == WaitInv => WaitsForFarther
<1> SUFFICES ASSUME Inv, InOrder, NEW t \in Txns, NEW u \in Txns, t # u, Waits(t, u) PROVE Behind(t, u)
  BY DEF WaitInv, WaitsForFarther
<1>1. ASSUME pc[t] = "ensure", NEW s \in made[u], IsNext(t, s)
      PROVE  Behind(t, u)
  <2>1. CASE pc[u] = "ensure"
    <3>1. \A r \in Scopes : IsNext(u, r) => Before(1, s, r)
      BY <1>1, <2>1 DEF InOrder, IsNext, Todo, Stage
    <3> QED BY <1>1, <2>1, <3>1 DEF Inv, TypeOK, Behind, Stage
  <2>2. CASE pc[u] \in {"reserve", "charge", "commit"}
    BY <1>1, <2>2 DEF Behind, Stage
  <2> QED BY <1>1, <2>1, <2>2 DEF Inv, TypeOK, InOrder
<1>2. ASSUME pc[t] = "reserve", HoldsReservation(u)
      PROVE  Behind(t, u)
  BY <1>2 DEF Inv, TypeOK, Progress, Behind, Stage, HoldsReservation
<1>3. ASSUME pc[t] = "charge", NEW s \in locked[u], IsNext(t, s)
      PROVE  Behind(t, u)
  <2>1. CASE pc[u] = "charge"
    <3>1. \A r \in Scopes : IsNext(u, r) => Before(3, s, r)
      BY <1>3, <2>1 DEF InOrder, IsNext, Todo, Stage
    <3> QED BY <1>3, <2>1, <3>1 DEF Inv, TypeOK, Behind, Stage
  <2>2. CASE pc[u] = "commit"
    BY <1>3, <2>2 DEF Behind, Stage
  <2> QED BY <1>3, <2>1, <2>2 DEF Inv, TypeOK, InOrder
<1>4. ASSUME pc[t] = "ensure", NEW s \in locked[u]
      PROVE  Behind(t, u)
  <2>1. pc[u] \in {"charge", "commit"}
    BY <1>4 DEF Inv, TypeOK, InOrder
  <2> QED BY <1>4, <2>1 DEF Behind, Stage
<1> QED BY <1>1, <1>2, <1>3, <1>4 DEF Waits, Dirty

\* "All callers lock in the same sorted order": in every reachable state a waiting
\* transaction is strictly behind the one it waits for, so there is no deadlock among
\* any number of admissions and preflights.
THEOREM NoDeadlock == Spec => [](WaitsForFarther /\ BehindIsAnOrder)
<1>1. Init => WaitInv
  BY InitInv DEF WaitInv, Init, InOrder
<1>2. WaitInv /\ [Next]_vars => WaitInv'
  BY NextInOrder, NextInv DEF WaitInv
<1>3. WaitInv => WaitsForFarther /\ BehindIsAnOrder
  BY WaitersAreBehind, BehindOrders DEF WaitInv, Inv
<1> QED BY <1>1, <1>2, <1>3, PTL DEF Spec

\* Among any open transactions one has come farthest: stages are few, and of those in
\* one stage the one with the fewest scopes still ahead of its next.
Ahead(t) == {r \in Scopes : \E n \in Scopes : IsNext(t, n) /\ Before(Stage(t), n, r)}

LEMMA Farthest ==
    ASSUME TypeOK, NEW T, T \subseteq Txns, T # {}
    PROVE  \E t \in T : \A u \in T : ~Behind(t, u)
<1>1. \A t \in T : Stage(t) \in 0 .. 4
  BY DEF TypeOK, Stage
<1>2. PICK k \in 0 .. 4 : (\E t \in T : Stage(t) = k) /\ \A u \in T : Stage(u) <= k
  BY <1>1
<1> DEFINE Level == {t \in T : Stage(t) = k}
<1>3. CASE \E t \in Level : \A s \in Scopes : ~IsNext(t, s)
  BY <1>1, <1>2, <1>3 DEF Behind
<1>4. CASE \A t \in Level : \E s \in Scopes : IsNext(t, s)
  <2> DEFINE Fronts == {Ahead(t) : t \in Level}
  <2>1. Fronts # {} /\ Fronts \subseteq SUBSET Scopes
    BY <1>2 DEF Ahead
  <2>2. IsWellFoundedOn(StrictSubsetOrdering(Scopes), SUBSET Scopes)
    BY FS_StrictSubsetOrderingWellFounded, FS_FiniteSubsetsOfFinite, BudgetAssumption
  <2> HIDE DEF Fronts
  <2>3. PICK X \in Fronts : \A Y \in Fronts : <<Y, X>> \notin StrictSubsetOrdering(Scopes)
    BY <2>1, <2>2, WFMin
  <2>4. PICK t \in Level : X = Ahead(t)
    BY DEF Fronts
  <2>5. ASSUME NEW u \in T, Behind(t, u)
        PROVE  FALSE
    <3>1. Stage(u) = k
      BY <1>1, <1>2, <2>5 DEF Behind
    <3>2. PICK s \in Scopes : IsNext(t, s) /\ \A r \in Scopes : IsNext(u, r) => Before(k, s, r)
      BY <1>1, <2>5, <3>1 DEF Behind
    <3>3. PICK n \in Scopes : IsNext(u, n)
      BY <1>4, <3>1
    <3>4. \A m \in Scopes : IsNext(u, m) => m = n
      BY <3>3, BudgetAssumption DEF IsNext
    <3>5. \A a, b, c \in Scopes : ~Before(k, a, a) /\ (Before(k, a, b) /\ Before(k, b, c) => Before(k, a, c))
      BY BudgetAssumption DEF Before
    <3>6. n \in Ahead(t) /\ n \notin Ahead(u) /\ Ahead(u) \subseteq Ahead(t)
      BY <3>1, <3>2, <3>3, <3>4, <3>5 DEF Ahead
    <3>7. Ahead(u) \in Fronts
      BY <3>1 DEF Fronts
    <3>8. <<Ahead(u), X>> \in StrictSubsetOrdering(Scopes)
      BY <2>1, <2>4, <3>6, <3>7 DEF StrictSubsetOrdering
    <3> QED BY <2>3, <3>7, <3>8
  <2> QED BY <2>4, <2>5
<1> QED BY <1>3, <1>4

\* Among the open admissions and preflights one is never blocked, however many they are
\* and whatever scopes they share: no set of transactions waits in a circle.
THEOREM SomeoneProceeds == Spec => []NoCircularWait
<1>1. Init => WaitInv
  BY InitInv DEF WaitInv, Init, InOrder
<1>2. WaitInv /\ [Next]_vars => WaitInv'
  BY NextInOrder, NextInv DEF WaitInv
<1>3. WaitInv => NoCircularWait
  <2> SUFFICES ASSUME WaitInv, \E t \in Txns : pc[t] # "idle"
               PROVE  \E t \in Txns : pc[t] # "idle" /\ ~Blocked(t)
    BY DEF NoCircularWait
  <2> DEFINE Open == {t \in Txns : pc[t] # "idle"}
  <2>1. TypeOK /\ WaitsForFarther
    BY WaitersAreBehind DEF WaitInv, Inv
  <2>2. PICK t \in Open : \A u \in Open : ~Behind(t, u)
    BY <2>1, Farthest
  <2>3. \A v \in Txns : Stage(v) \in 0 .. 4 /\ (Stage(v) = 0 <=> pc[v] = "idle")
    BY <2>1 DEF TypeOK, Stage
  <2>4. ASSUME NEW u \in Txns \ {t}, Waits(t, u)
        PROVE  FALSE
    <3>1. Behind(t, u)
      BY <2>1, <2>4 DEF WaitsForFarther
    <3>2. u \in Open
      BY <2>3, <3>1 DEF Behind
    <3> QED BY <2>2, <3>1, <3>2
  <2> QED BY <2>4 DEF Blocked
<1> QED BY <1>1, <1>2, <1>3, PTL DEF Spec

-----------------------------------------------------------------------------
(* AuxiliaryJobs *)

\* A worker at work holds the job under a claim that outlasts its handler.
ClaimOutlastsWork ==
    \A w \in Workers : worker[w].at # "idle" =>
        /\ worker[w].job \in Jobs
        /\ status[worker[w].job] = "running"
        /\ claim_left[worker[w].job] + worker[w].spent = ClaimTicks

JobsInv == NoOverlap /\ ClaimOutlastsWork

LEMMA JobsInitInv == JobsInit => JobsInv
BY AuxAssumption DEF JobsInit, JobsInv, NoOverlap, JobsTypeOK, ClaimOutlastsWork, Idle, NoClaim

\* The sweeps at the head of ClaimAuxiliary leave the job of a worker alone.
LEMMA JobsSweepSparesHeld ==
    ASSUME JobsInv, NEW w \in Workers, worker[w].at # "idle"
    PROVE  Swept(worker[w].job) = "running" /\ ~Claimable(worker[w].job)
<1>1. claim_left[worker[w].job] > 0
  BY AuxAssumption DEF JobsInv, NoOverlap, JobsTypeOK, ClaimOutlastsWork
<1> QED
  BY <1>1 DEF JobsInv, ClaimOutlastsWork, Swept, Reopened, Expired, Claimable

\* What a job becomes in a sweep is a status.
LEMMA JobsSweptIsStatus ==
    ASSUME JobsTypeOK, NEW j \in Jobs
    PROVE  Swept(j) \in {"pending", "running", "done", "failed"}
BY DEF JobsTypeOK, Swept, Reopened, Expired

LEMMA JobsTickInv ==
    ASSUME JobsInv, Tick
    PROVE  JobsInv'
<1>1. \A w \in Workers : worker'[w].job = worker[w].job /\ worker'[w].at = worker[w].at
  BY DEF JobsInv, NoOverlap, JobsTypeOK, Tick
<1>2. JobsTypeOK'
  BY AuxAssumption DEF JobsInv, NoOverlap, JobsTypeOK, Tick
<1>3. NoOverlap'
  BY <1>1, <1>2 DEF JobsInv, NoOverlap
<1>4. ASSUME NEW w \in Workers, worker'[w].at # "idle"
      PROVE  /\ worker'[w].job \in Jobs /\ status'[worker'[w].job] = "running"
             /\ claim_left'[worker'[w].job] + worker'[w].spent = ClaimTicks
  <2> DEFINE j == worker[w].job
  <2>1. worker[w].at = "working" /\ worker[w].spent < WorkTicks
    BY <1>1, <1>4 DEF Tick, JobsInv, NoOverlap, JobsTypeOK
  <2>2. worker'[w].spent = worker[w].spent + 1
    BY <2>1 DEF Tick, JobsInv, NoOverlap, JobsTypeOK
  <2>3. j \in Jobs /\ status[j] = "running" /\ claim_left[j] + worker[w].spent = ClaimTicks
    BY <2>1 DEF JobsInv, ClaimOutlastsWork
  <2>4. claim_left'[j] = claim_left[j] - 1
    BY <2>1, <2>3, AuxAssumption DEF Tick, JobsInv, NoOverlap, JobsTypeOK
  <2>5. status'[j] = "running"
    BY <2>3 DEF Tick
  <2> QED BY <1>1, <2>2, <2>3, <2>4, <2>5 DEF JobsInv, NoOverlap, JobsTypeOK
<1> QED BY <1>3, <1>4 DEF JobsInv, ClaimOutlastsWork

LEMMA JobsClaimInv ==
    ASSUME JobsInv, NEW w \in Workers, ClaimAuxiliary(w)
    PROVE  JobsInv'
<1>1. PICK j \in Jobs :
        /\ Claimable(j)
        /\ status' = [k \in Jobs |-> IF k = j THEN "running" ELSE Swept(k)]
        /\ attempt_count' = [attempt_count EXCEPT ![j] = @ + 1]
        /\ claim_id' = [k \in Jobs |-> IF k = j THEN attempt_count[j] + 1
                                       ELSE IF Expired(k) THEN NoClaim ELSE claim_id[k]]
        /\ claim_left' = [claim_left EXCEPT ![j] = ClaimTicks]
        /\ worker' = [worker EXCEPT ![w] = [at |-> "working", job |-> j, claim |-> attempt_count[j] + 1,
                                            spent |-> 0, failed |-> FALSE]]
  BY DEF ClaimAuxiliary
<1>2. attempt_count[j] + 1 \in 1..MaxAttempts
  BY <1>1, AuxAssumption DEF JobsInv, NoOverlap, JobsTypeOK, Claimable
<1>3. JobsTypeOK'
  <2>1. status' \in [Jobs -> {"pending", "running", "done", "failed"}]
    BY <1>1, JobsSweptIsStatus DEF JobsInv, NoOverlap
  <2>2. attempt_count' \in [Jobs -> 0..MaxAttempts] /\ claim_id' \in [Jobs -> 0..MaxAttempts]
    BY <1>1, <1>2, AuxAssumption DEF JobsInv, NoOverlap, JobsTypeOK, NoClaim
  <2>3. claim_left' \in [Jobs -> 0..ClaimTicks]
    BY <1>1, AuxAssumption DEF JobsInv, NoOverlap, JobsTypeOK
  <2>4. worker' \in [Workers -> [at : {"idle", "working", "finishing"}, job : Jobs \cup {"none"},
                                 claim : 0..MaxAttempts, spent : 0..WorkTicks, failed : BOOLEAN]]
    BY <1>1, <1>2, AuxAssumption DEF JobsInv, NoOverlap, JobsTypeOK
  <2> QED BY <2>1, <2>2, <2>3, <2>4 DEF JobsInv, NoOverlap, JobsTypeOK, ClaimAuxiliary
<1>4. \A v \in Workers \ {w} : worker[v].at # "idle" => worker[v].job # j
  BY <1>1, JobsSweepSparesHeld
<1>5. worker'[w].job = j /\ worker'[w].spent = 0 /\ \A v \in Workers \ {w} : worker'[v] = worker[v]
  BY <1>1 DEF JobsInv, NoOverlap, JobsTypeOK
<1>6. NoOverlap'
  BY <1>3, <1>4, <1>5 DEF JobsInv, NoOverlap
<1>7. ASSUME NEW v \in Workers, worker'[v].at # "idle"
      PROVE  /\ worker'[v].job \in Jobs /\ status'[worker'[v].job] = "running"
             /\ claim_left'[worker'[v].job] + worker'[v].spent = ClaimTicks
  <2>1. CASE v = w
    BY <2>1, <1>1, <1>5, AuxAssumption DEF JobsInv, NoOverlap, JobsTypeOK
  <2>2. CASE v # w
    <3>1. worker'[v] = worker[v] /\ worker[v].job # j /\ worker[v].job \in Jobs
      BY <2>2, <1>4, <1>5, <1>7 DEF JobsInv, ClaimOutlastsWork
    <3>2. status'[worker[v].job] = "running"
      BY <3>1, <1>1, <1>7, JobsSweepSparesHeld
    <3>3. claim_left'[worker[v].job] = claim_left[worker[v].job]
      BY <3>1, <1>1 DEF JobsInv, NoOverlap, JobsTypeOK
    <3> QED BY <3>1, <3>2, <3>3, <1>7 DEF JobsInv, ClaimOutlastsWork
  <2> QED BY <2>1, <2>2
<1> QED BY <1>6, <1>7 DEF JobsInv, ClaimOutlastsWork

LEMMA JobsSweepInv ==
    ASSUME JobsInv, NEW w \in Workers, Sweep(w)
    PROVE  JobsInv'
<1>1. JobsTypeOK'
  <2>1. status' \in [Jobs -> {"pending", "running", "done", "failed"}]
    BY JobsSweptIsStatus DEF Sweep, JobsInv, NoOverlap
  <2>2. claim_id' \in [Jobs -> 0..MaxAttempts]
    BY AuxAssumption DEF Sweep, JobsInv, NoOverlap, JobsTypeOK, NoClaim
  <2> QED BY <2>1, <2>2 DEF Sweep, JobsInv, NoOverlap, JobsTypeOK
<1>2. NoOverlap'
  BY <1>1 DEF Sweep, JobsInv, NoOverlap
<1>3. ClaimOutlastsWork'
  BY JobsSweepSparesHeld DEF Sweep, JobsInv, ClaimOutlastsWork
<1> QED BY <1>2, <1>3 DEF JobsInv

LEMMA JobsReturnInv ==
    ASSUME JobsInv, NEW w \in Workers, HandlerReturns(w)
    PROVE  JobsInv'
<1>1. \A v \in Workers : /\ worker'[v].job = worker[v].job /\ worker'[v].spent = worker[v].spent
                         /\ worker'[v].at # "idle" => worker[v].at # "idle"
  BY DEF HandlerReturns, JobsInv, NoOverlap, JobsTypeOK
<1>2. JobsTypeOK'
  <2>1. PICK failed \in BOOLEAN : worker' = [worker EXCEPT ![w].at = "finishing", ![w].failed = failed]
    BY DEF HandlerReturns
  <2>2. worker[w] \in [at : {"idle", "working", "finishing"}, job : Jobs \cup {"none"},
                       claim : 0..MaxAttempts, spent : 0..WorkTicks, failed : BOOLEAN]
    BY DEF JobsInv, NoOverlap, JobsTypeOK
  <2>3. worker' = [worker EXCEPT ![w] = [worker[w] EXCEPT !.at = "finishing", !.failed = failed]]
    BY <2>1, <2>2 DEF JobsInv, NoOverlap, JobsTypeOK
  <2> QED BY <2>2, <2>3 DEF HandlerReturns, JobsInv, NoOverlap, JobsTypeOK
<1>3. NoOverlap'
  BY <1>1, <1>2 DEF JobsInv, NoOverlap
<1>4. ClaimOutlastsWork'
  BY <1>1 DEF HandlerReturns, JobsInv, ClaimOutlastsWork
<1> QED BY <1>3, <1>4 DEF JobsInv

\* A worker that becomes idle, whether or not it wrote its job's row.
LEMMA JobsLeaveInv ==
    ASSUME JobsInv, NEW w \in Workers, FinishAuxiliary(w) \/ Crash(w)
    PROVE  JobsInv'
<1> DEFINE j == worker[w].job
<1>1. worker[w].at # "idle" /\ j \in Jobs
  BY DEF FinishAuxiliary, Crash, JobsInv, ClaimOutlastsWork
<1>2. worker'[w].at = "idle" /\ \A v \in Workers \ {w} : worker'[v] = worker[v]
  BY DEF FinishAuxiliary, Crash, JobsInv, NoOverlap, JobsTypeOK, Idle
<1>3. JobsTypeOK'
  <2>1. worker' \in [Workers -> [at : {"idle", "working", "finishing"}, job : Jobs \cup {"none"},
                                 claim : 0..MaxAttempts, spent : 0..WorkTicks, failed : BOOLEAN]]
    <3>1. Idle \in [at : {"idle", "working", "finishing"}, job : Jobs \cup {"none"},
                    claim : 0..MaxAttempts, spent : 0..WorkTicks, failed : BOOLEAN]
      BY AuxAssumption DEF Idle, NoClaim
    <3>2. worker' = [worker EXCEPT ![w] = Idle]
      BY DEF FinishAuxiliary, Crash
    <3> QED BY <3>1, <3>2 DEF JobsInv, NoOverlap, JobsTypeOK
  <2>2. CASE FinishAuxiliary(w)
    BY <2>1, <2>2, <1>1, AuxAssumption DEF FinishAuxiliary, JobsInv, NoOverlap, JobsTypeOK, NoClaim
  <2>3. CASE Crash(w)
    BY <2>1, <2>3, AuxAssumption DEF Crash, JobsInv, NoOverlap, JobsTypeOK
  <2> QED BY <2>2, <2>3
<1>4. NoOverlap'
  BY <1>2, <1>3 DEF JobsInv, NoOverlap
<1>5. \A v \in Workers \ {w} : worker[v].at # "idle" => worker[v].job # j
  BY <1>1 DEF JobsInv, NoOverlap
<1>6. \A k \in Jobs \ {j} : status'[k] = status[k] /\ claim_left'[k] = claim_left[k]
  BY DEF FinishAuxiliary, Crash, JobsInv, NoOverlap, JobsTypeOK
<1>7. ClaimOutlastsWork'
  BY <1>2, <1>5, <1>6 DEF JobsInv, ClaimOutlastsWork
<1> QED BY <1>4, <1>7 DEF JobsInv

LEMMA JobsNextInv == JobsInv /\ [JobsNext]_jobsVars => JobsInv'
<1> SUFFICES ASSUME JobsInv, [JobsNext]_jobsVars PROVE JobsInv'
  OBVIOUS
<1>1. CASE UNCHANGED jobsVars
  BY <1>1 DEF jobsVars, JobsInv, NoOverlap, JobsTypeOK, ClaimOutlastsWork
<1>2. CASE JobsNext
  BY <1>2, JobsTickInv, JobsClaimInv, JobsSweepInv, JobsReturnInv, JobsLeaveInv DEF JobsNext, WorkerStep
<1> QED BY <1>1, <1>2

\* A job is never with two live workers: the claim of ClaimAuxiliary outlasts the
\* handler's deadline (auxiliary.go:58, 103), whatever the two durations are.
THEOREM HandedToOne == JobsSpec => []NoOverlap
<1>1. JobsInit => JobsInv
  BY JobsInitInv
<1>2. JobsInv /\ [JobsNext]_jobsVars => JobsInv'
  BY JobsNextInv
<1>3. JobsInv => NoOverlap
  BY DEF JobsInv
<1> QED BY <1>1, <1>2, <1>3, PTL DEF JobsSpec
=============================================================================
