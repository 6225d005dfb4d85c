-------------------------------- MODULE Budget --------------------------------
(***************************************************************************)
(* The budget ledger: transactions that charge one operation to all of its *)
(* scopes (task, mandate, owner day, conversation, delegation, auxiliary), *)
(* and preflights that only look.  A transaction makes the missing scope   *)
(* rows, inserts its reservation, locks and charges the scopes in sorted   *)
(* order, and commits or rolls back, at any point.  PostgreSQL's row locks *)
(* and uncommitted inserts make the others wait until it ends.             *)
(*                                                                         *)
(* Of the eight dimensions of Units one is modelled.  A deadline that has  *)
(* passed, a revoked authority and a lost connection are rollbacks.        *)
(***************************************************************************)
EXTENDS Naturals, FiniteSets

CONSTANTS
    Txns,           \* admissions; one runs again and again, as retries do
    Ops,            \* operation_id
    Scopes,         \* scope_id, ordered as the digests are
    Op,             \* Op[t]: what t asks to reserve
    Wanted,         \* Wanted[t]: req.ScopeIDs
    Charge,         \* Charge[t]: req.Charge
    Preflights,     \* the transactions that are preflights
    Limit,          \* Limit[s]: limits_json
    Exempt,         \* conversations whose model turns the operator does not limit
    Live            \* the scopes of live runs, which AdmitLocalModel ensures last

ASSUME BudgetAssumption ==
    /\ Scopes \subseteq Nat /\ IsFiniteSet(Scopes)
    /\ Preflights \subseteq Txns /\ Exempt \subseteq Scopes /\ Live \subseteq Scopes
    /\ Op \in [Txns -> Ops] /\ Wanted \in [Txns -> SUBSET Scopes]
    /\ Charge \in [Txns -> Nat] /\ Limit \in [Scopes -> Nat]

VARIABLES
    rows,           \* committed scope rows
    used,           \* used[s]: used_json, 0 until there is a row
    reserved,       \* reserved[o]: the committed reservation, or NoReservation
    pc,             \* pc[t]: where the transaction is
    made,           \* made[t]: scope rows it has inserted
    done,           \* done[t]: scopes its present loop is done with
    reserving,      \* reserving[t]: it has inserted the reservation
    locked,         \* locked[t]: scope rows it has read FOR UPDATE or FOR SHARE
    next            \* next[t][s]: the used_json it has written

private == <<pc, made, done, reserving, locked, next>>
vars == <<rows, used, reserved, private>>

NoReservation == [scopes |-> {}, charge |-> 0]
Reservation(t) == [scopes |-> Wanted[t], charge |-> Charge[t]]
Nothing == [s \in Scopes |-> 0]
Reserves(t) == t \notin Preflights

TypeOK ==
    /\ rows \subseteq Scopes /\ used \in [Scopes -> Nat]
    /\ reserved \in [Ops -> [scopes : SUBSET Scopes, charge : Nat]]
    /\ pc \in [Txns -> {"idle", "ensure", "reserve", "charge", "commit"}]
    /\ made \in [Txns -> SUBSET Scopes] /\ done \in [Txns -> SUBSET Scopes]
    /\ reserving \in [Txns -> BOOLEAN]
    /\ locked \in [Txns -> SUBSET Scopes]
    /\ next \in [Txns -> [Scopes -> Nat]]

Init ==
    /\ rows = {} /\ used = Nothing
    /\ reserved = [o \in Ops |-> NoReservation]
    /\ pc = [t \in Txns |-> "idle"]
    /\ made = [t \in Txns |-> {}] /\ done = [t \in Txns |-> {}]
    /\ reserving = [t \in Txns |-> FALSE]
    /\ locked = [t \in Txns |-> {}] /\ next = [t \in Txns |-> Nothing]

\* What a transaction holds ends with it.
End(t) ==
    /\ pc' = [pc EXCEPT ![t] = "idle"]
    /\ made' = [made EXCEPT ![t] = {}] /\ done' = [done EXCEPT ![t] = {}]
    /\ reserving' = [reserving EXCEPT ![t] = FALSE]
    /\ locked' = [locked EXCEPT ![t] = {}] /\ next' = [next EXCEPT ![t] = Nothing]

Begin(t) ==
    /\ pc[t] = "idle" /\ Wanted[t] # {}
    /\ pc' = [pc EXCEPT ![t] = IF Reserves(t) THEN "ensure" ELSE "charge"]
    /\ UNCHANGED <<rows, used, reserved, made, done, reserving, locked, next>>

Todo(t) ==
    LET todo == Wanted[t] \ done[t]
    IN  IF pc[t] = "ensure" /\ ~(todo \subseteq Live) THEN todo \ Live ELSE todo

\* Mutant: a preflight looks at its scopes in the opposite order.
IsNext_Preflight(t, s) ==
    s \in Todo(t) /\ \A r \in Todo(t) : IF Reserves(t) THEN s <= r ELSE r <= s

\* The scopes are taken in the order of their identifiers.
IsNext(t, s) == s \in Todo(t) /\ \A r \in Todo(t) : s <= r

\* Rows u has inserted or updated and not committed; its reservation row, inserted
\* or, by a repeat, locked.
Dirty(u) == made[u] \cup {s \in locked[u] : Reserves(u)}
HoldsReservation(u) == reserving[u] \/ (Reserves(u) /\ pc[u] = "commit")

\* Mutant: the scope is read without a lock.
Waits_Unlocked(t, u) ==
    \/ pc[t] = "ensure" /\ \E s \in Dirty(u) : IsNext(t, s)
    \/ pc[t] = "reserve" /\ Op[u] = Op[t] /\ HoldsReservation(u)

\* What PostgreSQL makes t wait for: an uncommitted row it would insert too, and a
\* lock that excludes its own (FOR SHARE only the one of a writer).
Waits(t, u) ==
    \/ pc[t] = "ensure" /\ \E s \in Dirty(u) : IsNext(t, s)
    \/ pc[t] = "reserve" /\ Op[u] = Op[t] /\ HoldsReservation(u)
    \/ pc[t] = "charge" /\ (Reserves(t) \/ Reserves(u)) /\ \E s \in locked[u] : IsNext(t, s)

Blocked(t) == \E u \in Txns \ {t} : Waits(t, u)

\* EnsureTx: insert unless there is a row.
EnsureTx(t, s) ==
    /\ pc[t] = "ensure" /\ IsNext(t, s) /\ ~Blocked(t)
    /\ done' = [done EXCEPT ![t] = @ \cup {s}]
    /\ made' = [made EXCEPT ![t] = IF s \in rows THEN @ ELSE @ \cup {s}]
    /\ UNCHANGED <<rows, used, reserved, pc, reserving, locked, next>>

Ensured(t) ==
    /\ pc[t] = "ensure" /\ done[t] = Wanted[t]
    /\ pc' = [pc EXCEPT ![t] = "reserve"] /\ done' = [done EXCEPT ![t] = {}]
    /\ UNCHANGED <<rows, used, reserved, made, reserving, locked, next>>

Repeated(t) == reserved[Op[t]] # NoReservation

\* reserve: insert the reservation, or find the one that is there; if that is of a
\* different request it is a conflict.
Reserve(t) ==
    /\ pc[t] = "reserve" /\ ~Blocked(t)
    /\ \/ /\ ~Repeated(t)
          /\ reserving' = [reserving EXCEPT ![t] = TRUE]
          /\ pc' = [pc EXCEPT ![t] = "charge"]
          /\ UNCHANGED <<rows, used, reserved, made, done, locked, next>>
       \/ /\ Repeated(t) /\ reserved[Op[t]] = Reservation(t)
          /\ pc' = [pc EXCEPT ![t] = "commit"]
          /\ UNCHANGED <<rows, used, reserved, made, done, reserving, locked, next>>
       \/ /\ Repeated(t) /\ reserved[Op[t]] # Reservation(t)
          /\ End(t) /\ UNCHANGED <<rows, used, reserved>>

\* Mutant: the charge itself is not counted.
Fits_Before(t, s) == s \in Exempt \/ used[s] <= Limit[s]

\* addWithinPolicy
Fits(t, s) == s \in Exempt \/ used[s] + Charge[t] <= Limit[s]

\* The loop of reserve and that of checkRootAdmissionTx: one scope, under its lock.
\* A preflight takes a missing row for an unspent one, which it cannot lock.  A scope
\* that does not fit ends the transaction: ReserveTx itself only rolls its savepoint
\* back, but every caller returns the error and its own rollback follows.
ChargeScope(t, s) ==
    /\ pc[t] = "charge" /\ IsNext(t, s) /\ ~Blocked(t)
    /\ \/ /\ Fits(t, s)
          /\ done' = [done EXCEPT ![t] = @ \cup {s}]
          /\ locked' = [locked EXCEPT ![t] = IF s \in rows \cup made[t] THEN @ \cup {s} ELSE @]
          /\ next' = [next EXCEPT ![t][s] = used[s] + Charge[t]]
          /\ UNCHANGED <<rows, used, reserved, pc, made, reserving>>
       \/ /\ ~Fits(t, s)
          /\ End(t) /\ UNCHANGED <<rows, used, reserved>>

Charged(t) ==
    /\ pc[t] = "charge" /\ done[t] = Wanted[t]
    /\ pc' = [pc EXCEPT ![t] = "commit"]
    /\ UNCHANGED <<rows, used, reserved, made, done, reserving, locked, next>>

Written(t) == [s \in Scopes |-> IF reserving[t] /\ s \in locked[t] THEN next[t][s] ELSE used[s]]

Commit(t) ==
    /\ pc[t] = "commit"
    /\ rows' = rows \cup made[t]
    /\ used' = Written(t)
    /\ reserved' = IF reserving[t] THEN [reserved EXCEPT ![Op[t]] = Reservation(t)] ELSE reserved
    /\ End(t)

\* An error of any statement, the caller's own checks, or a crash.
Rollback(t) ==
    /\ pc[t] # "idle"
    /\ End(t) /\ UNCHANGED <<rows, used, reserved>>

-----------------------------------------------------------------------------
Step(t) ==
    \/ \E s \in Scopes : EnsureTx(t, s) \/ ChargeScope(t, s)
    \/ Ensured(t) \/ Reserve(t) \/ Charged(t) \/ Commit(t)

Next == \E t \in Txns : Begin(t) \/ Step(t) \/ Rollback(t)

Spec == Init /\ [][Next]_vars

-----------------------------------------------------------------------------
(* Properties *)

\* No scope is charged over its limit, however admissions overlap
\* (types.go:114 under the lock of postgres.go:155).
WithinLimit == \A s \in Scopes \ Exempt : used[s] <= Limit[s]

ChargeStep ==
    \/ UNCHANGED <<used, reserved>>
    \/ \E o \in Ops :
          /\ reserved[o] = NoReservation
          /\ reserved' = [reserved EXCEPT ![o] = reserved'[o]]
          /\ used' = [s \in Scopes |-> IF s \in reserved'[o].scopes THEN used[s] + reserved'[o].charge
                                                                     ELSE used[s]]

\* Spending moves only together with a new reservation, by its charge, in all of
\* its scopes and no other; a reservation is never changed or taken back.  So what a
\* scope has used is the sum of the reservations that name it: no charge is lost to
\* a concurrent one, doubled by a retry or left behind by a failed admission.
ChargedAtOnce == [][ChargeStep]_vars

\* "All callers lock in the same sorted order" (postgres.go:152): among the open
\* transactions one does not wait for another, so none of them is in a circle, also
\* while scope rows are first made and while a live scope is ensured out of order.
NoCircularWait == (\E t \in Txns : pc[t] # "idle") => \E t \in Txns : pc[t] # "idle" /\ ~Blocked(t)
=============================================================================
