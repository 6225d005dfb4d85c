-------------------------- MODULE SessionOwnership --------------------------
(***************************************************************************)
(* The durable execution lease of ONE session and the writes it fences:    *)
(* the session_ownership row, the lease operations on it, and the two      *)
(* guards (ownership.Begin and ownership.BeginTransaction) through which   *)
(* an executor's business writes pass.                                     *)
(*                                                                         *)
(* The row lives in PostgreSQL.  A guard reads it FOR SHARE and keeps the  *)
(* lock until it is released; every lease operation is an UPDATE of the    *)
(* row and so waits for all guards: it is one atomic step, enabled when no *)
(* guard holds the lock.  expires_at is kept as the time `left' until it   *)
(* passes on the database clock; Tick lets time pass, also under a guard.  *)
(***************************************************************************)
EXTENDS Naturals, Sequences

CONSTANTS
    Executors,  \* executions (worker goroutines of any process) that want the session
    Runs,       \* runs of this session
    TTL,        \* lease TTL, in ticks
    MaxEpoch,   \* bound: how far fence_epoch may grow
    MaxWrites   \* bound: how many business writes are recorded

NoLease == 0    \* lease_id = ''
NoRun   == "no run"

\* A lease lasts for a while, and its columns tell a run from none.
ASSUME SessionAssumption ==
    /\ MaxEpoch \in Nat /\ MaxWrites \in Nat
    /\ TTL \in Nat \ {0}
    /\ NoRun \notin Runs

VARIABLES
    lease_id, run_id, fence_epoch,  \* the columns of the session_ownership row
    left,   \* expires_at - clock_timestamp(), 0 once it has passed
    issued, \* how many lease ids were drawn; ids are random and never repeat
    token,  \* token[e]: the ownership.Token in e's context
    guard,  \* guard[e]: the guard e is inside of
    log     \* the epochs of the tokens under which business writes became durable

row == <<lease_id, run_id, fence_epoch, left>>
sessionVars == <<row, issued, token, guard, log>>

Token == [lease : Nat, run : Runs \cup {NoRun}, epoch : Nat]
NoToken == [lease |-> NoLease, run |-> NoRun, epoch |-> 0]

\* "begin": ownership.Begin, the write uses another connection and is durable
\* at once.  "tx"/"staged": ownership.BeginTransaction before and after the
\* business statements, which become durable only by Commit.
GuardState == {"none", "begin", "tx", "staged"}

SessionTypeOK ==
    /\ lease_id \in Nat
    /\ run_id \in Runs \cup {NoRun}
    /\ fence_epoch \in Nat
    /\ left \in 0..TTL
    /\ issued \in Nat
    /\ token \in [Executors -> Token]
    /\ guard \in [Executors -> GuardState]
    /\ log \in Seq(Nat)

\* A session without a row and the row's column defaults behave alike.
SessionInit ==
    /\ lease_id = NoLease /\ run_id = NoRun /\ fence_epoch = 0
    /\ left = 0
    /\ issued = 0
    /\ token = [e \in Executors |-> NoToken]
    /\ guard = [e \in Executors |-> "none"]
    /\ log = << >>

-----------------------------------------------------------------------------
\* Mutant: the guard's SELECT does not lock the row, so no UPDATE waits for it.
RowUnguarded_NoShareLock == TRUE

\* The row lock: guards share it, an UPDATE of the row excludes them.
RowUnguarded == \A e \in Executors : guard[e] = "none"

\* expires_at>clock_timestamp()
Live == left > 0

\* Mutant: the validation trusts the run id and forgets lease id and epoch.
Valid_ByRunOnly(t) == run_id = t.run /\ Live

\* SELECT lease_id=$2 AND run_id=$3 AND fence_epoch=$4 AND expires_at>clock_timestamp()
Valid(t) ==
    /\ lease_id = t.lease
    /\ run_id = t.run
    /\ fence_epoch = t.epoch
    /\ Live

HasToken(e) == token[e] # NoToken

-----------------------------------------------------------------------------
\* Time passes.
Tick ==
    /\ Live
    /\ left' = left - 1
    /\ UNCHANGED <<lease_id, run_id, fence_epoch, issued, token, guard, log>>

\* AcquireLease, success: the row is taken over when its lease has expired or
\* was given up, under a new lease id and the next epoch.  A conflict changes
\* nothing.  A new execution replaces the executor's context, and so its token.
AcquireLease(e, r) ==
    /\ RowUnguarded
    /\ ~Live \/ lease_id = NoLease
    /\ fence_epoch < MaxEpoch
    /\ issued' = issued + 1
    /\ lease_id' = issued'
    /\ run_id' = r
    /\ fence_epoch' = fence_epoch + 1
    /\ left' = TTL
    /\ token' = [token EXCEPT ![e] = [lease |-> lease_id', run |-> r, epoch |-> fence_epoch']]
    /\ UNCHANGED <<guard, log>>

\* RenewLease: only an unexpired lease is extended, by its id alone.
RenewLease(e) ==
    /\ HasToken(e)
    /\ RowUnguarded
    /\ lease_id = token[e].lease
    /\ Live
    /\ left' = TTL
    /\ UNCHANGED <<lease_id, run_id, fence_epoch, issued, token, guard, log>>

\* ReleaseLease, found by its id, expired or not; run_id and fence_epoch stay
\* behind in the row, and the token in whatever context still carries it.
ReleaseLease(e) ==
    /\ HasToken(e)
    /\ RowUnguarded
    /\ lease_id = token[e].lease
    /\ lease_id' = NoLease
    /\ left' = 0
    /\ UNCHANGED <<run_id, fence_epoch, issued, token, guard, log>>

\* RevokeForControlTx: an owner control on the tasks of the runs rs takes the
\* row away when its last run is one of them.
RevokeForControlTx(rs) ==
    /\ RowUnguarded
    /\ run_id \in rs
    /\ fence_epoch < MaxEpoch
    /\ lease_id' = NoLease
    /\ fence_epoch' = fence_epoch + 1
    /\ left' = 0
    /\ UNCHANGED <<run_id, issued, token, guard, log>>

-----------------------------------------------------------------------------
\* ownership.Begin and ownership.BeginTransaction: the same validation under
\* FOR SHARE.  A stale token gets ErrStale and no guard.
Begin(e) ==
    /\ HasToken(e)
    /\ guard[e] = "none"
    /\ Valid(token[e])
    /\ guard' = [guard EXCEPT ![e] = "begin"]
    /\ UNCHANGED <<row, issued, token, log>>

BeginTransaction(e) ==
    /\ HasToken(e)
    /\ guard[e] = "none"
    /\ Valid(token[e])
    /\ guard' = [guard EXCEPT ![e] = "tx"]
    /\ UNCHANGED <<row, issued, token, log>>

\* A repository write between Begin and its deferred release: its own
\* connection, durable at once.
GuardedWrite(e) ==
    /\ guard[e] = "begin"
    /\ Len(log) < MaxWrites
    /\ log' = Append(log, token[e].epoch)
    /\ UNCHANGED <<row, issued, token, guard>>

\* The business statements of a fenced transaction.
StageWrite(e) ==
    /\ guard[e] = "tx"
    /\ guard' = [guard EXCEPT ![e] = "staged"]
    /\ UNCHANGED <<row, issued, token, log>>

\* fencedTransaction.Commit validates once more: a lease that expired while the
\* transaction was open rolls it back.
Commit(e) ==
    /\ guard[e] = "staged"
    /\ guard' = [guard EXCEPT ![e] = "none"]
    /\ \/ /\ Valid(token[e])
          /\ Len(log) < MaxWrites
          /\ log' = Append(log, token[e].epoch)
       \/ ~Valid(token[e]) /\ UNCHANGED log
    /\ UNCHANGED <<row, issued, token>>

\* release() of Begin, Rollback of a fenced transaction.
Release(e) ==
    /\ guard[e] # "none"
    /\ guard' = [guard EXCEPT ![e] = "none"]
    /\ UNCHANGED <<row, issued, token, log>>

\* The process dies: its connections close, its locks and open transactions go
\* with them, and nobody holds the token any more.  The row is left as it was.
Crash(e) ==
    /\ HasToken(e)
    /\ token' = [token EXCEPT ![e] = NoToken]
    /\ guard' = [guard EXCEPT ![e] = "none"]
    /\ UNCHANGED <<row, issued, log>>

-----------------------------------------------------------------------------
SessionNext ==
    \/ Tick
    \/ \E e \in Executors :
        \/ \E r \in Runs : AcquireLease(e, r)
        \/ RenewLease(e)
        \/ ReleaseLease(e)
        \/ Begin(e)
        \/ BeginTransaction(e)
        \/ GuardedWrite(e)
        \/ StageWrite(e)
        \/ Commit(e)
        \/ Release(e)
        \/ Crash(e)
    \/ \E rs \in SUBSET Runs : RevokeForControlTx(rs)

SessionSpec == SessionInit /\ [][SessionNext]_sessionVars

-----------------------------------------------------------------------------
(* Properties *)

\* Two executors never both pass the ownership validation, whatever takeovers,
\* releases, revocations and restarts came before (fence.go:118).
OwnershipExclusive ==
    \A e, f \in Executors :
        HasToken(e) /\ HasToken(f) /\ Valid(token[e]) /\ Valid(token[f]) => e = f

\* "Lease takeover requires an exclusive lock on the same row" (fence.go:89): as
\* long as a guard is open its token is the row's, even after the lease expired.
GuardPinsOwnership ==
    \A e \in Executors : guard[e] # "none" =>
        lease_id = token[e].lease /\ fence_epoch = token[e].epoch

\* "a superseded executor cannot start a later write" (fence.go:91): once a write
\* was made under an epoch, no write is made under an earlier one.
WritesFollowEpochs ==
    /\ \A i, j \in 1..Len(log) : i < j => log[i] <= log[j]
    /\ \A i \in 1..Len(log) : log[i] <= fence_epoch

\* The row, its guards and its tokens implement the abstract fence: every lease
\* operation leaves the epoch alone or moves it to the next one, and every
\* business write carries the epoch that is current when it becomes durable.
F == INSTANCE Fence WITH epoch <- fence_epoch
ImplementsFence == F!Spec
=============================================================================
