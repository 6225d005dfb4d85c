---------------------------- MODULE AuthorityPool ----------------------------
(***************************************************************************)
(* How guarded writes and lease mutations share one PostgreSQL connection  *)
(* pool: ownership.Authority's slot semaphore and mutation mutex, the      *)
(* pool, and the lock on one session_ownership row.  Several orchestrator  *)
(* processes each have an Authority and a pool of their own; the row lock  *)
(* is the database's and common to all.                                    *)
(*                                                                         *)
(* A guard (ownership.Begin) holds a slot, a connection and the shared     *)
(* lock while its business write takes a SECOND connection.  A fenced      *)
(* transaction does all its work on one.  A mutation (AcquireLease,        *)
(* RenewLease, ReleaseLease, Controller.Apply) takes the mutex and every   *)
(* slot before it takes a connection and waits for the exclusive lock.     *)
(***************************************************************************)
EXTENDS Integers, FiniteSets

CONSTANTS
    Processes,  \* orchestrator processes
    Guards,     \* contexts writing through ownership.Begin
    Fenced,     \* contexts writing through ownership.BeginTransaction
    Mutators,   \* lease operations and owner controls
    Readers,    \* other users of the pool, one connection at a time
    Home,       \* the process of each of them
    MaxConns    \* pgxpool MaxConns of each process

Actors == Guards \cup Fenced \cup Mutators \cup Readers

ASSUME ActorsAssumption ==
    /\ IsFiniteSet(Actors)
    /\ Guards \cap Fenced = {} /\ (Guards \cup Fenced) \cap (Mutators \cup Readers) = {}
    /\ Mutators \cap Readers = {}
ASSUME HomeAssumption == Home \in [Actors -> Processes]
ASSUME MaxConnsAssumption == MaxConns \in [Processes -> Nat \ {0, 1}]

VARIABLES
    slots,      \* slots[p]: tokens in the slots channel of p
    mutations,  \* mutations[p]: tokens in the mutations channel of p
    conns,      \* conns[p]: connections checked out of p's pool
    taken,      \* taken[m]: slots BeginMutation has taken so far
    pc          \* where each actor stands

vars == <<slots, mutations, conns, taken, pc>>

\* Mutant: guards may take the whole pool.
SlotCap_WholePool(p) == MaxConns[p]

\* NewAuthority: half the pool, at least one.
SlotCap(p) == IF MaxConns[p] \div 2 < 1 THEN 1 ELSE MaxConns[p] \div 2

Place == {"idle", "slot", "conn", "shared", "write", "mutex", "all slots", "exclusive"}

TypeOK ==
    /\ slots \in [Processes -> Nat] /\ \A p \in Processes : slots[p] <= SlotCap(p)
    /\ mutations \in [Processes -> 0..1]
    /\ conns \in [Processes -> Nat] /\ \A p \in Processes : conns[p] <= MaxConns[p]
    /\ taken \in [Mutators -> Nat] /\ \A m \in Mutators : taken[m] <= SlotCap(Home[m])
    /\ pc \in [Actors -> Place]

Init ==
    /\ slots = [p \in Processes |-> 0]
    /\ mutations = [p \in Processes |-> 0]
    /\ conns = [p \in Processes |-> 0]
    /\ taken = [m \in Mutators |-> 0]
    /\ pc = [a \in Actors |-> "idle"]

-----------------------------------------------------------------------------
\* The row lock, read off the actors that hold it.
Sharing == {a \in Guards \cup Fenced : pc[a] \in {"shared", "write"}}
Excluding == {m \in Mutators : pc[m] = "exclusive"}

Goto(a, place) == pc' = [pc EXCEPT ![a] = place]
TakeConn(a) == conns[Home[a]] < MaxConns[Home[a]] /\ conns' = [conns EXCEPT ![Home[a]] = @ + 1]
GiveConns(a, n) == conns' = [conns EXCEPT ![Home[a]] = @ - n]
TakeSlot(a) == slots[Home[a]] < SlotCap(Home[a]) /\ slots' = [slots EXCEPT ![Home[a]] = @ + 1]
GiveSlots(a, n) == slots' = [slots EXCEPT ![Home[a]] = @ - n]

-----------------------------------------------------------------------------
\* Begin and BeginTransaction: a slot, then a connection, then FOR SHARE.
GuardSlot(a) ==
    /\ pc[a] = "idle"
    /\ TakeSlot(a)
    /\ Goto(a, "slot")
    /\ UNCHANGED <<mutations, conns, taken>>

GuardConn(a) ==
    /\ pc[a] = "slot"
    /\ TakeConn(a)
    /\ Goto(a, "conn")
    /\ UNCHANGED <<slots, mutations, taken>>

GuardLock(a) ==
    /\ pc[a] = "conn"
    /\ Excluding = {}
    /\ Goto(a, "shared")
    /\ UNCHANGED <<slots, mutations, conns, taken>>

\* The guarded repository write takes its own connection from the same pool.
WriteConn(a) ==
    /\ pc[a] = "shared"
    /\ TakeConn(a)
    /\ Goto(a, "write")
    /\ UNCHANGED <<slots, mutations, taken>>

\* The write is done and the guard released: rollback, then the slot.
GuardDone(a) ==
    /\ pc[a] = "write"
    /\ GiveConns(a, 2)
    /\ GiveSlots(a, 1)
    /\ Goto(a, "idle")
    /\ UNCHANGED <<mutations, taken>>

\* fencedTransaction.Commit or Rollback.
FencedDone(a) ==
    /\ pc[a] = "shared"
    /\ GiveConns(a, 1)
    /\ GiveSlots(a, 1)
    /\ Goto(a, "idle")
    /\ UNCHANGED <<mutations, taken>>

\* Mutant: a guard that finds its token stale keeps its slot.
GuardAbandon_KeepSlot(a) ==
    /\ pc[a] \in {"slot", "conn"}
    /\ GiveConns(a, IF pc[a] = "conn" THEN 1 ELSE 0)
    /\ Goto(a, "idle")
    /\ UNCHANGED <<slots, mutations, taken>>

\* ctx is done before the validation succeeds, or the validation says stale:
\* what was taken so far goes back.
GuardAbandon(a) ==
    /\ pc[a] \in {"slot", "conn"}
    /\ GiveConns(a, IF pc[a] = "conn" THEN 1 ELSE 0)
    /\ GiveSlots(a, 1)
    /\ Goto(a, "idle")
    /\ UNCHANGED <<mutations, taken>>

\* ctx is done while the guarded write waits for its connection.
WriteAbandon(a) ==
    /\ pc[a] = "shared"
    /\ GiveConns(a, 1)
    /\ GiveSlots(a, 1)
    /\ Goto(a, "idle")
    /\ UNCHANGED <<mutations, taken>>

-----------------------------------------------------------------------------
\* Mutant: a mutation does not wait for the guards of its process.
MutationMutex_NoSlots(m) ==
    /\ pc[m] = "idle"
    /\ mutations[Home[m]] = 0
    /\ mutations' = [mutations EXCEPT ![Home[m]] = 1]
    /\ Goto(m, "all slots")
    /\ UNCHANGED <<slots, conns, taken>>

\* BeginMutation.
MutationMutex(m) ==
    /\ pc[m] = "idle"
    /\ mutations[Home[m]] = 0
    /\ mutations' = [mutations EXCEPT ![Home[m]] = 1]
    /\ Goto(m, "mutex")
    /\ UNCHANGED <<slots, conns, taken>>

MutationSlot(m) ==
    /\ pc[m] = "mutex"
    /\ TakeSlot(m)
    /\ taken' = [taken EXCEPT ![m] = @ + 1]
    /\ Goto(m, IF taken[m] + 1 < SlotCap(Home[m]) THEN "mutex" ELSE "all slots")
    /\ UNCHANGED <<mutations, conns>>

\* The UPDATE (or the control transaction) takes a connection ...
MutationConn(m) ==
    /\ pc[m] = "all slots"
    /\ TakeConn(m)
    /\ Goto(m, "conn")
    /\ UNCHANGED <<slots, mutations, taken>>

\* ... and waits for every guard of every process to let go of the row.
MutationLock(m) ==
    /\ pc[m] = "conn"
    /\ Sharing = {} /\ Excluding = {}
    /\ Goto(m, "exclusive")
    /\ UNCHANGED <<slots, mutations, conns, taken>>

\* Commit, then the deferred release.
MutationDone(m) ==
    /\ pc[m] = "exclusive"
    /\ GiveConns(m, 1)
    /\ GiveSlots(m, taken[m])
    /\ taken' = [taken EXCEPT ![m] = 0]
    /\ mutations' = [mutations EXCEPT ![Home[m]] = 0]
    /\ Goto(m, "idle")

\* ctx is done: the slots taken so far, the connection and the mutex go back.
MutationAbandon(m) ==
    /\ pc[m] \in {"mutex", "all slots", "conn"}
    /\ GiveConns(m, IF pc[m] = "conn" THEN 1 ELSE 0)
    /\ GiveSlots(m, taken[m])
    /\ taken' = [taken EXCEPT ![m] = 0]
    /\ mutations' = [mutations EXCEPT ![Home[m]] = 0]
    /\ Goto(m, "idle")

-----------------------------------------------------------------------------
ReaderConn(a) ==
    /\ pc[a] = "idle"
    /\ TakeConn(a)
    /\ Goto(a, "conn")
    /\ UNCHANGED <<slots, mutations, taken>>

ReaderDone(a) ==
    /\ pc[a] = "conn"
    /\ GiveConns(a, 1)
    /\ Goto(a, "idle")
    /\ UNCHANGED <<slots, mutations, taken>>

GuardStep(a) == GuardSlot(a) \/ GuardConn(a) \/ GuardLock(a)
MutatorStep(m) ==
    MutationMutex(m) \/ MutationSlot(m) \/ MutationConn(m) \/ MutationLock(m) \/ MutationDone(m)

Next ==
    \/ \E a \in Guards \cup Fenced : GuardStep(a) \/ GuardAbandon(a)
    \/ \E a \in Guards : WriteConn(a) \/ GuardDone(a) \/ WriteAbandon(a)
    \/ \E a \in Fenced : FencedDone(a)
    \/ \E m \in Mutators : MutatorStep(m) \/ MutationAbandon(m)
    \/ \E a \in Readers : ReaderConn(a) \/ ReaderDone(a)

\* Go channels and pgxpool serve waiters in order, and PostgreSQL queues lock
\* waiters: whoever can go on again and again does.  Nothing obliges a context
\* to be cancelled, so the abandoning steps have no fairness: what is live is
\* live without the help of timeouts.  Nobody is obliged to start, either.
Fairness ==
    /\ \A a \in Guards : SF_vars(GuardConn(a) \/ GuardLock(a) \/ WriteConn(a) \/ GuardDone(a))
    /\ \A a \in Fenced : SF_vars(GuardConn(a) \/ GuardLock(a) \/ FencedDone(a))
    /\ \A m \in Mutators :
        SF_vars(MutationSlot(m) \/ MutationConn(m) \/ MutationLock(m) \/ MutationDone(m))
    /\ \A a \in Readers : WF_vars(ReaderDone(a))

Spec == Init /\ [][Next]_vars
FairSpec == Spec /\ Fairness

-----------------------------------------------------------------------------
(* Properties *)

At(p, set, places) == {a \in set : Home[a] = p /\ pc[a] \in places}

\* Every slot, mutex and connection in use is held by an actor that will give it
\* back, whatever was cancelled where (fence.go:57-61, 107-115; transaction.go:36):
\* nothing leaks and nothing is returned twice.
NothingLeaks ==
    TypeOK /\ \A p \in Processes :
        LET guarding == At(p, Guards \cup Fenced, {"slot", "conn", "shared", "write"})
            mutating == At(p, Mutators, Place \ {"idle"})
        IN /\ mutations[p] = Cardinality(mutating)
           /\ slots[p] = Cardinality(guarding)
                + (IF mutating = {} THEN 0 ELSE taken[CHOOSE m \in mutating : TRUE])
           /\ conns[p] = Cardinality(At(p, Actors, {"conn", "shared", "exclusive"}))
                + 2 * Cardinality(At(p, Guards, {"write"}))

\* "This prevents a lease UPDATE waiting on a row guard from taking the last
\* connection needed by that guard's business write (including a pool of two)"
\* (fence.go:41-43): a guard that waits for its write connection never finds the
\* pool exhausted by connections whose holders wait as well.
WriteConnectionReachable ==
    \A p \in Processes :
        At(p, Guards, {"shared"}) # {} =>
            Cardinality(At(p, Guards, {"shared"})) + Cardinality(At(p, Mutators, {"conn"})) < MaxConns[p]

\* Nobody waits on everybody: once no new guard begins, each guarded or fenced
\* write and each mutation under way finishes, in every process and without any
\* context being cancelled.  (FOR SHARE joins a shared row lock past a waiting
\* UPDATE, so guards that never cease to overlap could keep a mutation waiting.)
NoNewGuards == <>[][\A a \in Guards \cup Fenced : ~GuardSlot(a)]_vars
EveryoneFinishes == NoNewGuards => \A a \in Actors : (pc[a] # "idle" ~> pc[a] = "idle")
=============================================================================
