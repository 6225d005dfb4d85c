# Butler's durable execution kernel in TLA+

Butler is a self-hosted, long-lived agent. Its orchestrator accepts inputs from
Telegram, the web and its own schedules, executes each of them as a *run* of a
language model with tools, asks the owner for approval where an action needs it,
saves one final answer and delivers it. PostgreSQL is the authority for all of
this: processes crash and restart, and several workers work on the same tables.
What has to be right is the order in which rows of different tables change,
under leases, claims and row locks. That is what is modelled here.

Paths below are relative to `src/`; `orchestrator/` stands for
`apps/orchestrator/internal/`.

## 1. The system

### 1.1 Parts

| part | state | operations | what is hard about it |
|---|---|---|---|
| session ownership (`internal/ownership`, `orchestrator/session/lease_postgres.go`) | one row per session: lease id, run, fence epoch, expiry | acquire, renew, release, revoke; guarded write, fenced transaction | takeover while a write is under way, expiry under a held lock, writes of a superseded executor |
| authority pool (`internal/ownership`) | slot semaphore, mutation mutex, connections, row lock | `Begin`, `BeginTransaction`, `BeginMutation`, cancellation at each wait | a guarded write needs a second connection; everybody may wait on everybody |
| input queue (`orchestrator/input`) | accepted inputs: status, checkpoint, attempts, claim | accept, claim, renew, checkpoint, finish, expire, finalize | lost claims, late receipts, retries after crashes, session order |
| approvals (`orchestrator/approval/durable.go`) | approval with its exact action | create with suspension, decide, expire, invalidate | a decision before its input is parked, after it was closed, or twice |
| run lifecycle (`orchestrator/run`, `internal/domain`) | run state, changed by compare-and-set | transitions, recovery, completion, failure, cancellation | several writers: worker, coordinator, owner, finalizer |
| execution flow (`orchestrator/orchestrator`) | what a worker holds in memory | execute, resume, model turns, tool calls, suspension, retry, finalization | a crash between an external effect and its record; memory that is stale after a takeover |
| effect journal (`internal/actionauth`, `apps/tool-broker/internal/broker`) | intents, grants, effects, dispatches | prepare, authorize, execute, outcome, reconcile | a repeated call, a late request, a response after the verdict |
| completion (`orchestrator/completion/coordinator.go`) | final result | save with transcript, outbox, jobs | one transaction for all of it, a lost commit answer |
| delivery outbox (`orchestrator/deliveryoutbox`) | chunks: status, claim, attempts | enqueue, claim, authorize, send, finish | Telegram has no idempotency key |
| auxiliary jobs (`orchestrator/completion/auxiliary.go`) | jobs: claim, attempts | claim, handle, finish | a handler that outlives its claim |
| scheduled work (`orchestrator/scheduled`, `internal/scheduling`) | job: revision, next slot, expiry, count; its occurrences | create, control, sweep, admit, notify | sweepers and owners on one row; waits that cross a deadline |
| budgets (`internal/budget`) | scope rows with what they have used, reservations | ensure, reserve, charge, preflight | every admission locks several rows that others share and that may not exist yet |
| local models (`internal/localmodels`) | queues and slots of two lanes, worker processes, the RAM gate | infer, cancel, close, run, retry, fall back, unload | callers leave at any moment; two lanes share memory neither owns |
| owner task controls (`orchestrator/task/controller.go`) | tasks, revisions | cancel, pause, correct, verify | racing the worker it stops |

Parts without a module, with the reason for each, are listed in
`PROJECT.json` (`components`) and in section 7.

### 1.2 How they interact

1. `Accept` stores an input. A worker's `Claim` takes the first open input of a
   session for a bounded time and renews the claim while it works.
2. `process` executes a fresh input and resumes one whose run left preparation.
   Either way the worker takes the session's lease. Every later write to run,
   transcript, checkpoint and result is *fenced* by it.
3. A model turn ends in an answer, a tool call or an error. A tool call is
   authorized, the run moves to `tool_running`, the checkpoint to
   `tool_dispatching`, and only then the broker is called. The broker journals
   the dispatch before it contacts the recipient.
4. A call that needs approval suspends the run: approval, run state and
   checkpoint change in one transaction, the worker releases everything. The
   owner's decision queues the input again.
5. The answer is checkpointed (`finalizing`) and saved by the coordinator, which
   completes the run, fills the outbox and queues the auxiliary jobs.
6. A schedule's sweep turns a due slot into an input like any other, or a
   reminder into a notice. Model turns, tool calls, child tasks and local
   inferences are first charged to the budgets of their task, mandate, day and
   conversation.
7. At any time a process may die, a claim or a lease may run out under a live
   worker, the owner may stop the task, and sweeps close what nobody finishes.

## 2. Modules

| module | models | used by |
|---|---|---|
| `Fence` | the abstract promise: epochs advance by one, a durable write carries the current epoch | refined by `SessionOwnership` |
| `SessionOwnership` | one `session_ownership` row, its leases and guards | `MCSessionOwnership`, `AuthorityPoolProofs` |
| `AuthorityPool` | slots, mutex, pool connections and row lock of several processes | `MCAuthorityPool`, `AuthorityPoolProofs` |
| `InputQueue` | inputs, claims, leases, classes of run states, approvals, owner controls and sweeps together | `MCInputQueue`, `InputQueueProofs` |
| `Execution` | one input and its run, step by step | `MCExecution`, `ExecutionProofs` |
| `EffectJournal` | one external effect, its grants and the handlers of `ExecuteToolCall` | `MCEffectJournal`, `EffectJournalProofs` |
| `DeliveryOutbox` | the chunks of one final answer | `MCDeliveryOutbox`, `DeliveryOutboxProofs` |
| `AuxiliaryJobs` | the post-completion jobs | `MCAuxiliaryJobs`, `BudgetProofs` |
| `Schedules` | one scheduled job, its sweepers, its occurrences and their work | `MCSchedules`, `SchedulesProofs` |
| `Budget` | scope rows, reservations and the transactions that charge them | `MCBudget`, `BudgetProofs` |
| `LocalModels` | the calls, lanes, workers and RAM gate of the local model service | `MCLocalModels`, `LocalModelsProofs` |

The modules form layers. `SessionOwnership` shows that a guard pins its lease, so
`InputQueue` and `Execution` treat a fenced write as one step that is possible
only for the live lease. `EffectJournal` shows that an effect is dispatched at
most once whatever the callers do, and `Execution` reduces the broker to what
`EffectJournal` lets a caller see. `InputQueue` looks at several inputs of a
session and reduces an execution to its results; `Execution` looks at one input
and has every step of it. None of these reductions is checked as a refinement
yet, except `SessionOwnership` against `Fence`.

### 2.1 State and actions

**SessionOwnership.** `lease_id`, `run_id`, `fence_epoch` are the row's columns;
`left` is the remaining lifetime of the lease, counted in ticks; `token[e]` the
token in an executor's context; `guard[e]` whether it is inside `Begin` or
`BeginTransaction`; `log` the epochs of all durable business writes. `AcquireLease`,
`RenewLease`, `ReleaseLease` and `RevokeForControlTx` need the row unlocked
(`RowUnguarded`): PostgreSQL makes an UPDATE wait for the share lock of a guard.
`Begin`/`GuardedWrite`/`Release` is a write on a second connection under that
lock; `BeginTransaction`/`StageWrite`/`Commit` validates again at commit. `Crash`
drops token and guard. `Tick` lets time pass, also under a guard.

**AuthorityPool.** Channels are counters, an actor's place says what it holds.
`SlotCap` is the size `NewAuthority` gives the slots channel. Guards hold a slot,
a connection and a share lock and then need a second connection; mutations take
the mutex and all slots one by one before they touch the pool. `GuardAbandon`,
`WriteAbandon` and `MutationAbandon` are contexts cancelled at a wait.

**InputQueue.** One record per input (the columns), one lease per session, one
program counter per worker. `Claim(w, i)` is the UPDATE with its candidate
subquery; `Process` to `Finish` follow `process`; `Crash` leaves claim and lease
to expire, `Shutdown` releases the lease and not the claim. `Decide` is an
owner's answer, `ListInvalid` and `ReviewNext` the maintenance sweep that
expires approvals one after another and stops at the first error,
`OwnerControl` the control transaction, `FinalizeStopped` the finalizer of
attempts that nobody will resume. Run states are reduced to classes.

**Execution.** Run row, input row, transcript, approvals and effects are shared;
each worker has a place in the code (`at`), its copy of the run state (`cur`),
the call or answer in hand (`item`) and what it read before it owned the session
(`seen`). `Transition` is every `transition` call, with the table of
`internal/domain` and the compare-and-set of `UpdateRun`; `Checkpoint` every
`checkpoint` call, which needs the claim and, once there is a token, the lease;
`Target`, `Stage`, `Moved` and `Saved` say which one and what follows.
`GetRun`, `LoadCheckpoint`, `AcquireLease`, `RefreshExecutionLease` and `Route`
are the steps of `Resume` in its order, the first two before the lease; what `Resume`
then decides is `Continue`.
`Admit`, `ModelStream`, `ModelFails`, `ScheduleRetry`, `FinalMessage` and
`ToolCallRequested` are a model turn; `SuspendApproval`, `AuthorizeAction`,
`ExecuteToolCall` and `AppendToolCall` a tool call. Every transition and
checkpoint may also fail as a query. A fault is a process that dies (`Crash`), or a
claim or lease that runs out under a live worker (`ClaimExpires`, `LeaseExpires`). An expired claim or lease is `Nobody`, that
of a dead process `Orphan` until it expires.

**EffectJournal.** The rows `action_intents`, `action_authorizations`,
`action_effects` and `action_effect_dispatches` of one effect to which two runs
may be linked, the session lease, the handlers of `ExecuteToolCall` (`at`,
`call_*`, `reply`) and the outside world: requests on the `wire`, what the
`recipient` recorded, and the `observation` a lookup brought back, which recovery
uses later. A key the recipient has not seen has no receipt.
The checks a handler makes (`VerifyContext`, `Verify`, `Claim`) are separate
steps; `Claim` is the transaction of `ClaimGrant` with `guardDispatch`.
Approval, mandate and credential conditions are choices of the environment:
they can only refuse.

**DeliveryOutbox.** `Claim` is the whole transaction: quarantine of expired
claims, failing of overdue or exhausted chunks, and the claim of the first chunk
whose predecessors were all sent. `SendStored` chooses what happened to the
message and what the worker heard of it, `DeliveryOutcome` is the mapping of
store.go, `Finish` writes under the claim.

**AuxiliaryJobs.** Claims last five ticks, handlers at most four: the code's
minutes. `ClaimAuxiliary` reopens expired jobs, fails exhausted ones and claims,
in one transaction.

**Schedules.** The job row, its occurrences with the work each became, and the
sweepers. A sweep is `List` (candidates, without a lock), `Lock` (the row, the
clock, the due slot), `Recheck` (authority, source and budget, which may wait) and
`Admit` (the clock again, the occurrence, the next slot). The row stays locked from `Lock` to
the end; `Clock` goes on. `Refuse` is a check that says no, `Rollback` a failed
transaction. `Cancel` and `Update` (a new specification: mode, timing, maximum and expiry, within the job's own
maximum and expiry) are the owner's controls, which in one transaction raise the revision and retire the inputs of the old one. `Claim` to `ClaimExpires` are what
happens to an occurrence's input or notice. `NextAfter` and `Due` are the calendar
with slots of a period in place of dates.

**Budget.** A transaction is where it is in the code (`pc`), the rows it has
inserted (`made`) or locked, and what it has written but not committed (`next`).
`EnsureTx` inserts missing scopes one by one, `Reserve` the reservation or finds the
earlier one, `ChargeScope` locks, checks and charges the scopes in the order of their
identifiers. `Waits(t, u)` is what PostgreSQL makes `t` wait for: the uncommitted
insert of a row it inserts too, the uncommitted update of a scope it ensures or reads under a lock, and the
reservation row of the same operation, which its repeat locks. A preflight has the second loop only,
under share locks, and takes a missing row for an unspent one. `Rollback` may happen
at any point. One of the eight dimensions is modelled: they are checked and charged
together and do not interact.

**LocalModels.** A call is where it stands in `Infer` (`at`), with its context
(`dead`) and the reply channel; a lane is its queue, its pending jobs, its slots
and where its loop is (`pc`), and has at most one worker process (`proc`, `rss`,
`killed`). `Infer`, `Send` and `Await` are the three selects; `Take` is a round of the
loop with the round robin of `nextJob` (`IsNextJob`); `Execute`, `AcquireRAM`, `Answer`/`WorkerLost`, `Sample` and
then `RetryRun`, `FallBack` or `Finish` a job. GPU memory, the host's memory and the
telemetry refuse freely.

## 3. Runs

`tlc -config <cfg> <module>` repeats any of them. States are distinct states.

| run | configuration | instance | states | result |
|---|---|---|---|---|
| `session_ownership` | `MCSessionOwnership.cfg` | 2 executors, 2 runs, lifetime 2, 4 epochs, 3 writes | 41,593 | holds |
| `authority_pool` | `MCAuthorityPool.cfg` | 2 processes, pools of 2 and 4, 8 actors | 4,366 | holds |
| `input_recovery` | `MCInputRecovery.cfg` | 1 input, 2 workers, 2 attempts, 1 crash, 1 stall, 1 suspension | 367,316 | holds |
| `input_liveness` | `MCInputLiveness.cfg` | 2 inputs of a session, 1 worker, 1 attempt, 1 crash, 1 suspension | 314,007 | holds |
| `execution` | `MCExecution.cfg` | 2 workers, 2 tool calls, 2 attempts, 1 fault | 2,798,158 | holds |
| `effect_journal` | `MCEffectJournal.cfg` | 2 runs, 2 handlers, 2 grants, 2 epochs, every verification method | 2.1 million | holds |
| `delivery_outbox` | `MCDeliveryOutbox.cfg` | 3 chunks, 2 workers, 2 attempts, 1 crash, each channel | 2,410 | holds |
| `auxiliary_jobs` | `MCAuxiliaryJobs.cfg` | 2 jobs, 2 workers, 2 attempts, 2 crashes | 7,042 | holds |
| `schedules` | `MCSchedules.cfg` | 2 sweepers, 3 modes, 2 channels, 3 timings, 2 occurrences, 3 revisions, 1 fault, 5 units of time | 2,065,572 | holds |
| `budget` | `MCBudget.cfg` | 6 admissions of 4 operations, 5 scopes, limits 0 to 2 | 1,846,647 | holds |
| `local_models` | `MCLocalModels.cfg` | 5 mixes of 7 requests, 2 lanes, 5 profiles of which two share a model, 1 cancellation, closing | 163,029 | holds |
| `input_attempts` | `MCInputAttempts.cfg` | 1 input, 2 workers, 2 attempts, 2 crashes | | finding 1 |

Deadlock is checked in `authority_pool`, where it is the question. Elsewhere the
system may come to rest: everything is closed and the bounds are used up.

### 3.1 What they show

**session_ownership.** At most one executor's token passes the validation
(`OwnershipExclusive`). While a guard is open neither lease nor epoch of the row
changes, even if the lease runs out (`GuardPinsOwnership`). The epochs of durable
writes never fall (`WritesFollowEpochs`), and the row implements `Fence`
(`ImplementsFence`).

**authority_pool.** Slots, mutex and connections are held by exactly the actors
that stand where the code holds them, also after cancellations (`NothingLeaks`).
Whenever guards of a process wait for their write connection, one can be had
(`WriteConnectionReachable`), and everybody who starts finishes
(`EveryoneFinishes`). The last one is conditional on guards not arriving for
ever: PostgreSQL lets a new `FOR SHARE` join the holders past a waiting UPDATE,
so two slots of one process can keep a mutation of another process waiting by
overlapping without end. The code has nothing against that, and needs nothing as
long as guards are short and come in finite bursts.

**input_recovery.** A decision that arrives before its input is parked is not
lost: an input waits for its owner only while there is something to decide
(`NoLostWakeup`). A receipt `completed` belongs to a completed run
(`ReceiptsAreTrue`). What is
closed stays closed, a run's end is never rewritten, and after an owner's control
no worker completes the run (`ClosedForever`).

**input_liveness.** A session's inputs run in their order (`HeadOnly`). Every
queued or running input is eventually closed or parked for the owner, through
crashes and busy sessions (`EveryInputSettles`).

**execution.** A tool call goes to the broker at most once, whatever dies or is
taken over (`AskedAtMostOnce`). A call with an approval goes out only when it was
approved, and while one is pending the model stays where it was
(`ApprovalPrecedesCall`). The model is
asked again only when the outcome of every call sent is in the transcript
(`TurnsSeeAllResults`). A checkpointed answer is final (`AnswerIsFinal`), and a
completed run has that answer, all outcomes and the user's message once
(`CompletedIsAccounted`). All writers of the run row, also those that do not
consult the table, respect it, and a run that ended keeps its end, result,
transcript, turns and effects (`RunFollowsTable`). The user's message is not among them:
`failRun` after a refused lease needs no lease, so it can end the run under its
new owner, whose `AppendMessage` is fenced by the lease and does not look at the
state of the run. The durable retry of a model turn repeats no call
(`RetryRepeatsNothing`).

**effect_journal.** At most one dispatch of an effect is committed, and its
recipient performs it at most once (`DispatchedAtMostOnce`). Grant, effect and
dispatch rows agree on what is in flight (`LedgersAgree`). A verdict is true of
the recipient, whatever arrives late (`VerdictTruthful`), and is never rewritten
(`VerdictFinal`).

**delivery_outbox.** Chunks reach the owner at most once and in order
(`ArriveOnceInOrder`). `sent` and `failed` are true, every doubt is
`delivery_unknown`, and the aggregate over the chunks says the most conservative of
them (`ReportsAreTrue`). Every chunk is settled for good (`EverythingSettles`).

**auxiliary_jobs.** No two live workers process a job at a time (`NoOverlap`).
Every job ends, stays ended, and fails only after its last attempt
(`EveryJobSettles`).

**schedules.** No slot is served twice, by whichever sweeper and revision
(`SlotsServedOnce`). Every consumed slot counts toward the maximum, across all
revisions, and no revision exceeds the maximum the job was made with (`UsageBounded`). A schedule has one unfinished input, and none of an
earlier revision (`OneUnfinished`). No wait carries an admission past the expiry of the job or
the grace of its slot (`AdmittedInTime`). A job that is due does not stay due
(`DueIsServed`).

**budget.** No scope is charged over its limit (`WithinLimit`). Spending moves only
together with a new reservation, by its charge and in all of its scopes
(`ChargedAtOnce`), which excludes lost updates, double charges by retries and
remains of failed admissions. Some open transaction can always go on
(`NoCircularWait`), also while rows are first made, and although `AdmitLocalModel`
ensures its live scope after the others, out of order.

**local_models.** A queue slot is held by exactly the calls that are queued or
about to be, whoever leaves when (`SlotsAccounted`). The worker of a lane is the one its
status names, so unloading always stops it; a killed one is never used again; a
closed lane leaves nothing (`NothingLeftBehind`). The peaks of admitted runs and what
idle workers hold fit the budget, up to one credit (`PromisedUpToCredit`): what a lane was
allowed, on admission, for a worker of the same model but another profile, which it
stops instead of using. Without such profiles the credit is nothing and the
budget is kept exactly; the run's catalog has two of them, and TLC finds the excess there
as well when asked for the exact bound (finding 5). A queued call is answered however many others come
(`AnsweredUnlessCancelled`).

Each property has a mutant in `PROJECT.json`: a plausible mistake in a modelled
definition, kept beside it in the module (`..._NoCAS`, `..._KeepSlot`), which
makes TLC report that property.

### 3.2 Bounds

The bounds are named constants, and each is the smallest that lets the hard case
happen. Two workers make a takeover and a stale twin. Two calls let one be
recorded and the next be open; the first may be refused and retried as an
equivalent of itself. Two attempts let a crash be retried once and exhausted
once. Four epochs allow takeover, control and another takeover. One fault in
`Execution` strikes at any step: the fault and its recovery are explored in
full; two faults take longer than a run should. Once, larger instances were run to the end
without a violation: `Execution` with two faults (36 million
states), `InputQueue` with two inputs, two workers, two attempts and a stall
(36 million), and `input_liveness` with two workers (2.3 million).

In `Schedules` five units of time hold two days of the budget, the expiry and a slot
missed beyond its grace. In `Budget` an operation is retried across midnight (the same
operation with other scopes, a conflict), a child admission makes rows without
spending in the modelled dimension, and two local inferences of one run share a live scope. The
mixes of `LocalModels` are chosen so that a lane has more calls than slots, changes
model and device, competes with the other lane for memory that suffices for
one of them, and changes between two profiles of a model, as the deployed catalog can.

`SYMMETRY` permutes workers, runs or handlers, in runs without liveness only.

### 3.3 Fairness

* `AuthorityPool`: strong fairness of each actor's own steps. Go channels,
  the pool's waiter queue and PostgreSQL's lock queue each serve a waiter that
  can be served again and again. Nothing obliges an actor to start or to cancel.
* `DeliveryOutbox`, `AuxiliaryJobs`: weak fairness of each worker's step (their
  loops poll for as long as the process lives) and of time.
* `InputQueue`: weak fairness of each worker's step, of expiry and deadlines and
  of the maintenance loop's sweeps. Crashes, stalls, owners, decisions and new
  inputs owe nothing. A crash of a worker is followed by another worker of the
  same name: the service restarts its loops.

* `Schedules`: weak fairness of each sweeper (maintenance runs every second) and of
  the workers that finish inputs and notices. Owners, faults, refusals and the
  clock owe nothing.
* `LocalModels`: weak fairness of each lane's loop and of each caller's goroutine.
  A worker that hangs is killed by its request's deadline. Nobody has to call,
  cancel or close.

## 4. Findings

Each is a disagreement between code and documents that a configuration exhibits.
The first is the run `input_attempts`; the others are repeated with
`tlc -config <cfg> <module>`.

1. *Attempts* (`AttemptsBounded`, `input/store.go:215`). The claim of an approved
   continuation costs no attempt, but a busy session refunds one anyway. So a
   later crash gets an execution more than the documented allowance.
2. *Stuck sweep* (`InvalidPendingExpires`, `MCInputSweep.cfg`, `approval/durable.go:266`). An invalid
   approval whose input was closed meanwhile cannot be expired: the wake-up finds
   no input and rolls the expiry back, on every round, and the sweep stops there.
   `docs/architecture/durable-execution-spec.md:199` says "A bounded controller sweep
   expires invalid pending decisions without an owner reply".
3. *Hidden repeat* (`RepeatNotHidden`, `MCEffectRepeat.cfg`, `broker/server.go:163`). A repeated
   `ExecuteToolCall` that races its twin is answered with an ordinary failure
   while the effect executes. The effect itself is not repeated.
   `docs/architecture/external-effect-journal.md:118` says "A repeated Broker RPC
   returns the same uncertain effect metadata".
4. *Overtaken approval* (`SuspendedRunWaits`, `MCExecutionSuspend.cfg`, `orchestrator/recovery.go:361`). A
   worker that lost its claim resumes an earlier decision and moves the run out of
   `awaiting_approval` while a later approval is pending. Nothing is dispatched,
   but the owner's later decision finds a run that cannot be resumed.
   `docs/architecture/durable-execution-spec.md:135` counts "an exact suspended
   approval" among the recoverable boundaries.
5. *Two profiles of a model* (`PromisedWithinBudget`, `MCModelMemory.cfg`,
   `internal/localmodels/manager.go:541`). `acquireRAM` credits the resident worker of the
   same model, but `ensure` stops that worker when the profile differs
   (`process.go:192`), so the credited memory is promised once more. With the deployed
   catalog (text and image embeddings by one model, extraction in the other lane;
   units of 512 MiB) 12 units are promised of 11. `PromisedUpToCredit`, which the run
   `local_models` checks and `GateKeepsBudget` proves, says how far this can go.
   `docs/architecture/local-model-service.md:53` says "A shared admission gate prevents
   simultaneous cold loads from promising the same RAM".
6. *Monitor behind an outage* (`LaterSlotCanStart`, `MCScheduleMonitor.cfg`,
   `orchestrator/scheduled/worker.go:189`). A monitor admits a later slot while its earlier input
   is blocked by a provider outage, but `Claim` (`input/store.go:171`) never passes a
   blocked head of the session. `docs/architecture/research-followups.md:106` says "A
   monitor may attempt a later finite slot after a known provider outage".

## 5. Proofs

`tlapm <module>.tla` checks them, for the eight modules named `...Proofs`. Two of them
cover two components each: `AuthorityPoolProofs` also `SessionOwnership`, the other half of
the same Go package, and `BudgetProofs` also `AuxiliaryJobs`. The specifications of these two
have names of their own (`SessionSpec`, `JobsSpec`) so that one module can extend both.

The theorems hold for any sets of executors, runs, handlers, admissions, scopes, workers, jobs,
sweepers, timings, profiles and processes and any bounds; the assumptions are those of the
modules: bounds, limits and charges are natural numbers, scopes a finite set of
them, the lifetime is positive, `NoRun` is not a run, methods are among the known
ones, a handler of an auxiliary job is shorter than its claim, a pool has at least
two connections, and its users are finitely many, each of one kind; every input has a
session, at least one attempt is allowed, no intent is 0 (the call not made yet), no worker is called like an absent or a
dead owner and no sweeper `"none"`; timings have a positive period, a calendar day, a maximum and an expiry are positive,
the requests to the local models are finitely many, their queue has room for one, each profile belongs to
a lane, and its peak memory is positive. `Inv` of `InputQueueProofs` and `ExecutionProofs` was also checked by TLC as an
invariant, on the instances of the runs and, for `Execution`, with two faults and one call
(1.7 million states up to symmetry); so were `Inv` of `SchedulesProofs` on the instance of its run, and `Inv` and `Budgeted` of
`LocalModelsProofs` on that of theirs and for the deployed catalog of finding 5 (4 million states).

**SessionOwnership.** `OwnershipExclusive` and `WritesFollowEpochs` are not
inductive: that a write carries the current epoch depends on the guard pinning
the row, and that on lease ids never being reused. `IInv` adds `LeasesUnique` (lease
ids are issued in order and no two executors hold the same one), `GuardsHaveTokens` and `EpochsPositive`.
`TypeCorrect`, `Exclusive`, `GuardsPin` and `NoStaleWrite` follow. `Refinement`
shows that each step is a step of `Fence` under the mapping of epoch and log, or
a stutter: acquisition and revocation advance the epoch by one, and only a
guarded or committed write appends.

**EffectJournal.** `DispatchedAtMostOnce` rests on the whole history of one
authorization id. `IInv` has `IdsUnique` (grants of different runs have different
ids), `LedgersAgree`, `OneDispatch` (only the effect's own
authorization has a dispatch row, and only after the states before dispatch), `CallsBound` and `OneClaimant` (handlers past
`Claim` hold the dispatched id, and only one is about to send), `OneRequest` (at most that
request is on the wire, and only while the recipient is untouched; an observation
is what the recipient has) and `VerdictTruthful`. One lemma per action shows that
it keeps `IInv`; `HandlerMoves` and `Untouched` serve those that change little.
`TypeCorrect`, `AtMostOnce`, `Agreement`, `Truthful` and `Final` follow, the last
as an action property.

**Budget.** `WithinLimit` is not inductive: that a commit keeps the limit depends on
what was read before. `Inv` adds `LocksExclude` (a scope locked by an admission is locked
by nobody else), `WrittenUnderLock` (what an admission has written is still the row's
value plus its charge, and fits), `Progress` (every scope wanted has a row from the
reservation on, and at commit all of them are locked) and `ReservingExcludes` (one
transaction at a time reserves an operation, and only one not reserved yet). `LimitsHold` and
`ChargesAreAtomic` follow. `NoDeadlock` is the argument the comment at
`budget/postgres.go:152` appeals to: `Behind` orders transactions by stage
(making rows, reserving, charging) and, within a loop, by the scope they stand at, with the
live scopes last among the rows to make. A waiting transaction is behind
the one it waits for (`WaitsForFarther`, from `InOrder`: what a transaction holds lies before
where it stands), and `Behind` is irreflexive and transitive (`BehindIsAnOrder`). So
there is no circle of waits among any number of transactions. `SomeoneProceeds` draws the
conclusion `NoCircularWait`: of any open transactions one is farthest (`Farthest`: there are five
stages, and of the transactions in one stage take one with a minimal set of scopes ahead
of it; the scopes are finitely many), and that one waits for nobody.

**AuthorityPool.** The counters have to be read off the places of the actors. `Inv` says
so for slots (`SlotsHeld`: those of the guards plus what the one mutation under way has
taken) and connections (`ConnsHeld`), with `OneMutation` (the mutex belongs to it),
`TakenRight` (from its connection on it has all slots) and `Kinds` (where each kind of
actor may stand). `AtMoves` counts what one actor's move changes; `HolderMoves` and
`MutatorMoves` then carry `Inv` over every step that takes or gives back what the
new place needs. `NoLeak` is `Inv` regrouped. For `WritesGetConnections`: a mutation with
a connection has all slots, so no guard of its process has one; otherwise guards
have at most half of the pool, which is less than the pool from two connections on.

**DeliveryOutbox.** That a chunk arrives once depends on who knows what about it. `Inv`
adds `Held` (a busy worker's chunk is being sent under its claim or already given up as
unknown, and all before it were sent), `OneWorker`, `RowsMatch` (what the rows say the
owner has) and `WorkersMatch` (what a worker with an unreported send may conclude).
A chunk with a doubtful send is never pending again, so it is never sent again, and
never sent, so nothing after it is claimed. `OnceInOrder` and `RowsTellTheTruth` (the part of
`ReportsAreTrue` about single chunks) follow.

**AuxiliaryJobs.** `NoOverlap` needs `ClaimOutlastsWork`: while a worker is at its job, the time
left of the claim and the time spent add up to the claim's length, so the sweep at
the head of `ClaimAuxiliary` cannot reopen the job (`JobsSweepSparesHeld`). `HandedToOne` follows.

**InputQueue.** No property is inductive by itself: a receipt is true because of what its worker saw
of the run before it wrote it, and the worker may have lost its claim since. `Inv` has
`ClaimsHeld` (a live claim is that of a running input, in the hands of the worker at it with
its attempt number, or of a dead one), `ReportsHold` (what a worker is about to report: `completed`
only of a completed run, whoever owns the claim; `waiting_for_user`, as long as it owns the
claim, only while the approval is pending or the continuation ready), `CancelledRuns` (a
cancelled input has no run that could still get to work), `Untouched` (nobody works on an
input that is not accepted or has no target yet), and `AttemptsInHand` and `AttemptsSpent`, which
bound the attempts by `max_attempts` plus one for each crash and stall. Most steps of a
worker change one input and of it only run, checkpoint and approval: `OwnMove` says so and
one lemma carries `Inv` over it. `SessionOrder`, `TrueReceipts`, `NoWakeupIsLost` and the
action property `WhatIsClosedStaysClosed` follow.

**Execution.** The rows of a run are written by whoever owns the claim, under its lease, and
by late workers that own neither. `Inv` says what each may rely on:

* `Rows` and `CallRows`: what run, input, transcript, approvals and the calls sent say of each
  other. A call that was sent and whose outcome is not known is the one of the
  current `tool_dispatching` or `tool_result_recorded` checkpoint; a pending approval that of
  `awaiting_approval`.
* `Place(w)` and `InRun(w)`: what the place of a worker says of its own copies, and that with
  the lease, from its acquisition on, the run is in the state the worker believes, or was failed
  by a worker that `AcquireLease` had refused, which only an early run or one in
  `model_running` allows.
* `AsOwner(w)` and `AsActive(w)`: what the claim keeps from the others. The boundary an owner
  has loaded is still the one in the row, or has become ready by a decision; on its way to
  the next checkpoint every outcome is recorded except that of the call in hand, and a proposed call
  has not been sent and carries the approval it needs.
* `Tied(w)`: what stays true without a claim. A worker inside a model turn or a tool call finds the
  `model_budget_reserved` or `tool_dispatching` checkpoint it wrote, since `Resume` goes
  past such a boundary only by stopping.
* `Apart(v, w)`: no two workers are inside a turn or a call, and while one is, no owner is on its way to
  a checkpoint, even after claim and lease have passed on.

The last two are what makes a lost claim harmless, and are why the first ones
are inductive at all. Each action has a lemma. Those that write nothing but the worker's own state share
`LocalOK`, `QuitOK` and `ForwardOK`; for the others `OthersPlace`, `OwnerOK` and `OpenOK` reduce
`Inv'` to what the step did to its own worker and to the rows. The four action properties
look at the fourteen actions that write what they speak of (`Writers`) and refute, from `Inv`, the cases that would break
them: for example a second owner that could write past a finalizing checkpoint, or a turn
begun by a worker whose run was failed meanwhile.

**Schedules.** That a slot is not served twice depends on what a sweeper read before it
waited, and on every revision before. `Inv` of `SchedulesProofs` has

* `Rows`: each consumed slot lies before `next_at`, none was recorded before its time, an
  unfinished input is of the current revision, and an admission of the current revision was in its grace;
* `Ordered` and `Single`: the consumed slots ascend, and one input at most stands in the way of the next;
* `Counted`: `occurrence_count` is the number of consumed rows, and an unfinished job has room;
* `Holding`: while a sweeper has the row, the job is active, the slot it is about to record is
  neither before `next_at` nor ahead of the clock, and its successor lies after it;
* `OnGrid`: the next slot of a daily timing is one of its slots, without which the latest slot due
  could lie before the first one.

The calendar lemmas (`LatestBounds`, `NextAfterBounds`, `DueBounds`) say that `Due` looks neither
behind `next_at` nor ahead of the clock and that `NextAfter` moves on; an updated timing starts after the
clock, which no recorded slot has passed. One lemma per action then gives `EachSlotOnce`, `UsageCounted`,
`NoOverlappingInputs` and `InTime`. The second reading of the clock in `Admit` is what `InTime` rests on.

**LocalModels.** `Inv` has the slots of a lane as the sum of its queue, its pending jobs and the calls
between two selects (`Slots`), that a lane only has jobs of its own (`Jobs`), and what is known of the worker
process at each place of the loop (`WorkerOK`): it is the one the status names, it does not hold more
than the peak of its profile, a run that is admitted finds no worker or one of its model and device, and a
killed one is only seen by the sample that follows. `Only` says that a step changes one lane.
`NoSlotIsLost` and `LanesAreTidy` follow. `GateKeepsBudget` needs `Budgeted` as well: whatever the catalog, an
admitted run has reserved what its worker may still grow by, except for a credit (`Credits`), and either lane alone stays
within the budget. A run that is being admitted counts with its whole peak; only the run of the other lane may by then have
lost the worker it was credited with, so one credit at most is missing from the sum. Each step either leaves promises, reservations and credits
as they are, lowers a promise, or is the admission itself, which fits by the gate's own check (`AcquireFits`).

## 6. Only model-checked

Liveness everywhere (the prover has no fairness and no `ENABLED`); of `DeliveryOutbox` the aggregate state in
`ReportsAreTrue`, a fold over the chunks, whose value for every number of them takes an
induction over data. What the findings contradict is of course not proved: `AttemptsBounded`
of `InputQueue`, `SuspendedRunWaits` of `Execution`, `PromisedWithinBudget` of `LocalModels`, and `LaterSlotCanStart` of `Schedules`. All other invariants and action properties of the runs are theorems. The reductions between layers (section 2) are arguments, not
refinement checks.

## 7. Not modelled

* Tool, browser, workspace and converter runtimes, model providers, Telegram and
  web channels: I/O. What they answer is a nondeterministic choice.
* HTTP and gRPC handlers, configuration, migrations, clients: no shared state of
  their own.
* Restart helper and migrator: operational processes around the orchestrator.
* The Redis lease store: the earlier lease, with TTL keys in place of epochs.
* Memory jobs: a claim queue of the same shape as the auxiliary jobs.
* Goals, initiative, delegation and the task tree: owner-facing data behind revision
  checks in one transaction each.
* Private interactions, widgets, tab selections and legacy approvals: further
  reasons to park an execution, where `InputQueue` and `Execution` have approvals.
* Owner reviews of effect outcomes, and the upgrade of effect rows from before the
  fingerprints, which changes no state.
* Drafts that the orchestrator itself rejects (`rejectDraft`): their calls are answered
  in the transcript and never prepared or dispatched.
* The function-calling backend around the worker of the CPU lane
  (`apps/local-models/main.go:72`, `localmodels/function_backend.go:210`): a server of its own, for a profile
  the deployed catalog disables.
* Where a modelled part consults one that another module has or none has (budget
  admission in `Execution`, mandates, credentials) it may answer either way.
* Text, notifications, the transition log and metrics: nothing modelled reads
  them.

The hazards that no property covers are in `PROJECT.json` with the reason.
