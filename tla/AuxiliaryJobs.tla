--------------------------- MODULE AuxiliaryJobs ---------------------------
(***************************************************************************)
(* The auxiliary job queue of the completion coordinator (memory and       *)
(* summary work left behind by a completed run).  Unlike the outbox, a job *)
(* whose claim expires is handed out again, so the five minute claim must  *)
(* outlast the four minutes a handler gets.  Time is counted in ticks of a *)
(* minute, the same for every process.                                     *)
(***************************************************************************)
EXTENDS Naturals, FiniteSets

CONSTANTS
    Jobs, Workers,
    ClaimTicks,     \* claim_until - now at a claim: 5 minutes
    WorkTicks,      \* the handler's timeout: 4 minutes
    MaxAttempts,    \* 8 in the code
    MaxCrashes      \* bound: worker crashes

\* The durations of the code make sense: a claim outlasts a handler.
ASSUME AuxAssumption ==
    /\ ClaimTicks \in Nat /\ WorkTicks \in Nat /\ MaxAttempts \in Nat \ {0} /\ MaxCrashes \in Nat
    /\ WorkTicks < ClaimTicks

VARIABLES
    status,         \* completion_aux_jobs.status
    attempt_count,
    claim_id,       \* claim ids are fresh: the attempt number tells them apart
    claim_left,     \* claim_until - clock_timestamp(), 0 once it has passed
    worker,         \* worker[w]: the job w works on, its claim, and for how long
    crashes

jobsVars == <<status, attempt_count, claim_id, claim_left, worker, crashes>>

NoClaim == 0
Idle == [at |-> "idle", job |-> "none", claim |-> NoClaim, spent |-> 0, failed |-> FALSE]

JobsTypeOK ==
    /\ status \in [Jobs -> {"pending", "running", "done", "failed"}]
    /\ attempt_count \in [Jobs -> 0..MaxAttempts]
    /\ claim_id \in [Jobs -> 0..MaxAttempts]
    /\ claim_left \in [Jobs -> 0..ClaimTicks]
    /\ worker \in [Workers -> [at : {"idle", "working", "finishing"}, job : Jobs \cup {"none"},
                               claim : 0..MaxAttempts, spent : 0..WorkTicks, failed : BOOLEAN]]
    /\ crashes \in 0..MaxCrashes

\* The rows as Coordinator.Save inserts them.
JobsInit ==
    /\ status = [j \in Jobs |-> "pending"]
    /\ attempt_count = [j \in Jobs |-> 0]
    /\ claim_id = [j \in Jobs |-> NoClaim]
    /\ claim_left = [j \in Jobs |-> 0]
    /\ worker = [w \in Workers |-> Idle]
    /\ crashes = 0

-----------------------------------------------------------------------------
\* Mutant: the handler's context has no deadline.
Tick_NoHandlerTimeout ==
    /\ claim_left' = [j \in Jobs |-> IF claim_left[j] > 0 THEN claim_left[j] - 1 ELSE 0]
    /\ claim_left' # claim_left
    /\ UNCHANGED <<status, attempt_count, claim_id, worker, crashes>>

\* A minute passes.  The handler's context ends after WorkTicks, and the finish
\* write has only seconds: neither outlives the tick.
Tick ==
    /\ \A w \in Workers : worker[w].at = "working" => worker[w].spent < WorkTicks
    /\ \A w \in Workers : worker[w].at # "finishing"
    /\ claim_left' = [j \in Jobs |-> IF claim_left[j] > 0 THEN claim_left[j] - 1 ELSE 0]
    /\ worker' = [w \in Workers |->
                    IF worker[w].at = "working" THEN [worker[w] EXCEPT !.spent = @ + 1] ELSE worker[w]]
    /\ claim_left' # claim_left \/ worker' # worker
    /\ UNCHANGED <<status, attempt_count, claim_id, crashes>>

\* The two sweeps at the head of ClaimAuxiliary.
Expired(j) == status[j] = "running" /\ claim_left[j] = 0
Reopened(j) == IF Expired(j) THEN "pending" ELSE status[j]

\* Mutant: the sweep allows one attempt too many.
Swept_TooLate(j) ==
    IF Reopened(j) = "pending" /\ attempt_count[j] > MaxAttempts THEN "failed" ELSE Reopened(j)

Swept(j) ==
    IF Reopened(j) = "pending" /\ attempt_count[j] >= MaxAttempts THEN "failed" ELSE Reopened(j)

Claimable(j) == Swept(j) = "pending" /\ attempt_count[j] < MaxAttempts

ClaimAuxiliary(w) ==
    /\ worker[w].at = "idle"
    /\ \E j \in Jobs :
        /\ Claimable(j)
        /\ status' = [k \in Jobs |-> IF k = j THEN "running" ELSE Swept(k)]
        /\ attempt_count' = [attempt_count EXCEPT ![j] = @ + 1]
        /\ claim_id' = [k \in Jobs |-> IF k = j THEN attempt_count[j] + 1
                                       ELSE IF Expired(k) THEN NoClaim ELSE claim_id[k]]
        /\ claim_left' = [claim_left EXCEPT ![j] = ClaimTicks]
        /\ worker' = [worker EXCEPT ![w] = [at |-> "working", job |-> j, claim |-> attempt_count[j] + 1,
                                            spent |-> 0, failed |-> FALSE]]
    /\ UNCHANGED crashes

\* Nothing to claim: the sweeps are committed all the same.
Sweep(w) ==
    /\ worker[w].at = "idle"
    /\ \A j \in Jobs : ~Claimable(j)
    /\ status' = [j \in Jobs |-> Swept(j)]
    /\ status' # status
    /\ claim_id' = [j \in Jobs |-> IF Expired(j) THEN NoClaim ELSE claim_id[j]]
    /\ UNCHANGED <<attempt_count, claim_left, worker, crashes>>

\* ProcessAuxiliary returns, with an error when its deadline passed.
HandlerReturns(w) ==
    /\ worker[w].at = "working"
    /\ \E failed \in BOOLEAN :
        /\ worker[w].spent = WorkTicks => failed
        /\ worker' = [worker EXCEPT ![w].at = "finishing", ![w].failed = failed]
    /\ UNCHANGED <<status, attempt_count, claim_id, claim_left, crashes>>

OwnsClaim(w) ==
    LET j == worker[w].job
    IN status[j] = "running" /\ claim_id[j] = worker[w].claim /\ claim_left[j] > 0

FinishAuxiliary(w) ==
    LET j == worker[w].job IN
    /\ worker[w].at = "finishing"
    /\ worker' = [worker EXCEPT ![w] = Idle]
    /\ IF OwnsClaim(w)
         THEN /\ status' = [status EXCEPT ![j] =
                    IF ~worker[w].failed THEN "done"
                    ELSE IF worker[w].claim >= MaxAttempts THEN "failed" ELSE "pending"]
              /\ claim_id' = [claim_id EXCEPT ![j] = NoClaim]
              /\ claim_left' = [claim_left EXCEPT ![j] = 0]
         ELSE UNCHANGED <<status, claim_id, claim_left>>
    /\ UNCHANGED <<attempt_count, crashes>>

\* The process dies, or the finish write fails.
Crash(w) ==
    /\ worker[w].at # "idle" /\ crashes < MaxCrashes
    /\ crashes' = crashes + 1
    /\ worker' = [worker EXCEPT ![w] = Idle]
    /\ UNCHANGED <<status, attempt_count, claim_id, claim_left>>

WorkerStep(w) == ClaimAuxiliary(w) \/ Sweep(w) \/ HandlerReturns(w) \/ FinishAuxiliary(w)

JobsNext == Tick \/ \E w \in Workers : WorkerStep(w) \/ Crash(w)

JobsSpec == JobsInit /\ [][JobsNext]_jobsVars

\* Workers poll for ever; time passes.
JobsFairSpec == JobsSpec /\ WF_jobsVars(Tick) /\ \A w \in Workers : WF_jobsVars(WorkerStep(w))

-----------------------------------------------------------------------------
(* Properties *)

\* A job is reclaimed only after its previous handler has stopped: no two live
\* workers ever process the same job (auxiliary.go:58, 103).
NoOverlap ==
    /\ JobsTypeOK
    /\ \A v, w \in Workers :
          v # w /\ worker[v].at # "idle" /\ worker[w].at # "idle" => worker[v].job # worker[w].job

\* Every job ends as done, or as failed after the last of its MaxAttempts attempts,
\* and is never handed out again, also the one whose workers crash on it
\* (auxiliary.go:62, 85).
EveryJobSettles ==
    \A j \in Jobs : \/ <>[](status[j] = "done")
                   \/ <>[](status[j] = "failed" /\ attempt_count[j] = MaxAttempts)
=============================================================================
