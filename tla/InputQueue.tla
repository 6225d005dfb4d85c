----------------------------- MODULE InputQueue -----------------------------
(***************************************************************************)
(* Durable inputs: admission, the session-ordered claim queue, the workers *)
(* that execute an input under its claim and its session's lease, the      *)
(* approval that suspends it and the sweeps that clean up after everybody. *)
(*                                                                         *)
(* What the orchestrator does during an execution is reduced here to what  *)
(* it does to the input, to the class of its run's state and to its        *)
(* approval; Execution has the steps of one.  A fenced write is one step:  *)
(* AuthorityPoolProofs shows that a guard pins its lease.                  *)
(***************************************************************************)
EXTENDS Naturals

CONSTANTS
    Inputs,         \* number of inputs; their order is session_sequence
    Session,        \* Session[i]: the session of input i
    Workers,        \* input workers of all processes
    MaxAttempts,    \* accepted_inputs.max_attempts: 3
    MaxCrashes,     \* bound: worker processes dying, leases not released
    MaxStalls,      \* bound: claims or leases of a live worker running out
    MaxSuspends     \* bound: approvals one input asks for

Input == 1..Inputs

ASSUME QueueAssumption ==
    /\ Inputs \in Nat \ {0} /\ MaxAttempts \in Nat \ {0}
    /\ MaxCrashes \in Nat /\ MaxStalls \in Nat /\ MaxSuspends \in Nat
    /\ DOMAIN Session = Input

Sessions == {Session[i] : i \in Input}

VARIABLES
    status,         \* accepted_inputs.status; "none" before acceptance
    checkpoint,     \* accepted_inputs.checkpoint, "progress" for every execution stage
    ambiguous,      \* error_code='task_target_required'
    attempts,
    claim_id,       \* the worker of the claim, "" or Orphan
    claim_live,     \* claim_expires_at>clock_timestamp()
    overdue,        \* expires_at<=clock_timestamp()
    run,            \* class of the run's current_state
    approval,       \* status of the run's latest approval
    approval_due,   \* its expires_at<=clock_timestamp()
    lease,          \* lease[s]: holder of the session's live lease
    worker,         \* worker[w]: where process(r) is, and the record r it claimed
    sweep,          \* inputs whose approvals ExpireInvalidPending still has to review
    suspends, crashes, stalls,
    executions      \* history: executions that count against max_attempts

columns == <<status, checkpoint, ambiguous, attempts, claim_id, claim_live, overdue>>
vars == <<columns, run, approval, approval_due, lease, worker, sweep, suspends, crashes, stalls, executions>>

Nobody == ""
Orphan == "orphan"      \* the claim or lease of an execution that is no more

ASSUME WorkerNames == Nobody \notin Workers /\ Orphan \notin Workers

Idle == [at |-> "idle", input |-> 0, attempts |-> 0, counted |-> FALSE, result |-> "none"]

Terminal == {"completed", "failed", "expired", "cancelled"}
Parked == {"waiting_for_user", "blocked"}
RunEnded == {"completed", "failed", "cancelled"}
Results == {"completed", "waiting_for_user", "blocked", "expired", "retry_exhausted",
            "prior_attempt_terminal", "session_busy", "retry_pending", "error"}

Places == {"idle", "claimed", "starting", "resuming", "leasing", "leased", "finalizing",
           "returning", "returned"}

TypeOK ==
    /\ status \in [Input -> {"none", "queued", "running"} \cup Parked \cup Terminal]
    /\ checkpoint \in [Input -> {"accepted", "progress", "awaiting_approval", "approval_ready"}]
    /\ ambiguous \in [Input -> BOOLEAN]
    /\ attempts \in [Input -> 0..(MaxAttempts + 1 + MaxCrashes + MaxStalls)]
    /\ claim_id \in [Input -> Workers \cup {Nobody, Orphan}]
    /\ claim_live \in [Input -> BOOLEAN]
    /\ overdue \in [Input -> BOOLEAN]
    /\ run \in [Input -> {"none", "early", "active", "awaiting_approval"} \cup RunEnded]
    /\ approval \in [Input -> {"none", "pending", "approved", "refused"}]
    /\ approval_due \in [Input -> BOOLEAN]
    /\ lease \in [Sessions -> Workers \cup {Nobody, Orphan}]
    /\ worker \in [Workers -> [at : Places,
                               input : 0..Inputs, attempts : Nat, counted : BOOLEAN,
                               result : Results \cup {"none"}]]
    /\ sweep \subseteq Input
    /\ suspends \in [Input -> 0..MaxSuspends]
    /\ crashes \in 0..MaxCrashes /\ stalls \in 0..MaxStalls
    /\ executions \in [Input -> 0..(MaxAttempts + 1)]

Init ==
    /\ status = [i \in Input |-> "none"]
    /\ checkpoint = [i \in Input |-> "accepted"]
    /\ ambiguous = [i \in Input |-> FALSE]
    /\ attempts = [i \in Input |-> 0]
    /\ claim_id = [i \in Input |-> Nobody]
    /\ claim_live = [i \in Input |-> FALSE]
    /\ overdue = [i \in Input |-> FALSE]
    /\ run = [i \in Input |-> "none"]
    /\ approval = [i \in Input |-> "none"]
    /\ approval_due = [i \in Input |-> FALSE]
    /\ lease = [s \in Sessions |-> Nobody]
    /\ worker = [w \in Workers |-> Idle]
    /\ sweep = {}
    /\ suspends = [i \in Input |-> 0]
    /\ crashes = 0 /\ stalls = 0
    /\ executions = [i \in Input |-> 0]

Earlier(i) == {h \in 1..(i - 1) : Session[h] = Session[i]}

-----------------------------------------------------------------------------
(* Admission and time *)

\* acceptTx under the session row lock: sequence numbers are visible in order.
\* A repeated delivery finds its row and changes nothing.
Accept(i) ==
    /\ status[i] = "none" /\ \A h \in Earlier(i) : status[h] # "none"
    /\ \E wait \in BOOLEAN :        \* Accept or AcceptWaiting
        /\ status' = [status EXCEPT ![i] = IF wait THEN "waiting_for_user" ELSE "queued"]
        /\ ambiguous' = [ambiguous EXCEPT ![i] = wait]
    /\ UNCHANGED <<checkpoint, attempts, claim_id, claim_live, overdue, run, approval, approval_due,
                   lease, worker, sweep, suspends, crashes, stalls, executions>>

\* ResolveAmbiguousForControlTx for a session (also the first UPDATE of AdmitControlTx).
ResolveAmbiguous(s) ==
    /\ status' = [i \in Input |-> IF Session[i] = s /\ status[i] = "waiting_for_user" /\ ambiguous[i]
                                    THEN "cancelled" ELSE status[i]]
    /\ status' # status
    /\ UNCHANGED <<checkpoint, ambiguous, attempts, claim_id, claim_live, overdue, run, approval,
                   approval_due, lease, worker, sweep, suspends, crashes, stalls, executions>>

Deadline(i) ==
    /\ status[i] \notin Terminal \cup {"none"} /\ ~overdue[i]
    /\ overdue' = [overdue EXCEPT ![i] = TRUE]
    /\ UNCHANGED <<status, checkpoint, ambiguous, attempts, claim_id, claim_live, run, approval,
                   approval_due, lease, worker, sweep, suspends, crashes, stalls, executions>>

ApprovalDeadline(i) ==
    /\ approval[i] \in {"pending", "approved"} /\ ~approval_due[i]
    /\ approval_due' = [approval_due EXCEPT ![i] = TRUE]
    /\ UNCHANGED <<columns, run, approval, lease, worker, sweep, suspends, crashes, stalls, executions>>

\* A claim nobody renews runs out; so does, rarely, that of a slow worker.
ClaimExpires(i) ==
    /\ claim_live[i]
    /\ claim_live' = [claim_live EXCEPT ![i] = FALSE]
    /\ \/ claim_id[i] = Orphan /\ UNCHANGED stalls
       \/ claim_id[i] # Orphan /\ stalls < MaxStalls /\ stalls' = stalls + 1
    /\ UNCHANGED <<status, checkpoint, ambiguous, attempts, claim_id, overdue, run, approval,
                   approval_due, lease, worker, sweep, suspends, crashes, executions>>

LeaseExpires(s) ==
    /\ lease[s] # Nobody
    /\ lease' = [lease EXCEPT ![s] = Nobody]
    /\ \/ lease[s] = Orphan /\ UNCHANGED stalls
       \/ lease[s] # Orphan /\ stalls < MaxStalls /\ stalls' = stalls + 1
    /\ UNCHANGED <<columns, run, approval, approval_due, worker, sweep, suspends, crashes, executions>>

\* ExpireQueued, before every claim attempt of every worker.
ExpireQueued ==
    /\ status' = [i \in Input |-> IF status[i] = "queued" /\ overdue[i] THEN "expired" ELSE status[i]]
    /\ status' # status
    /\ UNCHANGED <<checkpoint, ambiguous, attempts, claim_id, claim_live, overdue, run, approval,
                   approval_due, lease, worker, sweep, suspends, crashes, stalls, executions>>

-----------------------------------------------------------------------------
(* Claim and process *)

\* Mutant: only waiting and running predecessors block a session.
Candidate_SkipBlocked(i) ==
    /\ status[i] \in {"queued", "running"} /\ ~claim_live[i]
    /\ \A h \in Earlier(i) : status[h] \in Terminal \cup {"blocked"}

\* Mutant: an input left running by a dead worker is not taken over.
Candidate_OnlyQueued(i) ==
    /\ status[i] = "queued" /\ ~claim_live[i]
    /\ \A h \in Earlier(i) : status[h] \in Terminal

\* The candidates of Claim; not_before only delays one.
Candidate(i) ==
    /\ status[i] \in {"queued", "running"} /\ ~claim_live[i]
    /\ \A h \in Earlier(i) : status[h] \in Terminal

\* An owner's decision queued for continuation takes no attempt.
Continuation(i) == checkpoint[i] = "approval_ready" /\ status[i] = "queued"

Claim(w, i) ==
    /\ worker[w].at = "idle" /\ Candidate(i)
    /\ status' = [status EXCEPT ![i] = "running"]
    /\ attempts' = [attempts EXCEPT ![i] = IF Continuation(i) THEN @ ELSE @ + 1]
    /\ claim_id' = [claim_id EXCEPT ![i] = w]
    /\ claim_live' = [claim_live EXCEPT ![i] = TRUE]
    /\ worker' = [worker EXCEPT ![w] = [at |-> "claimed", input |-> i, attempts |-> attempts'[i],
                                        counted |-> ~Continuation(i), result |-> "none"]]
    /\ UNCHANGED <<checkpoint, ambiguous, overdue, run, approval, approval_due, lease, sweep,
                   suspends, crashes, stalls, executions>>

\* input_id, claim_id, status='running' and the live claim, in every write of a worker.
OwnsClaim(w) ==
    LET i == worker[w].input IN claim_id[i] = w /\ claim_live[i] /\ status[i] = "running"

OwnsLease(w) == lease[Session[worker[w].input]] = w

\* The executor is done, with the lease still to be released, or without one.
Leave(w, result) == [worker EXCEPT ![w].at = "returning", ![w].result = result]
Return(w, result) == [worker EXCEPT ![w].at = "returned", ![w].result = result]

\* The checks process makes before it executes anything; the run of an earlier
\* attempt may not be found.
Process(w) ==
    LET i == worker[w].input IN
    /\ worker[w].at = "claimed"
    /\ \/ worker' = CASE overdue[i] -> Return(w, "expired")
                      [] ~overdue[i] /\ worker[w].attempts > MaxAttempts -> Return(w, "retry_exhausted")
                      [] OTHER ->
                         CASE run[i] = "completed" -> Return(w, "completed")
                           [] run[i] \in {"failed", "cancelled"} -> Return(w, "prior_attempt_terminal")
                           [] run[i] \in {"none", "early"} -> [worker EXCEPT ![w].at = "starting"]
                           [] OTHER -> [worker EXCEPT ![w].at = "resuming"]
       \/ /\ ~overdue[i] /\ worker[w].attempts <= MaxAttempts /\ run[i] # "none"
          /\ worker' = Return(w, "blocked")
    /\ UNCHANGED <<columns, run, approval, approval_due, lease, sweep, suspends, crashes, stalls, executions>>

-----------------------------------------------------------------------------
(* Execute and Resume *)

\* Execute: CreateRun finds the run of the accepted identity or creates it; the
\* run_created checkpoint needs the claim.
Start(w) ==
    LET i == worker[w].input IN
    /\ worker[w].at = "starting"
    /\ run' = [run EXCEPT ![i] = IF @ = "none" THEN "early" ELSE @]
    /\ IF OwnsClaim(w)
         THEN /\ checkpoint' = [checkpoint EXCEPT ![i] = "progress"]
              /\ worker' = [worker EXCEPT ![w].at = "leasing"]
         ELSE UNCHANGED checkpoint /\ worker' = Return(w, "error")
    /\ UNCHANGED <<status, ambiguous, attempts, claim_id, claim_live, overdue, approval, approval_due,
                   lease, sweep, suspends, crashes, stalls, executions>>

\* Resume looks at the decision before it takes the lease.
ReadDecision(w) ==
    LET i == worker[w].input IN
    /\ worker[w].at = "resuming"
    /\ worker' = CASE run[i] = "awaiting_approval" /\ approval[i] = "pending" -> Return(w, "waiting_for_user")
                   [] run[i] = "awaiting_approval" /\ approval[i] = "refused" -> Return(w, "blocked")
                   [] OTHER -> [worker EXCEPT ![w].at = "leasing"]
    /\ UNCHANGED <<columns, run, approval, approval_due, lease, sweep, suspends, crashes, stalls, executions>>

AcquireLease(w) ==
    LET i == worker[w].input IN
    /\ worker[w].at = "leasing"
    /\ IF lease[Session[i]] = Nobody
         THEN /\ lease' = [lease EXCEPT ![Session[i]] = w]
              /\ worker' = [worker EXCEPT ![w].at = "leased"]
              /\ executions' = [executions EXCEPT ![i] =
                    IF worker[w].counted /\ @ <= MaxAttempts THEN @ + 1 ELSE @]
         ELSE worker' = Return(w, "session_busy") /\ UNCHANGED <<lease, executions>>
    /\ UNCHANGED <<columns, run, approval, approval_due, sweep, suspends, crashes, stalls>>

\* Preparation up to model_running: its checkpoints need the claim, its
\* transitions the lease.
Prepare(w) ==
    LET i == worker[w].input IN
    /\ worker[w].at = "leased" /\ run[i] = "early" /\ OwnsLease(w) /\ OwnsClaim(w)
    /\ run' = [run EXCEPT ![i] = "active"]
    /\ checkpoint' = [checkpoint EXCEPT ![i] = "progress"]
    /\ UNCHANGED <<status, ambiguous, attempts, claim_id, claim_live, overdue, approval, approval_due,
                   lease, worker, sweep, suspends, crashes, stalls, executions>>

\* The approved action is verified once more under the lease, then dispatched.
ContinueApproved(w) ==
    LET i == worker[w].input IN
    /\ worker[w].at = "leased" /\ run[i] = "awaiting_approval" /\ OwnsLease(w)
    /\ IF approval[i] # "approved" \/ approval_due[i]
         THEN worker' = Leave(w, "blocked") /\ UNCHANGED <<run, checkpoint>>
         ELSE /\ run' = [run EXCEPT ![i] = "active"]
              /\ IF OwnsClaim(w)
                   THEN checkpoint' = [checkpoint EXCEPT ![i] = "progress"] /\ UNCHANGED worker
                   ELSE worker' = Leave(w, "error") /\ UNCHANGED checkpoint
    /\ UNCHANGED <<status, ambiguous, attempts, claim_id, claim_live, overdue, approval, approval_due,
                   lease, sweep, suspends, crashes, stalls, executions>>

\* suspendApproval: CreateDurable with SuspendApprovalTx, one fenced transaction.
Suspend(w) ==
    LET i == worker[w].input IN
    /\ worker[w].at = "leased" /\ run[i] = "active" /\ OwnsLease(w) /\ OwnsClaim(w)
    /\ suspends[i] < MaxSuspends
    /\ suspends' = [suspends EXCEPT ![i] = @ + 1]
    /\ run' = [run EXCEPT ![i] = "awaiting_approval"]
    /\ approval' = [approval EXCEPT ![i] = "pending"]
    /\ approval_due' = [approval_due EXCEPT ![i] = FALSE]
    /\ checkpoint' = [checkpoint EXCEPT ![i] = "awaiting_approval"]
    /\ worker' = Leave(w, "waiting_for_user")
    /\ UNCHANGED <<status, ambiguous, attempts, claim_id, claim_live, overdue, lease, sweep, crashes,
                   stalls, executions>>

\* finalizeExecution: the answer is checkpointed, then saved by the coordinator.
Finalize(w) ==
    LET i == worker[w].input IN
    /\ worker[w].at = "leased" /\ run[i] = "active" /\ OwnsLease(w) /\ OwnsClaim(w)
    /\ checkpoint' = [checkpoint EXCEPT ![i] = "progress"]
    /\ worker' = [worker EXCEPT ![w].at = "finalizing"]
    /\ UNCHANGED <<status, ambiguous, attempts, claim_id, claim_live, overdue, run, approval, approval_due,
                   lease, sweep, suspends, crashes, stalls, executions>>

\* Mutant: a save refused for a lost lease is reported as done.
Save_ReportAnyway(w) ==
    LET i == worker[w].input IN
    /\ worker[w].at = "finalizing" /\ run[i] = "active"
    /\ run' = [run EXCEPT ![i] = IF OwnsLease(w) THEN "completed" ELSE @]
    /\ worker' = Leave(w, "completed")
    /\ UNCHANGED <<columns, approval, approval_due, lease, sweep, suspends, crashes, stalls, executions>>

Save(w) ==
    LET i == worker[w].input IN
    /\ worker[w].at = "finalizing" /\ OwnsLease(w) /\ run[i] = "active"
    /\ run' = [run EXCEPT ![i] = "completed"]
    /\ worker' = Leave(w, "completed")
    /\ UNCHANGED <<columns, approval, approval_due, lease, sweep, suspends, crashes, stalls, executions>>

\* Mutant: UpdateRun without its current_state condition.
FailRun_NoCAS(w) ==
    LET i == worker[w].input IN
    /\ worker[w].at = "leased" /\ OwnsLease(w)
    /\ run' = [run EXCEPT ![i] = "failed"]
    /\ worker' = Leave(w, "error")
    /\ UNCHANGED <<columns, approval, approval_due, lease, sweep, suspends, crashes, stalls, executions>>

\* failRun: the run fails, if the failing worker still owns it.
FailRun(w) ==
    LET i == worker[w].input IN
    /\ worker[w].at = "leased" /\ run[i] \in {"early", "active"} /\ OwnsLease(w)
    /\ run' = [run EXCEPT ![i] = "failed"]
    /\ worker' = Leave(w, "error")
    /\ UNCHANGED <<columns, approval, approval_due, lease, sweep, suspends, crashes, stalls, executions>>

\* The execution stops and leaves the run as it is: a lost claim or lease, an
\* unknown effect, a checkpoint that cannot be resumed, a model turn or a save
\* to be tried again.
Stop(w) ==
    /\ \/ worker[w].at = "leased" /\ \E r \in {"error", "blocked", "retry_pending"} : worker' = Leave(w, r)
       \/ worker[w].at = "finalizing" /\ \E r \in {"error", "retry_pending"} : worker' = Leave(w, r)
    /\ UNCHANGED <<columns, run, approval, approval_due, lease, sweep, suspends, crashes, stalls, executions>>

\* The deferred release, which may fail and leave the lease to expire.
ReleaseLease(w) ==
    LET s == Session[worker[w].input] IN
    /\ worker[w].at = "returning"
    /\ worker' = [worker EXCEPT ![w].at = "returned"]
    /\ \/ lease' = [lease EXCEPT ![s] = IF @ = w THEN Nobody ELSE @] /\ UNCHANGED crashes
       \/ /\ OwnsLease(w) /\ crashes < MaxCrashes
          /\ crashes' = crashes + 1
          /\ lease' = [lease EXCEPT ![s] = Orphan]
    /\ UNCHANGED <<columns, run, approval, approval_due, sweep, suspends, stalls, executions>>

\* The receipt process asks Finish to write, from the executor's result.
Receipt(w) ==
    LET i == worker[w].input
        r == worker[w].result
    IN CASE r = "session_busy" -> "queued"
         [] r = "retry_pending" -> IF worker[w].attempts < MaxAttempts /\ ~overdue[i] THEN "queued" ELSE "blocked"
         [] r \in {"error", "blocked"} -> "blocked"
         [] r \in {"retry_exhausted", "prior_attempt_terminal"} -> "failed"
         [] OTHER -> r

\* Mutant: Finish parks a waiting input without looking at its checkpoint.
Finished_IgnoreReady(w) == Receipt(w)

\* A decision that came before its input was parked is not lost.
Finished(w) ==
    IF Receipt(w) = "waiting_for_user" /\ checkpoint[worker[w].input] = "approval_ready"
      THEN "queued" ELSE Receipt(w)

Refunded(n) == IF n > 0 THEN n - 1 ELSE 0

\* Finish: nothing happens to an input whose claim was lost.
Finish(w) ==
    LET i == worker[w].input IN
    /\ worker[w].at = "returned"
    /\ worker' = [worker EXCEPT ![w] = Idle]
    /\ IF OwnsClaim(w)
         THEN /\ status' = [status EXCEPT ![i] = Finished(w)]
              /\ attempts' = [attempts EXCEPT ![i] = IF worker[w].result = "session_busy" THEN Refunded(@) ELSE @]
              /\ claim_id' = [claim_id EXCEPT ![i] = Nobody]
              /\ claim_live' = [claim_live EXCEPT ![i] = FALSE]
         ELSE UNCHANGED <<status, attempts, claim_id, claim_live>>
    /\ UNCHANGED <<checkpoint, ambiguous, overdue, run, approval, approval_due, lease, sweep,
                   suspends, crashes, stalls, executions>>

\* The process of a worker dies; its claim and lease are left to expire.  A
\* shutdown lets the executor release the lease and leaves the claim.
Abandon(w, lease_left) ==
    LET i == worker[w].input IN
    /\ worker[w].at # "idle" /\ crashes < MaxCrashes
    /\ crashes' = crashes + 1
    /\ worker' = [worker EXCEPT ![w] = Idle]
    /\ claim_id' = [claim_id EXCEPT ![i] = IF @ = w THEN Orphan ELSE @]
    /\ lease' = [lease EXCEPT ![Session[i]] = IF @ = w THEN lease_left ELSE @]
    /\ UNCHANGED <<status, checkpoint, ambiguous, attempts, claim_live, overdue, run, approval, approval_due,
                   sweep, suspends, stalls, executions>>

Crash(w) == Abandon(w, Orphan)
Shutdown(w) == worker[w].at # "idle" /\ OwnsLease(w) /\ Abandon(w, Nobody)

-----------------------------------------------------------------------------
(* Decisions and sweeps *)

\* verifyAction: expired, or its run has ended.
Verified(i) == ~approval_due[i] /\ run[i] \notin RunEnded

\* ReadyApprovalTx finds the input only in these states.
Resumable(i) == status[i] \in {"running", "waiting_for_user", "blocked"}

ReadyApproval(i) ==
    /\ Resumable(i)
    /\ checkpoint' = [checkpoint EXCEPT ![i] = "approval_ready"]
    /\ status' = [status EXCEPT ![i] = IF @ = "running" THEN @ ELSE "queued"]

\* ResolveDurable on a pending approval, one transaction with ReadyApprovalTx.
ResolveDurable(i, approved) ==
    /\ approval[i] = "pending"
    /\ approval' = [approval EXCEPT ![i] = IF approved /\ Verified(i) /\ run[i] = "awaiting_approval"
                                             THEN "approved" ELSE "refused"]
    /\ ReadyApproval(i)
    /\ UNCHANGED <<ambiguous, attempts, claim_id, claim_live, overdue, run, approval_due, lease, worker,
                   suspends, crashes, stalls, executions>>

Decide(i) == \E approved \in BOOLEAN : ResolveDurable(i, approved) /\ UNCHANGED sweep

Invalid(i) == approval[i] = "pending" /\ (approval_due[i] \/ run[i] # "awaiting_approval")

\* ExpireInvalidPending lists the invalid approvals ...
ListInvalid ==
    /\ sweep = {}
    /\ sweep' = {i \in Input : Invalid(i)}
    /\ sweep' # {}
    /\ UNCHANGED <<columns, run, approval, approval_due, lease, worker, suspends, crashes, stalls, executions>>

\* ... and reviews them one by one: a decided or still valid one is passed over,
\* an invalid one expires, and the first error ends the sweep.
Review(i) ==
    \/ /\ approval[i] = "pending" /\ ~Verified(i)
       /\ ResolveDurable(i, FALSE)
       /\ sweep' = sweep \ {i}
    \/ /\ ~(approval[i] = "pending" /\ ~Verified(i) /\ Resumable(i))
       /\ sweep' = IF approval[i] = "pending" /\ ~Verified(i) THEN {} ELSE sweep \ {i}
       /\ UNCHANGED <<columns, run, approval, approval_due, lease, worker, suspends, crashes, stalls, executions>>

\* The order is that of requested_at, which the model does not keep: any order.
ReviewNext == \E i \in sweep : Review(i)

\* An owner control of the input's task: ApplyWithGuard revokes the session's
\* lease when it is held for the task's run, and closes input, approval and run.
OwnerControl(i) ==
    LET s == Session[i] IN
    /\ status[i] \notin Terminal \cup {"none"}
    /\ status' = [status EXCEPT ![i] = "cancelled"]
    /\ claim_id' = [claim_id EXCEPT ![i] = Nobody]
    /\ claim_live' = [claim_live EXCEPT ![i] = FALSE]
    /\ ambiguous' = [ambiguous EXCEPT ![i] = FALSE]
    /\ approval' = [approval EXCEPT ![i] = IF @ = "pending" THEN "refused" ELSE @]
    /\ run' = [run EXCEPT ![i] = IF @ \in RunEnded \cup {"none"} THEN @ ELSE "cancelled"]
    /\ \E revoked \in {h \in {lease[s]} : h = Orphan \/ (h \in Workers /\ worker[h].input = i)} \cup {"none"} :
          /\ lease[s] \in Workers /\ worker[lease[s]].input = i => revoked = lease[s]
          /\ lease' = [lease EXCEPT ![s] = IF @ = revoked THEN Nobody ELSE @]
    /\ UNCHANGED <<checkpoint, attempts, overdue, approval_due, worker, sweep, suspends, crashes, stalls, executions>>

\* finalizeStoppedMode: nobody executes the input and nobody is asked about it.
StoppedAttempt(i) ==
    /\ status[i] \in {"blocked", "failed"} /\ run[i] \notin {"none", "completed"}
    /\ ~claim_live[i] /\ lease[Session[i]] = Nobody
    /\ ~(status[i] = "blocked" /\ approval[i] = "pending" /\ ~approval_due[i])

FinalizeStopped(i) ==
    /\ StoppedAttempt(i)
    /\ status[i] = "blocked" \/ run[i] \notin RunEnded
    /\ status' = [status EXCEPT ![i] = "failed"]
    /\ claim_id' = [claim_id EXCEPT ![i] = Nobody]
    /\ run' = [run EXCEPT ![i] = IF @ \in RunEnded THEN @ ELSE "failed"]
    /\ UNCHANGED <<checkpoint, ambiguous, attempts, claim_live, overdue, approval, approval_due, lease, worker,
                   sweep, suspends, crashes, stalls, executions>>

-----------------------------------------------------------------------------
Work(w) ==
    \/ \E i \in Input : Claim(w, i)
    \/ Process(w) \/ Start(w) \/ ReadDecision(w) \/ AcquireLease(w)
    \/ Prepare(w) \/ ContinueApproved(w) \/ Suspend(w) \/ Finalize(w) \/ Save(w) \/ FailRun(w) \/ Stop(w)
    \/ ReleaseLease(w) \/ Finish(w)

Next ==
    \/ \E i \in Input :
          \/ Accept(i) \/ Deadline(i) \/ ApprovalDeadline(i) \/ ClaimExpires(i)
          \/ Decide(i) \/ OwnerControl(i) \/ FinalizeStopped(i)
    \/ \E s \in Sessions : ResolveAmbiguous(s) \/ LeaseExpires(s)
    \/ \E w \in Workers : Work(w) \/ Crash(w) \/ Shutdown(w)
    \/ ExpireQueued \/ ListInvalid \/ ReviewNext

Spec == Init /\ [][Next]_vars

\* Workers poll and their executions are bounded in time; clocks advance; the
\* maintenance loop comes round.  Owners, crashes and stalls owe nothing.
Fairness ==
    /\ \A w \in Workers : WF_vars(Work(w))
    /\ \A i \in Input : WF_vars(Deadline(i)) /\ WF_vars(ClaimExpires(i) /\ UNCHANGED stalls) /\ WF_vars(ApprovalDeadline(i))
    /\ \A s \in Sessions : WF_vars(LeaseExpires(s) /\ UNCHANGED stalls)
    /\ WF_vars(ExpireQueued) /\ WF_vars(ListInvalid) /\ WF_vars(ReviewNext)

FairSpec == Spec /\ Fairness

-----------------------------------------------------------------------------
(* Properties *)

\* Inputs of a session are executed in the order they were accepted: when Claim
\* gives one to a worker every earlier one of its session is closed for good.
HeadOnly ==
    \A i \in Input : status[i] = "running" => \A h \in Earlier(i) : status[h] \in Terminal

\* What is closed stays closed: no late Finish, decision, sweep or finalizer takes
\* a closed input back into the queue, and how a run ended is never rewritten,
\* although a worker that was about to take its lease when the owner or the
\* finalizer closed the run goes on to fail it.  An owner's control is final: the run
\* of a cancelled input does not complete afterwards, not even one a slow worker
\* creates after the control.
StaysClosed ==
    \A i \in Input :
        /\ status[i] \in Terminal => status'[i] \in Terminal
        /\ run[i] \in RunEnded => run'[i] = run[i]
        /\ status[i] = "cancelled" /\ run[i] # "completed" => run'[i] # "completed"

\* Every step of the queue keeps what is closed closed (see StaysClosed).
ClosedForever == [][StaysClosed]_vars

\* ReadyApprovalTx and Finish cannot miss each other: an input waits for its
\* owner only while there is something left to decide.
NoLostWakeup ==
    TypeOK /\ \A i \in Input : status[i] = "waiting_for_user" => ambiguous[i] \/ approval[i] = "pending"

\* A completed receipt is only written for a completed run, whatever became of
\* claims and leases in between.
ReceiptsAreTrue ==
    \A i \in Input : status[i] = "completed" => run[i] = "completed"

\* An input in the queue or in a worker's hands is eventually parked for its
\* owner or closed, crashes and lost claims included.
EveryInputSettles ==
    \A i \in Input : status[i] \in {"queued", "running"} ~> status[i] \in Parked \cup Terminal

\* The claims that consume an attempt are bounded by max_attempts.
AttemptsBounded == \A i \in Input : executions[i] <= MaxAttempts

\* The sweep expires an invalid pending decision without an owner's reply.
InvalidPendingExpires ==
    \A i \in Input : Invalid(i) ~> approval[i] # "pending"
=============================================================================
