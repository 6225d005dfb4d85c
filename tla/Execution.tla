----------------------------- MODULE Execution -----------------------------
(***************************************************************************)
(* One accepted input and its run, step by step: Execute and Resume of the *)
(* orchestrator under the input claim and the session lease, every run     *)
(* transition and durable checkpoint they write, the model turns, the tool *)
(* calls, the approval that suspends them and the one durable model retry. *)
(*                                                                         *)
(* A guarded write is one step (AuthorityPoolProofs: a guard pins its      *)
(* lease) and reads nothing but the rows it guards; everything a worker    *)
(* keeps in memory between two steps may be stale when it is used.  The    *)
(* tool broker is reduced to what EffectJournal shows of it: an undispatched*)
(* effect is dispatched only for the live lease and a run in a tool state. *)
(***************************************************************************)
EXTENDS Naturals

CONSTANTS
    Workers,        \* input workers of all processes
    MaxCalls,       \* bound: tool calls the model proposes
    Intents,        \* tool and arguments of a call that is not read-only
    MaxAttempts,    \* accepted_inputs.max_attempts: 3
    MaxFaults       \* bound: processes dying, and claims or leases of a live worker running out

ASSUME ExecutionAssumption ==
    /\ MaxCalls \in Nat /\ MaxAttempts \in Nat \ {0}
    /\ MaxFaults \in Nat /\ 0 \notin Intents

Call == 1..MaxCalls

VARIABLES
    run,            \* runs.current_state; "none" before CreateRun
    run_lease,      \* runs.lease_id is the id of the session's latest lease
    status, attempts,
    claim,          \* worker of the live claim, Orphan or Nobody
    checkpoint,     \* accepted_inputs.checkpoint
    data,           \* checkpoint_data: tool call of a tool stage, answer of finalizing, else 0
    retry,          \* checkpoint_json.model_retry.state
    lease,          \* worker of the session's live lease, Orphan or Nobody
    messages,       \* user messages of this run in the transcript
    transcript,     \* tool_calls: recorded status of each call
    approval,       \* approvals: status of the approval of each call
    result,         \* answer saved by the completion coordinator, 0 if none
    turns, calls,   \* model turns admitted, tool calls proposed so far
    intent,         \* intent of each proposed call, 0 before
    asked,          \* ExecuteAuthorizedToolCall requests of each call
    effect,         \* action_effects.state of each call, "unknown" while executing
    at, mode,       \* where each worker is, in Execute or in Resume
    cur,            \* its copy of the run's state, the from_state of its updates
    item,           \* tool call or final answer it has in hand, 0 if none
    outcome,        \* status of the tool result, later of the execution
    seen,           \* what it read before it owned the session
    faults

row == <<run, run_lease>>
input == <<status, attempts, claim, checkpoint, data, retry>>
records == <<messages, transcript, approval, result>>
world == <<turns, calls, intent, asked, effect>>
worker == <<at, mode, cur, item, outcome, seen>>
vars == <<row, input, lease, records, world, worker, faults>>

Nobody == ""
Orphan == "orphan"      \* claim or lease of a process that is no more
ASSUME WorkerNames == Nobody \notin Workers /\ Orphan \notin Workers
Nothing == [linked |-> FALSE, tries |-> 0, recorded |-> FALSE, stage |-> "", data |-> 0,
            retry |-> "none", approved |-> 0]

-----------------------------------------------------------------------------
(* States of a run and of an execution *)

Early == {"created", "queued", "acquired", "preparing"}
Inference == {"model_running", "awaiting_model_resume"}
RunEnded == {"completed", "failed", "cancelled"}
States == Early \cup Inference \cup RunEnded
            \cup {"tool_pending", "awaiting_approval", "tool_running", "finalizing"}

allowedTransitions ==
    [created |-> {"queued"}, queued |-> {"acquired"}, acquired |-> {"preparing"},
     preparing |-> {"model_running"}, model_running |-> {"tool_pending", "finalizing"},
     tool_pending |-> {"awaiting_approval", "tool_running"},
     awaiting_approval |-> {"tool_running", "awaiting_model_resume"},
     tool_running |-> {"awaiting_model_resume"}, awaiting_model_resume |-> {"model_running"},
     finalizing |-> {"completed"}]

\* Nothing in the orchestrator moves a run to timed_out.
ValidateRunStateTransition(from, to) ==
    from \in DOMAIN allowedTransitions /\ to \in allowedTransitions[from] \cup {"failed", "cancelled"}

\* The transitions and the checkpoints of an execution, by the place of the worker.
Target == [to_queued |-> "queued", to_acquired |-> "acquired", to_preparing |-> "preparing",
           to_model |-> "model_running", to_pending |-> "tool_pending", to_running |-> "tool_running",
           to_resume |-> "awaiting_model_resume", to_finalizing |-> "finalizing"]

Stage == [save_created |-> "run_created", save_prepared |-> "prepared", save_started |-> "model_started",
          save_reserved |-> "model_budget_reserved", save_dispatching |-> "tool_dispatching",
          save_result |-> "tool_result_recorded", save_finalizing |-> "finalizing",
          save_stopped |-> "execution_stopped"]

Stages == {Stage[p] : p \in DOMAIN Stage}
            \cup {"accepted", "awaiting_approval", "approval_ready", "model_retry_pending"}

Places == DOMAIN Target \cup DOMAIN Stage
            \cup {"idle", "claimed", "creating", "leasing", "recovering", "preparing", "remembering",
                  "admitting", "calling", "streaming", "timed_out", "unobserved", "authorizing",
                  "executing", "recording", "saving", "loading", "reading", "refreshing", "routing",
                  "failing", "dropping", "returning", "returned"}

Verdicts == {"completed", "waiting_for_user", "blocked", "retry_exhausted", "prior_attempt_terminal",
             "session_busy", "retry_pending", "error"}

TypeOK ==
    /\ run \in States \cup {"none"} /\ run_lease \in BOOLEAN
    /\ status \in {"queued", "running", "waiting_for_user", "blocked", "completed", "failed", "cancelled"}
    /\ attempts \in 0..(MaxAttempts + MaxFaults + 1)
    /\ claim \in Workers \cup {Nobody, Orphan} /\ lease \in Workers \cup {Nobody, Orphan}
    /\ checkpoint \in Stages /\ data \in Nat /\ retry \in {"none", "claimed", "started"}
    /\ messages \in Nat /\ result \in Nat /\ turns \in Nat /\ calls \in 0..MaxCalls
    /\ transcript \in [Call -> {"none", "known", "effect_unknown"}]
    /\ approval \in [Call -> {"none", "pending", "approved", "refused"}]
    /\ intent \in [Call -> Intents \cup {0}] /\ asked \in [Call -> Nat]
    /\ effect \in [Call -> {"none", "known", "unknown"}]
    /\ at \in [Workers -> Places] /\ mode \in [Workers -> {"execute", "resume"}]
    /\ cur \in [Workers -> States \cup {"none"}] /\ item \in [Workers -> Nat]
    /\ outcome \in [Workers -> Verdicts \cup {"none", "known", "stopped", "effect_unknown"}]
    /\ seen \in [Workers -> [linked : BOOLEAN, tries : Nat, recorded : BOOLEAN, stage : Stages \cup {""},
                             data : Nat, retry : {"none", "claimed", "started"}, approved : 0..MaxCalls]]
    /\ faults \in 0..MaxFaults

Init ==
    /\ run = "none" /\ run_lease = FALSE
    /\ status = "queued" /\ attempts = 0 /\ claim = Nobody
    /\ checkpoint = "accepted" /\ data = 0 /\ retry = "none" /\ lease = Nobody
    /\ messages = 0 /\ result = 0 /\ turns = 0 /\ calls = 0
    /\ transcript = [c \in Call |-> "none"] /\ approval = [c \in Call |-> "none"]
    /\ intent = [c \in Call |-> 0] /\ asked = [c \in Call |-> 0] /\ effect = [c \in Call |-> "none"]
    /\ at = [w \in Workers |-> "idle"] /\ mode = [w \in Workers |-> "execute"]
    /\ cur = [w \in Workers |-> "none"] /\ item = [w \in Workers |-> 0]
    /\ outcome = [w \in Workers |-> "none"] /\ seen = [w \in Workers |-> Nothing]
    /\ faults = 0

-----------------------------------------------------------------------------
(* What a worker needs to write, and how it leaves *)

Fenced(w) == lease = w
OwnsClaim(w) == claim = w /\ status = "running"

Uncertain == \E c \in Call : transcript[c] = "effect_unknown"

Goto(w, place) == at' = [at EXCEPT ![w] = place] /\ UNCHANGED outcome

\* The executor is done, with the lease still to be released, or without one.
Leave(w, o) == at' = [at EXCEPT ![w] = "returning"] /\ outcome' = [outcome EXCEPT ![w] = o]
Return(w, o) == at' = [at EXCEPT ![w] = "returned"] /\ outcome' = [outcome EXCEPT ![w] = o]

\* An error fails the run in Execute; Resume keeps its state for the owner.
Raise(w) == IF mode[w] = "execute" THEN Goto(w, "failing") ELSE Leave(w, "error")

\* Count of the durable retry is 1: every later turn of the run is a recovery.
Retrying(w) == seen[w].retry # "none"

-----------------------------------------------------------------------------
(* Claim and process *)

Claim(w) ==
    LET continuation == checkpoint = "approval_ready" /\ status = "queued" IN
    /\ at[w] = "idle" /\ status \in {"queued", "running"} /\ claim = Nobody
    /\ status' = "running" /\ claim' = w
    /\ attempts' = IF continuation THEN attempts ELSE attempts + 1
    /\ seen' = [seen EXCEPT ![w].linked = checkpoint # "accepted", ![w].tries = attempts']
    /\ Goto(w, "claimed")
    /\ UNCHANGED <<row, checkpoint, data, retry, lease, records, world, mode, cur, item, faults>>

\* process: an unlinked input, or one whose run never left preparation, is
\* executed; any other run is resumed, unless it cannot be read.
Process(w) ==
    LET execute == ~seen[w].linked \/ run \in Early IN
    /\ at[w] = "claimed"
    /\ \/ IF seen[w].tries > MaxAttempts THEN Return(w, "retry_exhausted") /\ UNCHANGED mode
          ELSE IF seen[w].linked /\ run = "completed" THEN Return(w, "completed") /\ UNCHANGED mode
          ELSE IF seen[w].linked /\ run \in RunEnded THEN Return(w, "prior_attempt_terminal") /\ UNCHANGED mode
          ELSE /\ mode' = [mode EXCEPT ![w] = IF execute THEN "execute" ELSE "resume"]
               /\ Goto(w, IF execute THEN "creating" ELSE "loading")
       \/ ~(seen[w].tries > MaxAttempts) /\ seen[w].linked /\ Return(w, "blocked") /\ UNCHANGED mode
    /\ UNCHANGED <<row, input, lease, records, world, cur, item, seen, faults>>

Refunded(o) == IF o = "session_busy" /\ attempts > 0 THEN attempts - 1 ELSE attempts

\* Finish, and nothing else, writes the receipt; a lost claim only gets a log line.
Finish(w) ==
    LET o == outcome[w] IN
    /\ at[w] = "returned"
    /\ IF OwnsClaim(w)
         THEN /\ status' = CASE o = "completed" -> "completed"
                             [] o = "waiting_for_user" ->
                                  IF checkpoint = "approval_ready" THEN "queued" ELSE "waiting_for_user"
                             [] o \in {"retry_exhausted", "prior_attempt_terminal"} -> "failed"
                             [] o = "session_busy" -> "queued"
                             [] o = "retry_pending" -> IF seen[w].tries < MaxAttempts THEN "queued" ELSE "blocked"
                             [] OTHER -> "blocked"
              /\ attempts' = Refunded(o)
              /\ claim' = Nobody
         ELSE UNCHANGED <<status, attempts, claim>>
    /\ at' = [at EXCEPT ![w] = "idle"] /\ mode' = [mode EXCEPT ![w] = "execute"]
    /\ cur' = [cur EXCEPT ![w] = "none"] /\ item' = [item EXCEPT ![w] = 0]
    /\ outcome' = [outcome EXCEPT ![w] = "none"] /\ seen' = [seen EXCEPT ![w] = Nothing]
    /\ UNCHANGED <<row, checkpoint, data, retry, lease, records, world, faults>>

\* The deferred ReleaseLease of Execute and Resume.
ReleaseLease(w) ==
    /\ at[w] = "returning"
    /\ lease' = IF Fenced(w) THEN Nobody ELSE lease
    /\ at' = [at EXCEPT ![w] = "returned"]
    /\ UNCHANGED <<row, input, records, world, mode, cur, item, outcome, seen, faults>>

-----------------------------------------------------------------------------
(* Transitions and checkpoints *)

\* The one UPDATE behind every transition; the first one precedes the lease.
UpdateRun(w, to) == run = cur[w] /\ (to = "queued" \/ Fenced(w))

\* Where a worker goes after a transition.
Moved(w) ==
    CASE at[w] = "to_queued" -> "leasing"
      [] at[w] = "to_acquired" -> "to_preparing"
      [] at[w] = "to_preparing" -> "preparing"
      [] at[w] = "to_model" -> IF cur[w] = "preparing" THEN "save_started" ELSE "streaming"
      [] at[w] = "to_pending" -> "authorizing"
      [] at[w] = "to_running" -> "save_dispatching"
      [] at[w] = "to_resume" -> "admitting"
      [] at[w] = "to_finalizing" -> "save_finalizing"

\* A transition that is refused, or whose query fails, is an error of its caller.
Transition(w) ==
    /\ at[w] \in DOMAIN Target
    /\ LET to == Target[at[w]] IN
       \/ /\ ValidateRunStateTransition(cur[w], to) /\ UpdateRun(w, to)
          /\ run' = to /\ run_lease' = (to # "queued")
          /\ cur' = [cur EXCEPT ![w] = to]
          /\ Goto(w, Moved(w))
       \/ /\ UNCHANGED <<row, cur>>
          /\ CASE to = "queued" -> Goto(w, "dropping")
               [] to = "finalizing" -> Goto(w, "failing")      \* in Resume as well
               [] OTHER -> Raise(w)
    /\ UNCHANGED <<input, lease, records, world, mode, item, seen, faults>>

\* failRun, before the lease with no token to check.
FailRun(w) ==
    /\ at[w] \in {"failing", "dropping"}
    /\ IF /\ ValidateRunStateTransition(cur[w], "failed") /\ run = cur[w]
          /\ at[w] = "dropping" \/ Fenced(w)
         THEN run' = "failed" /\ run_lease' = (at[w] = "failing")
         ELSE UNCHANGED row
    /\ Leave(w, "error")
    /\ UNCHANGED <<input, lease, records, world, mode, cur, item, seen, faults>>

\* The live claim, and with a token in the context the live lease.
SaveCheckpoint(w) == OwnsClaim(w) /\ (at[w] = "save_created" \/ Fenced(w))

\* Where a worker goes after a checkpoint.
Saved(w) ==
    CASE at[w] = "save_created" -> Goto(w, IF cur[w] = "created" THEN "to_queued" ELSE "leasing")
      [] at[w] = "save_prepared" -> Goto(w, "remembering")
      [] at[w] = "save_started" -> Goto(w, "admitting")
      [] at[w] = "save_reserved" -> Goto(w, "calling")
      [] at[w] = "save_finalizing" -> Goto(w, "saving")
      [] at[w] = "save_stopped" -> Leave(w, "blocked")
      [] at[w] = "save_dispatching" -> Goto(w, "executing") \/ Raise(w)
      [] at[w] = "save_result" ->       \* MarkActionCheckpoint may fail after either
            \/ CASE outcome[w] = "known" -> Goto(w, "to_resume")
                 [] outcome[w] = "stopped" -> Goto(w, "save_stopped")
                 [] outcome[w] = "effect_unknown" -> Leave(w, "blocked")
            \/ Raise(w)

Checkpoint(w) ==
    /\ at[w] \in DOMAIN Stage
    /\ \/ /\ SaveCheckpoint(w)
          /\ checkpoint' = Stage[at[w]]
          /\ data' = IF at[w] \in {"save_dispatching", "save_result", "save_finalizing"} THEN item[w] ELSE 0
          /\ turns' = IF at[w] = "save_reserved" THEN turns + 1 ELSE turns
          /\ Saved(w)
       \/ /\ UNCHANGED <<checkpoint, data, turns>>
          /\ CASE at[w] = "save_created" -> Return(w, "error")
               [] at[w] \in {"save_reserved", "save_dispatching", "save_result"} -> Raise(w)
               [] OTHER -> Leave(w, "error")
    /\ UNCHANGED <<row, status, attempts, claim, retry, lease, records, calls, intent, asked, effect,
                   mode, cur, item, seen, faults>>

-----------------------------------------------------------------------------
(* Execute *)

\* CreateRun deduplicates on the input's identity.
CreateRun(w) ==
    /\ at[w] = "creating"
    /\ run' = IF run = "none" THEN "created" ELSE run
    /\ cur' = [cur EXCEPT ![w] = run']
    /\ Goto(w, "save_created")
    /\ UNCHANGED <<run_lease, input, lease, records, world, mode, item, seen, faults>>

AcquireLease(w) ==
    /\ at[w] = "leasing"
    /\ IF lease # Nobody
         THEN Return(w, "session_busy") /\ UNCHANGED <<lease, run_lease>>
         ELSE \/ /\ lease' = w /\ run_lease' = FALSE
                 /\ Goto(w, CASE mode[w] = "resume" -> "refreshing"
                              [] mode[w] = "execute" /\ cur[w] \in {"acquired", "preparing"} -> "recovering"
                              [] mode[w] = "execute" /\ cur[w] \notin {"acquired", "preparing"} -> "to_acquired")
              \/ /\ UNCHANGED <<lease, run_lease>>      \* the INSERT itself fails
                 /\ IF mode[w] = "resume" THEN Return(w, "error") ELSE Goto(w, "dropping")
    /\ UNCHANGED <<run, input, records, world, mode, cur, item, seen, faults>>

\* The one move outside the table: a run not yet prepared starts over.
RecoverPreparation(w) ==
    /\ at[w] = "recovering"
    /\ IF Fenced(w) /\ run \in {"acquired", "preparing"}
         THEN /\ run' = "queued" /\ run_lease' = TRUE
              /\ cur' = [cur EXCEPT ![w] = "queued"]
              /\ Goto(w, "to_acquired")
         ELSE UNCHANGED <<row, cur>> /\ Leave(w, "error")
    /\ UNCHANGED <<input, lease, records, world, mode, item, seen, faults>>

\* prepareRun reads the transcript, PersistPreparation is fenced.
PrepareRun(w) ==
    /\ at[w] = "preparing"
    /\ seen' = [seen EXCEPT ![w].recorded = messages > 0]
    /\ \/ Fenced(w) /\ run = "preparing" /\ Goto(w, "save_prepared")
       \/ Goto(w, "failing")
    /\ UNCHANGED <<row, input, lease, records, world, mode, cur, item, faults>>

\* Mutant: the user message is appended on every attempt.
AppendMessage_Always(w) ==
    /\ at[w] = "remembering"
    /\ IF Fenced(w) THEN messages' = messages + 1 /\ Goto(w, "to_model")
       ELSE UNCHANGED messages /\ Goto(w, "failing")
    /\ UNCHANGED <<row, input, lease, transcript, approval, result, world, mode, cur, item, seen, faults>>

AppendMessage(w) ==
    /\ at[w] = "remembering"
    /\ IF seen[w].recorded THEN UNCHANGED messages /\ Goto(w, "to_model")
       ELSE IF Fenced(w) THEN messages' = messages + 1 /\ Goto(w, "to_model")
       ELSE UNCHANGED messages /\ Goto(w, "failing")
    /\ UNCHANGED <<row, input, lease, transcript, approval, result, world, mode, cur, item, seen, faults>>

-----------------------------------------------------------------------------
(* Model turns and the one durable retry *)

\* modelRetryTx: claim and lease live, an inference state, no outcome in doubt.
modelRetryTx(w) ==
    /\ Fenced(w) /\ OwnsClaim(w) /\ run \in Inference
    /\ ~Uncertain /\ \A c \in Call : effect[c] # "unknown"

claimModelRetry(w) ==
    modelRetryTx(w) /\ retry = "none" /\ checkpoint = "model_budget_reserved" /\ attempts < MaxAttempts

ValidateModelRetry(w) == modelRetryTx(w) /\ checkpoint = "model_retry_pending" /\ retry = "claimed"

MarkModelRetryStarted(w) == modelRetryTx(w) /\ (retry = "started" \/ ValidateModelRetry(w))

\* A recovered call is replayed into a fresh session with the recorded history.
Recovered(w) == item[w] # 0 /\ item[w] \in {seen[w].data, seen[w].approved}

\* admit: the budget may refuse; a retry is marked before the turn is reserved.
Admit(w) ==
    /\ at[w] = "admitting"
    /\ \/ Goto(w, "save_stopped") /\ UNCHANGED retry
       \/ /\ ~(Recovered(w) /\ Uncertain)
          /\ IF ~Retrying(w) THEN UNCHANGED retry /\ Goto(w, "save_reserved")
             ELSE IF MarkModelRetryStarted(w) THEN retry' = "started" /\ Goto(w, "save_reserved")
             ELSE UNCHANGED retry /\ Raise(w)
       \/ Recovered(w) /\ Uncertain /\ UNCHANGED retry /\ Leave(w, "blocked")
    /\ UNCHANGED <<row, status, attempts, claim, checkpoint, data, lease, records, world, mode, cur, item,
                   seen, faults>>

\* The provider opened a stream.
ModelStream(w) ==
    /\ at[w] = "calling"
    /\ Goto(w, IF cur[w] = "awaiting_model_resume" THEN "to_model" ELSE "streaming")
    /\ UNCHANGED <<row, input, lease, records, world, mode, cur, item, seen, faults>>

\* The turn fails: an error, an exhausted budget, a model turn out of time, or
\* the observer of the lease gave up on an unanswered renewal.
ModelFails(w) ==
    /\ at[w] \in {"calling", "streaming"}
    /\ \/ Raise(w)
       \/ \E place \in {"save_stopped", "timed_out", "unobserved"} : Goto(w, place)
    /\ UNCHANGED <<row, input, lease, records, world, mode, cur, item, seen, faults>>

\* scheduleModelRetry and recoverAuthorityTimeout.
ScheduleRetry(w) ==
    /\ at[w] \in {"timed_out", "unobserved"}
    /\ IF claimModelRetry(w)
         THEN /\ retry' = "claimed" /\ checkpoint' = "model_retry_pending"
              /\ Leave(w, "retry_pending")
         ELSE /\ UNCHANGED <<retry, checkpoint>>
              /\ IF at[w] = "timed_out" THEN Goto(w, "save_stopped") ELSE Leave(w, "error")
    /\ UNCHANGED <<row, status, attempts, claim, data, lease, records, world, mode, cur, item, seen, faults>>

\* The final message; a run without one fails, in Resume as well.
FinalMessage(w) ==
    /\ at[w] = "streaming"
    /\ \/ item' = [item EXCEPT ![w] = turns] /\ Goto(w, "to_finalizing")
       \/ UNCHANGED item /\ Goto(w, "failing")
    /\ UNCHANGED <<row, input, lease, records, world, mode, cur, seen, faults>>

\* Mutant: the recovery marker is not looked at.
guardModelRetryProposal_Off(w, i) == "to_pending"

\* A recovery proposes no effect whose equivalent was recorded.
guardModelRetryProposal(w, i) ==
    CASE ~Retrying(w) -> "to_pending"
      [] Retrying(w) /\ Uncertain -> "uncertain"
      [] Retrying(w) /\ ~Uncertain ->
            IF \E c \in Call : transcript[c] = "known" /\ intent[c] = i THEN "save_stopped" ELSE "to_pending"

\* A draft the orchestrator itself rejects (rejectDraft) is left out: its call is
\* never prepared or dispatched, only answered in the transcript.
ToolCallRequested(w, i) ==
    LET next == guardModelRetryProposal(w, i) IN
    /\ at[w] = "streaming" /\ calls < MaxCalls
    /\ calls' = calls + 1
    /\ intent' = [intent EXCEPT ![calls'] = i]
    /\ item' = [item EXCEPT ![w] = calls']
    /\ IF next = "uncertain" THEN Leave(w, "blocked") ELSE Goto(w, next)
    /\ UNCHANGED <<row, input, lease, records, turns, asked, effect, mode, cur, seen, faults>>

-----------------------------------------------------------------------------
(* Tool calls *)

Approved(w) == item[w] = seen[w].approved

\* suspendApproval: CreateDurable with SuspendApprovalTx, one fenced transaction.
SuspendApproval(w) ==
    /\ at[w] = "authorizing" /\ ~Approved(w)
    /\ IF Fenced(w) /\ OwnsClaim(w) /\ run = "tool_pending"
         THEN /\ run' = "awaiting_approval"
              /\ approval' = [approval EXCEPT ![item[w]] = "pending"]
              /\ checkpoint' = "awaiting_approval"
              /\ Leave(w, "waiting_for_user")
         ELSE UNCHANGED <<run, approval, checkpoint>> /\ Raise(w)
    /\ UNCHANGED <<run_lease, status, attempts, claim, data, retry, lease, messages, transcript, result, world,
                   mode, cur, item, seen, faults>>

\* AuthorizeAction grants an undispatched effect to a run that owns its session
\* and is in a tool state, if an approval was needed only with it; or refuses.
AuthorizeAction(w) ==
    /\ at[w] = "authorizing"
    /\ \/ /\ lease # Nobody /\ run \in {"tool_pending", "awaiting_approval", "tool_running"}
          /\ effect[item[w]] = "none" /\ (Approved(w) => approval[item[w]] = "approved")
          /\ Goto(w, "to_running")
       \/ Raise(w)
    /\ UNCHANGED <<row, input, lease, records, world, mode, cur, item, seen, faults>>

\* What becomes of the effect, and what the worker hears of it.  An effect is
\* dispatched only while the grant's lease and the run's state are live.
Replies == {<<"none", "known">>, <<"none", "stopped">>, <<"known", "known">>, <<"unknown", "effect_unknown">>}
            \cup ({"none", "known", "unknown"} \X {"lost"})

ExecuteToolCall(w) ==
    LET c == item[w] IN
    /\ at[w] = "executing"
    /\ asked' = [asked EXCEPT ![c] = @ + 1]
    /\ \E r \in Replies :
        /\ r[1] # "none" => Fenced(w) /\ run = "tool_running" /\ effect[c] = "none"
        /\ effect' = [effect EXCEPT ![c] = IF r[1] = "none" THEN @ ELSE r[1]]
        /\ IF r[2] = "lost" THEN Leave(w, "blocked")
           ELSE /\ at' = [at EXCEPT ![w] = "recording"]
                /\ outcome' = [outcome EXCEPT ![w] = r[2]]
    /\ UNCHANGED <<row, input, lease, records, turns, calls, intent, mode, cur, item, seen, faults>>

\* AppendToolCall; without it the outcome stays unknown to everybody else.  A
\* catalog result that validateToolLoad turns down is an error before it.
AppendToolCall(w) ==
    /\ at[w] = "recording"
    /\ \/ IF Fenced(w) /\ transcript[item[w]] = "none"
            THEN /\ transcript' = [transcript EXCEPT ![item[w]] =
                                       IF outcome[w] = "effect_unknown" THEN "effect_unknown" ELSE "known"]
                 /\ Goto(w, "save_result")
            ELSE UNCHANGED transcript /\ Leave(w, "blocked")
       \/ outcome[w] = "known" /\ UNCHANGED transcript /\ Raise(w)
    /\ UNCHANGED <<row, input, lease, messages, approval, result, world, mode, cur, item, seen, faults>>

\* Coordinator.Save: all or nothing; an error other than a lost lease keeps the
\* checkpointed answer for another attempt, also when only the answer of a
\* commit is lost.
Save(w) ==
    /\ at[w] = "saving"
    /\ \/ /\ Fenced(w) /\ run = "finalizing" /\ run_lease
          /\ run' = "completed" /\ result' = item[w]
          /\ \E o \in {"completed", "retry_pending"} : Leave(w, o)
       \/ Fenced(w) /\ UNCHANGED <<run, result>> /\ Leave(w, "retry_pending")
       \/ UNCHANGED <<run, result>> /\ Leave(w, "error")       \* a lost lease, or a task conflict under a live one
    /\ UNCHANGED <<run_lease, input, lease, messages, transcript, approval, world, mode, cur, item, seen, faults>>

-----------------------------------------------------------------------------
(* Resume *)

GetRun(w) ==
    /\ at[w] = "loading"
    /\ cur' = [cur EXCEPT ![w] = run]
    /\ Goto(w, "reading")
    /\ UNCHANGED <<row, input, lease, records, world, mode, item, seen, faults>>

\* LoadCheckpoint and LoadContinuationByRun, both before the session is owned.
LoadCheckpoint(w) ==
    LET suspended == {c \in Call : approval[c] # "none"}
        latest == {c \in suspended : \A d \in suspended : d <= c}
    IN
    /\ at[w] = "reading"
    /\ \E c \in IF cur[w] = "awaiting_approval" THEN latest ELSE {0} :
        /\ seen' = [seen EXCEPT ![w].stage = checkpoint, ![w].data = data, ![w].retry = retry, ![w].approved = c]
        /\ CASE c # 0 /\ approval[c] = "pending" -> Return(w, "waiting_for_user")
             [] c # 0 /\ approval[c] = "refused" -> Return(w, "blocked")
             [] OTHER -> Goto(w, "leasing")
    /\ UNCHANGED <<row, input, lease, records, world, mode, cur, item, faults>>

RefreshExecutionLease(w) ==
    /\ at[w] = "refreshing"
    /\ IF Fenced(w) /\ run \notin RunEnded
         THEN run_lease' = TRUE /\ cur' = [cur EXCEPT ![w] = run] /\ Goto(w, "routing")
         ELSE UNCHANGED <<run_lease, cur>> /\ Leave(w, "error")
    /\ UNCHANGED <<run, input, lease, records, world, mode, item, seen, faults>>

\* Mutant: a call that was being dispatched is simply executed again.
Continue_Redispatch(w) ==
    LET s == seen[w] IN
    CASE s.stage = "tool_dispatching" /\ cur[w] = "tool_running" -> <<"save_dispatching", s.data>>
      [] cur[w] = "awaiting_approval" -> <<"authorizing", s.approved>>
      [] s.stage = "finalizing" /\ cur[w] = "finalizing" -> <<"save_finalizing", s.data>>
      [] OTHER -> <<"blocked", 0>>

\* Mutant: whatever was recorded last, the model goes on.
Continue_AnyResult(w) ==
    LET s == seen[w] IN
    CASE s.stage \in {"tool_dispatching", "tool_result_recorded"} /\ cur[w] = "tool_running" -> <<"to_resume", s.data>>
      [] cur[w] = "awaiting_approval" -> <<"authorizing", s.approved>>
      [] s.stage = "finalizing" /\ cur[w] = "finalizing" -> <<"save_finalizing", s.data>>
      [] OTHER -> <<"blocked", 0>>

\* Mutant: a saved answer is asked for once more.
Continue_AskAgain(w) ==
    LET s == seen[w] IN
    CASE s.stage = "finalizing" /\ cur[w] = "finalizing" -> <<"admitting", 0>>
      [] cur[w] = "awaiting_approval" -> <<"authorizing", s.approved>>
      [] OTHER -> <<"blocked", 0>>

\* How Resume goes on, with what: from the stage it loaded before the lease and
\* the state it read under it.  Only a recorded result or a saved answer is
\* continued; a call that may have been dispatched never is.
Continue(w) ==
    LET s == seen[w] IN
    CASE s.stage = "model_retry_pending" /\ s.retry = "claimed" ->
            IF cur[w] \in Inference /\ ValidateModelRetry(w) THEN <<"admitting", 0>> ELSE <<"error", 0>>
      [] s.stage = "finalizing" /\ cur[w] = "finalizing" -> <<"save_finalizing", s.data>>
      [] ~(s.stage = "model_retry_pending" /\ s.retry = "claimed") /\ cur[w] = "awaiting_approval" ->
            IF s.approved # 0 /\ approval[s.approved] = "approved"     \* VerifyActionApproval
              THEN <<"authorizing", s.approved>> ELSE <<"blocked", 0>>
      [] s.stage \in {"tool_dispatching", "tool_result_recorded"} /\ cur[w] \in {"tool_running"} \cup Inference ->
            IF transcript[s.data] # "known" THEN <<"blocked", 0>>
            ELSE <<IF cur[w] = "tool_running" THEN "to_resume" ELSE "admitting", s.data>>
      [] OTHER -> <<"blocked", 0>>

Route(w) ==
    LET next == Continue(w) IN
    /\ at[w] = "routing"
    /\ item' = [item EXCEPT ![w] = next[2]]
    /\ \/ IF next[1] \in {"blocked", "error"} THEN Leave(w, next[1]) ELSE Goto(w, next[1])
       \/ Leave(w, "error")        \* sources, history or MarkActionCheckpoint fail
    /\ UNCHANGED <<row, input, lease, records, world, mode, cur, seen, faults>>

-----------------------------------------------------------------------------
(* The owner, time and crashes *)

\* Mutant: a decision replaces an earlier one.
Resolve_Again(c, decision) ==
    /\ approval[c] # "none" /\ run \notin RunEnded
    /\ status \in {"running", "waiting_for_user", "blocked"}
    /\ approval' = [approval EXCEPT ![c] = decision]
    /\ checkpoint' = "approval_ready"
    /\ status' = IF status = "running" THEN status ELSE "queued"
    /\ UNCHANGED <<row, attempts, claim, data, retry, lease, messages, transcript, result, world, worker, faults>>

\* ResolveDurable with ReadyApprovalTx: the decision and the wake-up commit together.
Resolve(c, decision) ==
    /\ approval[c] = "pending" /\ run \notin RunEnded
    /\ status \in {"running", "waiting_for_user", "blocked"}
    /\ approval' = [approval EXCEPT ![c] = decision]
    /\ checkpoint' = "approval_ready"
    /\ status' = IF status = "running" THEN status ELSE "queued"
    /\ UNCHANGED <<row, attempts, claim, data, retry, lease, messages, transcript, result, world, worker, faults>>

\* Mutant: an owner control leaves the lease to whoever holds it.
Control_KeepLease ==
    /\ status \notin {"completed", "failed", "cancelled"}
    /\ run' = IF run \in RunEnded \cup {"none"} THEN run ELSE "cancelled"
    /\ status' = "cancelled" /\ claim' = Nobody
    /\ approval' = [c \in Call |-> IF approval[c] = "pending" THEN "refused" ELSE approval[c]]
    /\ UNCHANGED <<run_lease, attempts, checkpoint, data, retry, lease, messages, transcript, result, world,
                   worker, faults>>

\* An owner's control of the task ends lease, input, approvals and run in one transaction.
Control ==
    /\ status \notin {"completed", "failed", "cancelled"}
    /\ lease' = Nobody
    /\ run' = IF run \in RunEnded \cup {"none"} THEN run ELSE "cancelled"
    /\ status' = "cancelled" /\ claim' = Nobody
    /\ approval' = [c \in Call |-> IF approval[c] = "pending" THEN "refused" ELSE approval[c]]
    /\ UNCHANGED <<run_lease, attempts, checkpoint, data, retry, messages, transcript, result, world, worker,
                   faults>>

\* What nobody renews runs out; so does, rarely, what a slow worker holds.
Expires(holder) == IF holder = Orphan THEN UNCHANGED faults ELSE faults < MaxFaults /\ faults' = faults + 1

ClaimExpires ==
    /\ claim # Nobody /\ Expires(claim) /\ claim' = Nobody
    /\ UNCHANGED <<row, status, attempts, checkpoint, data, retry, lease, records, world, worker>>

LeaseExpires ==
    /\ lease # Nobody /\ Expires(lease) /\ lease' = Nobody
    /\ UNCHANGED <<row, input, records, world, worker>>

Crash(w) ==
    /\ at[w] # "idle" /\ faults < MaxFaults
    /\ faults' = faults + 1
    /\ claim' = IF claim = w THEN Orphan ELSE claim
    /\ lease' = IF lease = w THEN Orphan ELSE lease
    /\ at' = [at EXCEPT ![w] = "idle"] /\ mode' = [mode EXCEPT ![w] = "execute"]
    /\ cur' = [cur EXCEPT ![w] = "none"] /\ item' = [item EXCEPT ![w] = 0]
    /\ outcome' = [outcome EXCEPT ![w] = "none"] /\ seen' = [seen EXCEPT ![w] = Nothing]
    /\ UNCHANGED <<row, status, attempts, checkpoint, data, retry, records, world>>

-----------------------------------------------------------------------------
Executing(w) == CreateRun(w) \/ AcquireLease(w) \/ RecoverPreparation(w) \/ PrepareRun(w) \/ AppendMessage(w)
Inferring(w) == Admit(w) \/ ModelStream(w) \/ ModelFails(w) \/ ScheduleRetry(w) \/ FinalMessage(w)
                    \/ (\E i \in Intents : ToolCallRequested(w, i))
Calling(w) == SuspendApproval(w) \/ AuthorizeAction(w) \/ ExecuteToolCall(w) \/ AppendToolCall(w)
Resuming(w) == GetRun(w) \/ LoadCheckpoint(w) \/ RefreshExecutionLease(w) \/ Route(w)
Work(w) == Claim(w) \/ Process(w) \/ Transition(w) \/ Checkpoint(w) \/ FailRun(w) \/ Save(w)
                    \/ ReleaseLease(w) \/ Finish(w)

Next ==
    \/ \E w \in Workers : Work(w) \/ Executing(w) \/ Inferring(w) \/ Calling(w) \/ Resuming(w) \/ Crash(w)
    \/ \E c \in Call, decision \in {"approved", "refused"} : Resolve(c, decision)
    \/ Control \/ ClaimExpires \/ LeaseExpires

Spec == Init /\ [][Next]_vars

-----------------------------------------------------------------------------
(* Properties *)

\* However often the input is claimed, resumed or approved, a tool call is sent
\* to the broker at most once: after tool_dispatching nothing sends it again.
AskedAtMostOnce == \A c \in Call : asked[c] <= 1

\* No call is sent before the owner approved the approval made for it, and while
\* a decision is pending the input keeps the continuation it belongs to and the
\* model stays where it was: no other call, no answer.
ApprovalPrecedesCall ==
    \A c \in Call : /\ asked[c] > 0 => approval[c] \in {"none", "approved"}
                    /\ approval[c] = "pending" => checkpoint = "awaiting_approval" /\ c = calls /\ result = 0

\* durable-execution-spec.md counts an exact suspended approval among the
\* recoverable boundaries: its run awaits the decision until somebody makes it.
SuspendedRunWaits == \A c \in Call : approval[c] = "pending" => run = "awaiting_approval"

\* A completed run has the answer of its finalizing checkpoint, no call whose
\* outcome is missing from the transcript or unknown, and the input's user message
\* once in the history, however many attempts its preparation took.
CompletedIsAccounted ==
    TypeOK /\ (run = "completed" =>
        /\ result # 0 /\ checkpoint = "finalizing" /\ data = result
        /\ \A c \in Call : asked[c] > 0 => transcript[c] = "known"
        /\ messages = 1)

\* The model is called again only when the outcome of every call sent so far is
\* recorded: neither a takeover nor a stale worker infers past an open effect.
SeesAllResults == turns' # turns => \A c \in Call : asked[c] > 0 => transcript[c] = "known"
TurnsSeeAllResults == [][SeesAllResults]_vars

\* Once an answer is checkpointed the run only saves it or ends: no further
\* turn, no further call, no other answer.
KeepsAnswer == checkpoint = "finalizing" => checkpoint' = checkpoint /\ UNCHANGED <<data, turns, calls, asked>>
AnswerIsFinal == [][KeepsAnswer]_vars

\* Every change of the run's row follows the state table, also those made by
\* the approval, completion and control transactions, which do not consult it;
\* only a run that has not left preparation is put back.  Once it ended, by whatever
\* hand, its late workers add no turn, effect, tool result or answer to it.
FollowsTable ==
    /\ run' # run /\ run # "none" =>
          \/ ValidateRunStateTransition(run, run')
          \/ run \in {"acquired", "preparing"} /\ run' = "queued" /\ turns = 0
    /\ run \in RunEnded => UNCHANGED <<run, result, transcript, turns, effect>>
RunFollowsTable == [][FollowsTable]_vars

\* After the durable retry was claimed no call is sent whose equivalent was sent
\* before, and the retry is not claimed again.
RepeatsNothing ==
    /\ \A c \in Call : asked'[c] # asked[c] /\ retry # "none" =>
            \A d \in Call \ {c} : asked[d] > 0 => intent[d] # intent[c]
    /\ retry = "started" => retry' = "started"
RetryRepeatsNothing == [][RepeatsNothing]_vars

=============================================================================
