----------------------------- MODULE LocalModels -----------------------------
(***************************************************************************)
(* The local model service: callers with deadlines, the bounded queue of   *)
(* each of the router's two lanes, the loop that executes one job at a     *)
(* time in a worker process of its own, and the RAM gate the lanes share.  *)
(*                                                                         *)
(* GPU memory, host memory, telemetry and what a worker answers are        *)
(* external and free.  A worker's resident set grows up to the peak of its *)
(* profile and only shrinks when the process ends.  The function-calling   *)
(* backend wrapped around the worker of the CPU lane (its own server, for  *)
(* a profile the deployed catalog disables) is left out.                   *)
(***************************************************************************)
EXTENDS Naturals, Sequences, FiniteSets

CONSTANTS
    Requests,       \* concurrent calls of Infer; each may be issued again and again
    Caller,         \* Caller[r]: request.CallerId
    Profile,        \* Profile[r]: the resolved request.ProfileId
    CpuOnly,        \* CpuOnly[r]: the client's request.CpuOnly
    Mixes,          \* bounds: requests made together, calls that are cancelled, closing
    Lane,           \* Lane[p]: "cpu" iff p.PreferredDevice is
    Model,          \* Model[p]: p.Model
    PeakRAM,        \* PeakRAM[p][d]: the allowance of p on device d, in units
    CpuFallback,    \* CpuFallback[p]
    Batched,        \* Batched[p]: p.MaxBatch > 1
    QueueSize,
    Limit           \* RAMBudgetMiB - RAMReserveMiB, in units

Lanes == {"gpu", "cpu"}
Device == {"gpu", "cpu"}
Profiles == DOMAIN Model

ASSUME LocalModelsAssumption ==
    /\ IsFiniteSet(Requests) /\ QueueSize \in Nat \ {0} /\ Limit \in Nat
    /\ \A p \in Profiles : Lane[p] \in Lanes /\ \A d \in Device : PeakRAM[p][d] \in Nat \ {0}
    /\ Mixes \subseteq [requests : SUBSET Requests, cancels : Nat, closes : BOOLEAN]
    /\ \A r \in Requests : Profile[r] \in Profiles /\ CpuOnly[r] \in BOOLEAN

VARIABLES
    mix,            \* what happens in this behaviour
    at,             \* at[r]: where the call of Infer is
    dead,           \* dead[r]: the call's context is done
    cancels,
    reply,          \* reply[r]: there is a result in the job's reply channel
    queue, pending, \* of each lane, requests in order
    slots,          \* slots[m]: tokens in the channel
    lastCaller,
    closed,         \* closed[m]: the manager's context is cancelled
    pc,             \* pc[m]: where the loop of the lane is
    job,            \* job[m]: the request being executed
    try,            \* try[m]: first run, OOM retry or CPU fallback
    device,         \* device[m]: of the run in progress
    err,            \* err[m]: what backend.Infer, then run, returned
    cause,          \* cause[m]: the sampler cancelled the run
    needed,         \* needed[m]: RAM the run has reserved
    active,         \* active[m]: status.ActiveModel and ActiveDevice
    proc,           \* proc[m]: profile and device of the worker process
    rss,            \* rss[m]: its resident set
    killed          \* killed[m]: a cancellation has killed it

calls == <<at, dead, reply, cancels>>
buffers == <<queue, pending, slots, lastCaller>>
running == <<job, try, device, err, cause>>
workers == <<active, proc, rss, killed>>
vars == <<mix, calls, buffers, closed, pc, running, needed, workers>>

None == "none"
NoModel == [model |-> None, device |-> None]
NoProc == [profile |-> None, device |-> None]

\* What the code tells apart: OOM, refused or exceeded resources, any other end.
Errors == {"other", "oom", "resources"}

TypeOK ==
    /\ mix \in Mixes
    /\ at \in [Requests -> {"out", "slot", "waiting"}]
    /\ dead \in [Requests -> BOOLEAN] /\ cancels \in 0..mix.cancels
    /\ reply \in [Requests -> BOOLEAN]
    /\ queue \in [Lanes -> Seq(Requests)] /\ pending \in [Lanes -> Seq(Requests)]
    /\ slots \in [Lanes -> 0..QueueSize]
    /\ lastCaller \in [Lanes -> {Caller[r] : r \in Requests} \cup {None}]
    /\ closed \in [Lanes -> BOOLEAN]
    /\ pc \in [Lanes -> {"idle", "execute", "admit", "infer", "sample", "decide", "done"}]
    /\ job \in [Lanes -> Requests \cup {None}]
    /\ try \in [Lanes -> {"first", "retry", "fallback"}]
    /\ device \in [Lanes -> Device]
    /\ err \in [Lanes -> Errors] /\ cause \in [Lanes -> BOOLEAN]
    /\ needed \in [Lanes -> 0..Limit]
    /\ active \in [Lanes -> [model : {Model[p] : p \in Profiles} \cup {None}, device : Device \cup {None}]]
    /\ proc \in [Lanes -> [profile : Profiles \cup {None}, device : Device \cup {None}]]
    /\ \A m \in Lanes : rss[m] \in 0..(IF proc[m] = NoProc THEN 0 ELSE PeakRAM[proc[m].profile][proc[m].device])
    /\ killed \in [Lanes -> BOOLEAN]

Init ==
    /\ mix \in Mixes
    /\ at = [r \in Requests |-> "out"] /\ dead = [r \in Requests |-> FALSE] /\ cancels = 0
    /\ reply = [r \in Requests |-> FALSE]
    /\ queue = [m \in Lanes |-> << >>] /\ pending = [m \in Lanes |-> << >>]
    /\ slots = [m \in Lanes |-> 0] /\ lastCaller = [m \in Lanes |-> None]
    /\ closed = [m \in Lanes |-> FALSE] /\ pc = [m \in Lanes |-> "idle"]
    /\ job = [m \in Lanes |-> None] /\ try = [m \in Lanes |-> "first"]
    /\ device = [m \in Lanes |-> "cpu"]
    /\ err = [m \in Lanes |-> "other"] /\ cause = [m \in Lanes |-> FALSE]
    /\ needed = [m \in Lanes |-> 0]
    /\ active = [m \in Lanes |-> NoModel] /\ proc = [m \in Lanes |-> NoProc]
    /\ rss = [m \in Lanes |-> 0] /\ killed = [m \in Lanes |-> FALSE]

LaneOf(r) == Lane[Profile[r]]

-----------------------------------------------------------------------------
(* Callers: Router.Infer and Manager.Infer *)

\* Infer returns: its deferred cancel ends the job's context.
Return(r) ==
    /\ at' = [at EXCEPT ![r] = "out"]
    /\ dead' = [dead EXCEPT ![r] = TRUE]
    /\ reply' = [reply EXCEPT ![r] = FALSE]

\* Bound: a request is not made again while a job of its last call is around.
Forgotten(r) ==
    LET m == LaneOf(r)
        jobs == queue[m] \o pending[m]
    IN job[m] # r /\ \A i \in DOMAIN jobs : jobs[i] # r

FreeSlot(m) == slots[m] < QueueSize

\* The first two selects find a free slot.  A closed manager, a dead context or
\* no slot turn the call away and leave no trace.
Infer(r) ==
    LET m == LaneOf(r) IN
    /\ at[r] = "out" /\ Forgotten(r) /\ ~closed[m] /\ FreeSlot(m)
    /\ slots' = [slots EXCEPT ![m] = @ + 1]
    /\ at' = [at EXCEPT ![r] = "slot"]
    /\ dead' = [dead EXCEPT ![r] = FALSE]
    /\ UNCHANGED <<cancels, reply, queue, pending, lastCaller, closed, pc, running, needed, workers>>

\* Mutant: a caller that gives up keeps its slot.
ReturnSlot_Kept(m) == UNCHANGED slots

ReturnSlot(m) == slots' = [slots EXCEPT ![m] = @ - 1]

\* The third select: the buffered queue has room, or the caller gives its slot back.
Send(r) ==
    LET m == LaneOf(r) IN
    /\ at[r] = "slot"
    /\ \/ /\ Len(queue[m]) < QueueSize
          /\ queue' = [queue EXCEPT ![m] = Append(@, r)]
          /\ at' = [at EXCEPT ![r] = "waiting"]
          /\ UNCHANGED <<dead, reply, slots>>
       \/ /\ closed[m] \/ dead[r]
          /\ ReturnSlot(m)
          /\ Return(r)
          /\ UNCHANGED queue
    /\ UNCHANGED <<cancels, pending, lastCaller, closed, pc, running, needed, workers>>

\* The last select.  A caller that leaves takes neither its job nor its slot along.
Await(r) ==
    /\ at[r] = "waiting"
    /\ \/ reply[r] /\ Return(r)
       \/ (closed[LaneOf(r)] \/ dead[r]) /\ Return(r)
    /\ UNCHANGED <<cancels, buffers, closed, pc, running, needed, workers>>

\* The deadline passes, or the RPC is cancelled.
Cancel(r) ==
    /\ at[r] # "out" /\ ~dead[r] /\ cancels < mix.cancels
    /\ cancels' = cancels + 1
    /\ dead' = [dead EXCEPT ![r] = TRUE]
    /\ UNCHANGED <<at, reply, buffers, closed, pc, running, needed, workers>>

\* Router.Close: the GPU lane first, and only when its loop has ended the other.
Close(m) ==
    /\ mix.closes /\ ~closed[m] /\ (m = "cpu" => pc["gpu"] = "done")
    /\ closed' = [closed EXCEPT ![m] = TRUE]
    /\ UNCHANGED <<calls, buffers, pc, running, needed, workers>>

-----------------------------------------------------------------------------
(* The loop of a lane *)

\* The oldest job of each caller.
Oldest(jobs) == {i \in DOMAIN jobs : \A k \in 1..(i - 1) : Caller[jobs[k]] # Caller[jobs[i]]}

\* Mutant: the caller served last goes first again.
IsNextJob_SameCaller(m, jobs, i) ==
    LET last == {k \in Oldest(jobs) : Caller[jobs[k]] = lastCaller[m]}
    IN i \in IF last = {} THEN {1} ELSE last

\* nextJob: the callers in the order of their oldest jobs; the one after the
\* caller served last, or the first; its oldest job.
IsNextJob(m, jobs, i) ==
    LET later == {k \in Oldest(jobs) : \E last \in Oldest(jobs) : last < k /\ Caller[jobs[last]] = lastCaller[m]}
    IN IF later = {} THEN i = 1 ELSE i \in later /\ \A k \in later : i <= k

\* append(pending[:i], pending[i+1:]...)
Without(jobs, i) == SubSeq(jobs, 1, i - 1) \o SubSeq(jobs, i + 1, Len(jobs))

\* Drain the queue, choose, free the slot.
Take(m) ==
    LET jobs == pending[m] \o queue[m] IN
    /\ pc[m] = "idle" /\ ~closed[m]
    /\ \E i \in DOMAIN jobs :
        /\ IsNextJob(m, jobs, i)
        /\ pending' = [pending EXCEPT ![m] = Without(jobs, i)]
        /\ lastCaller' = [lastCaller EXCEPT ![m] = Caller[jobs[i]]]
        /\ job' = [job EXCEPT ![m] = jobs[i]]
    /\ queue' = [queue EXCEPT ![m] = << >>]
    /\ slots' = [slots EXCEPT ![m] = @ - 1]
    /\ pc' = [pc EXCEPT ![m] = "execute"]
    /\ UNCHANGED <<calls, closed, try, device, err, cause, needed, workers>>

\* Process.stop: the worker is killed and waited for.
StopProc(m) ==
    /\ proc' = [proc EXCEPT ![m] = NoProc]
    /\ rss' = [rss EXCEPT ![m] = 0]
    /\ killed' = [killed EXCEPT ![m] = FALSE]

\* Manager.unload; Process.Unload refuses to stop a model it is not asked for.
\* Its callers turn the refusal into an error; the worker is always the one the
\* status names (NothingLeftBehind), so it never comes.
Unload(m) ==
    IF active[m] # NoModel /\ (proc[m] # NoProc => Model[proc[m].profile] = active[m].model)
      THEN /\ active' = [active EXCEPT ![m] = NoModel]
           /\ StopProc(m)
      ELSE UNCHANGED workers

\* The idle tick.
IdleUnload(m) ==
    /\ pc[m] = "idle" /\ pending[m] = << >> /\ ~closed[m] /\ active[m] # NoModel
    /\ Unload(m)
    /\ UNCHANGED <<calls, buffers, closed, pc, running, needed>>

\* Mutant: the loop ends without its deferred unload.
Exit_StayResident(m) ==
    /\ pc[m] = "idle" /\ closed[m]
    /\ pc' = [pc EXCEPT ![m] = "done"]
    /\ UNCHANGED <<calls, buffers, closed, running, needed, workers>>

Exit(m) ==
    /\ pc[m] = "idle" /\ closed[m]
    /\ pc' = [pc EXCEPT ![m] = "done"]
    /\ Unload(m)
    /\ UNCHANGED <<calls, buffers, closed, running, needed>>

\* executeJob returns: its variables are gone.
JobOver(m) ==
    /\ job' = [job EXCEPT ![m] = None]
    /\ try' = [try EXCEPT ![m] = "first"]
    /\ device' = [device EXCEPT ![m] = "cpu"]
    /\ err' = [err EXCEPT ![m] = "other"]
    /\ cause' = [cause EXCEPT ![m] = FALSE]
    /\ pc' = [pc EXCEPT ![m] = "idle"]

\* The result, an error or not, goes into the buffered reply channel.
Reply(m) ==
    /\ reply' = [reply EXCEPT ![job[m]] = at[job[m]] = "waiting"]
    /\ JobOver(m)

JobProfile(m) == Profile[job[m]]
Wanted(m) == Model[JobProfile(m)]

\* The context of the job, or that of the manager, is done.
JobDone(m) == dead[job[m]] \/ closed[m]

\* executeJob skips a job whose caller is gone.
Skip(m) ==
    /\ pc[m] = "execute" /\ dead[job[m]]
    /\ JobOver(m)
    /\ UNCHANGED <<calls, buffers, closed, needed, workers>>

\* Verify fails: missing or changed model files, a dead context.
VerifyFails(m) ==
    /\ pc[m] = "execute"
    /\ Reply(m)
    /\ UNCHANGED <<at, dead, cancels, buffers, closed, needed, workers>>

\* admitGPU: device memory is external; a resident other model refuses.
AdmitGPU(m, unloaded) ==
    /\ m = "gpu"
    /\ ~unloaded /\ proc[m] # NoProc => Model[proc[m].profile] = Wanted(m)

\* Another model is active, or a CPU request finds it on the GPU.
Switch(m) ==
    /\ active[m] # NoModel
    /\ active[m].model # Wanted(m) \/ ((CpuOnly[job[m]] \/ m = "cpu") /\ active[m].device # "cpu")

\* execute up to its first run: unload what is in the way, choose the device.
Execute(m) ==
    /\ pc[m] = "execute"
    /\ \E d \in Device :
        /\ d = "gpu" => ~CpuOnly[job[m]] /\ AdmitGPU(m, Switch(m))
        /\ IF Switch(m) \/ (active[m].device \notin {None, d} /\ (d = "gpu" \/ CpuFallback[JobProfile(m)]))
             THEN Unload(m) ELSE UNCHANGED workers
        /\ \/ /\ d = "gpu" \/ CpuFallback[JobProfile(m)]
              /\ device' = [device EXCEPT ![m] = d]
              /\ try' = [try EXCEPT ![m] = "first"]
              /\ pc' = [pc EXCEPT ![m] = "admit"]
              /\ UNCHANGED <<job, reply, err, cause>>
           \/ /\ d = "cpu" /\ ~CpuFallback[JobProfile(m)]
              /\ Reply(m)
    /\ UNCHANGED <<at, dead, cancels, buffers, closed, needed>>

-----------------------------------------------------------------------------
(* run: admission, the worker process, sampling *)

UsedRAM == rss["gpu"] + rss["cpu"]
Reserved == needed["gpu"] + needed["cpu"]

\* What the worker of the same model already holds.
OwnRAM(m) == IF proc[m] # NoProc /\ Model[proc[m].profile] = Wanted(m) THEN rss[m] ELSE 0

Needed(m) ==
    LET peak == PeakRAM[JobProfile(m)][device[m]]
    IN IF OwnRAM(m) < peak THEN peak - OwnRAM(m) ELSE 0

\* Mutant: what the other lane has reserved and not yet used is forgotten.
FitsRAM_Unreserved(m) == UsedRAM + Needed(m) <= Limit

FitsRAM(m) == UsedRAM + Reserved + Needed(m) <= Limit

\* Process.ensure: the worker of this very profile and device, or a new one.
Ensure(m) ==
    LET wanted == [profile |-> JobProfile(m), device |-> device[m]] IN
    /\ proc' = [proc EXCEPT ![m] = wanted]
    /\ rss' = [rss EXCEPT ![m] = IF proc[m] = wanted THEN @ ELSE 0]
    /\ killed' = [killed EXCEPT ![m] = proc[m] = wanted /\ @]

\* acquireRAM under the gate's mutex, the status run sets, and the worker.  Until
\* an old worker is stopped the other lane sees more memory in use and may be
\* refused, which it may be anyway.
AcquireRAM(m) ==
    /\ pc[m] = "admit" /\ FitsRAM(m)
    /\ needed' = [needed EXCEPT ![m] = Needed(m)]
    /\ active' = [active EXCEPT ![m] = [model |-> Wanted(m), device |-> device[m]]]
    /\ Ensure(m)
    /\ cause' = [cause EXCEPT ![m] = FALSE]
    /\ pc' = [pc EXCEPT ![m] = "infer"]
    /\ UNCHANGED <<calls, buffers, closed, job, try, device, err>>

\* No room, no telemetry, or a host short of memory.
RefuseRAM(m) ==
    /\ pc[m] = "admit"
    /\ err' = [err EXCEPT ![m] = "resources"]
    /\ pc' = [pc EXCEPT ![m] = "decide"]
    /\ UNCHANGED <<calls, buffers, closed, job, try, device, cause, needed, workers>>

\* The worker (external) loads and computes.
Grow(m) ==
    /\ pc[m] = "infer" /\ ~killed[m]
    /\ \E n \in (rss[m] + 1)..PeakRAM[proc[m].profile][proc[m].device] : rss' = [rss EXCEPT ![m] = n]
    /\ UNCHANGED <<calls, buffers, closed, pc, running, needed, active, proc, killed>>

\* The sampler sees too much memory in use, or no telemetry.
Overrun(m) ==
    /\ pc[m] = "infer" /\ ~JobDone(m) /\ ~cause[m]
    /\ cause' = [cause EXCEPT ![m] = TRUE]
    /\ UNCHANGED <<calls, buffers, closed, pc, job, try, device, err, needed, workers>>

RunDone(m) == JobDone(m) \/ cause[m]

\* exchange returns and the worker lives on.  A context that ends after the last
\* look at it still kills: AfterFunc is only stopped on return.
Answer(m) ==
    /\ pc[m] = "infer" /\ ~killed[m]
    /\ \E e \in {"other", "oom"} : err' = [err EXCEPT ![m] = e]
    /\ \E late \in {FALSE, RunDone(m)} : killed' = [killed EXCEPT ![m] = late]
    /\ pc' = [pc EXCEPT ![m] = "sample"]
    /\ UNCHANGED <<calls, buffers, closed, job, try, device, cause, needed, active, proc, rss>>

\* exchange stops the worker: it died, could not start or load, talked nonsense,
\* or its context was done.
WorkerLost(m) ==
    /\ pc[m] = "infer"
    /\ \E e \in {"other", "oom"} : err' = [err EXCEPT ![m] = e]
    /\ StopProc(m)
    /\ pc' = [pc EXCEPT ![m] = "sample"]
    /\ UNCHANGED <<calls, buffers, closed, job, try, device, cause, needed, active>>

\* The end of run: a cancelled or overrun one unloads; the reservation is released.
Settle(m, over) ==
    /\ IF RunDone(m) \/ over THEN Unload(m) ELSE UNCHANGED workers
    /\ needed' = [needed EXCEPT ![m] = 0]

\* The final samples and the cause of a cancellation, which outweighs any answer.
Sample(m) ==
    /\ pc[m] = "sample"
    /\ \E over \in BOOLEAN :
        /\ over => ~RunDone(m)
        /\ err' = [err EXCEPT ![m] = CASE cause[m] \/ over -> "resources"
                                       [] JobDone(m) /\ ~cause[m] /\ ~over -> "other"
                                       [] OTHER -> @]
        /\ Settle(m, over)
    /\ pc' = [pc EXCEPT ![m] = "decide"]
    /\ UNCHANGED <<calls, buffers, closed, job, try, device, cause>>

Exhausted(m) == err[m] \in {"oom", "resources"}

\* The rest of execute: an exhausted GPU run is unloaded and tried once more with
\* a batch of one, or on the CPU; anything else is the answer.
RetryRun(m) ==
    /\ pc[m] = "decide" /\ try[m] = "first" /\ device[m] = "gpu" /\ err[m] = "oom" /\ ~JobDone(m)
    /\ Batched[JobProfile(m)] /\ AdmitGPU(m, TRUE)
    /\ Unload(m)
    /\ try' = [try EXCEPT ![m] = "retry"]
    /\ pc' = [pc EXCEPT ![m] = "admit"]
    /\ UNCHANGED <<calls, buffers, closed, job, device, err, cause, needed>>

FallBack(m) ==
    /\ pc[m] = "decide" /\ device[m] = "gpu" /\ Exhausted(m) /\ CpuFallback[JobProfile(m)]
    /\ try[m] = "first" => ~JobDone(m)
    /\ Unload(m)
    /\ try' = [try EXCEPT ![m] = "fallback"]
    /\ device' = [device EXCEPT ![m] = "cpu"]
    /\ pc' = [pc EXCEPT ![m] = "admit"]
    /\ UNCHANGED <<calls, buffers, closed, job, err, cause, needed>>

Finish(m) ==
    /\ pc[m] = "decide"
    /\ \/ /\ device[m] = "cpu" \/ ~Exhausted(m) \/ (try[m] = "first" /\ JobDone(m))
          /\ UNCHANGED workers
       \/ /\ device[m] = "gpu" /\ Exhausted(m) /\ ~CpuFallback[JobProfile(m)]
          /\ try[m] = "first" => ~JobDone(m)
          /\ IF try[m] = "first" THEN Unload(m) ELSE UNCHANGED workers
    /\ Reply(m)
    /\ UNCHANGED <<at, dead, cancels, buffers, closed, needed>>

-----------------------------------------------------------------------------
LaneStep(m) ==
    /\ \/ Take(m) \/ Skip(m) \/ VerifyFails(m) \/ Execute(m) \/ AcquireRAM(m) \/ RefuseRAM(m)
       \/ Answer(m) \/ WorkerLost(m) \/ Sample(m) \/ RetryRun(m) \/ FallBack(m) \/ Finish(m) \/ Exit(m)
    /\ UNCHANGED mix

CallerStep(r) == (Send(r) \/ Await(r)) /\ UNCHANGED mix

Environment ==
    /\ \/ \E r \in mix.requests : Infer(r) \/ Cancel(r)
       \/ \E m \in Lanes : IdleUnload(m) \/ Grow(m) \/ Overrun(m) \/ Close(m)
    /\ UNCHANGED mix

Next ==
    \/ \E r \in mix.requests : CallerStep(r)
    \/ \E m \in Lanes : LaneStep(m)
    \/ Environment

Spec == Init /\ [][Next]_vars

\* The loops and the callers' goroutines run; a run ends at the latest when the
\* request's deadline kills its worker.  Nobody has to call, cancel or close.
FairSpec ==
    /\ Spec
    /\ \A m \in Lanes : WF_vars(LaneStep(m))
    /\ \A r \in Requests : WF_vars(CallerStep(r))

-----------------------------------------------------------------------------
(* Properties *)

\* A slot is held by exactly the calls that are about to be queued or wait in the
\* queue, cancelled ones included: none is lost when a caller leaves between its
\* three selects (manager.go:159-187), so the queue has room for every holder.
SlotsAccounted ==
    TypeOK /\ \A m \in Lanes :
        slots[m] = Len(queue[m]) + Len(pending[m])
                     + Cardinality({r \in Requests : at[r] = "slot" /\ LaneOf(r) = m})

\* The worker a lane has is the one its status names, so unload always stops it
\* and never another; reservations end with their runs; and when the loop has
\* ended, whatever it was doing when Close came, nothing of it is left.  "Canceled
\* active tensor work kills and waits for the owned Python process before another
\* worker can start" (local-model-service.md:36): one that a cancellation killed just
\* after it had answered is gone before the next run.
NothingLeftBehind ==
    \A m \in Lanes :
        /\ proc[m] # NoProc => active[m] = [model |-> Model[proc[m].profile], device |-> proc[m].device]
        /\ needed[m] > 0 => pc[m] \in {"infer", "sample"}
        /\ pc[m] = "done" => proc[m] = NoProc /\ rss[m] = 0
        /\ killed[m] => pc[m] = "sample"

\* The peak of an admitted run, or what an idle worker holds.
Promised(m) ==
    IF pc[m] = "infer" THEN PeakRAM[JobProfile(m)][device[m]] ELSE rss[m]

\* "A shared admission gate prevents simultaneous cold loads from promising the
\* same RAM" (local-model-service.md:53), as it stands.  It holds only where no
\* lane has two profiles of one model, which the deployed catalog has.
PromisedWithinBudget == Promised("gpu") + Promised("cpu") <= Limit

\* What the run that started this worker may have been credited for a worker of
\* the same model (manager.go:541) that ensure stopped because its profile was
\* another (process.go:192-195): at most the other profile's allowance.
Credits(m) ==
    {0} \cup {PeakRAM[q][proc[m].device] : q \in
        {q \in Profiles \ {proc[m].profile} : proc[m] # NoProc /\ Lane[q] = m /\ Model[q] = Model[proc[m].profile]}}

\* What the shared gate does keep, in every catalog: the peaks of the admitted
\* runs and what idle workers hold exceed the budget at most by the credit one
\* of them had for a stopped worker, never by two credits, and never when the
\* model of neither worker has another profile.
PromisedUpToCredit ==
    \E m \in Lanes : \E x \in Credits(m) : Promised("gpu") + Promised("cpu") <= Limit + x

\* Round robin starves nobody: a queued call returns, however many others
\* keep coming, unless its own context ends or the service closes.
AnsweredUnlessCancelled ==
    \A r \in Requests : at[r] = "waiting" ~> at[r] = "out" \/ dead[r] \/ closed[LaneOf(r)]
=============================================================================
