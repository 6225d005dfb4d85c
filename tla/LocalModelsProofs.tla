-------------------------- MODULE LocalModelsProofs --------------------------
(***************************************************************************)
(* Proofs for LocalModels, for any number of requests, callers and         *)
(* profiles, any queue size and budget, and any allowances.                *)
(*                                                                         *)
(* Slots and workers need only Inv; the budget also needs Budgeted: what   *)
(* each run has reserved, up to a credit for a worker that was stopped.    *)
(***************************************************************************)
EXTENDS LocalModels, FiniteSetTheorems, TLAPS

\* Most leaves unfold definitions and compare cases; those with arithmetic cite SMT.
USE ZenonT(30)

\* The requests of a lane.
Of(m) == {r \in Requests : LaneOf(r) = m}

Busy == {"execute", "admit", "infer", "sample", "decide"}

Types ==
    /\ mix \in Mixes
    /\ at \in [Requests -> {"out", "slot", "waiting"}]
    /\ dead \in [Requests -> BOOLEAN] /\ cancels \in 0..mix.cancels
    /\ reply \in [Requests -> BOOLEAN]
    /\ lastCaller \in [Lanes -> {Caller[r] : r \in Requests} \cup {None}]
    /\ closed \in [Lanes -> BOOLEAN]
    /\ pc \in [Lanes -> Busy \cup {"idle", "done"}]
    /\ try \in [Lanes -> {"first", "retry", "fallback"}]
    /\ device \in [Lanes -> Device]
    /\ err \in [Lanes -> Errors] /\ cause \in [Lanes -> BOOLEAN]

\* The jobs a lane holds are jobs of the lane.
Jobs ==
    /\ queue \in [Lanes -> Seq(Requests)] /\ pending \in [Lanes -> Seq(Requests)]
    /\ job \in [Lanes -> Requests \cup {None}]
    /\ \A m \in Lanes :
        /\ queue[m] \in Seq(Of(m)) /\ pending[m] \in Seq(Of(m))
        /\ pc[m] \in Busy => job[m] \in Of(m)

Holders(m) == {r \in Requests : at[r] = "slot" /\ LaneOf(r) = m}

Slots ==
    /\ slots \in [Lanes -> 0..QueueSize]
    /\ \A m \in Lanes : slots[m] = Len(queue[m]) + Len(pending[m]) + Cardinality(Holders(m))

\* A worker process: its status, its memory, and when it may be found killed.
WorkerOK(m) ==
    /\ proc[m] # NoProc =>
          /\ proc[m].profile \in Profiles /\ Lane[proc[m].profile] = m /\ proc[m].device \in Device
          /\ active[m] = [model |-> Model[proc[m].profile], device |-> proc[m].device]
          /\ rss[m] <= PeakRAM[proc[m].profile][proc[m].device]
    /\ proc[m] = NoProc => rss[m] = 0 /\ ~killed[m]
    /\ killed[m] => pc[m] = "sample" /\ RunDone(m)
    /\ needed[m] > 0 => pc[m] \in {"infer", "sample"}
    /\ pc[m] = "done" => proc[m] = NoProc
    \* A run finds no worker, or one of the model and the device it is for.
    /\ pc[m] = "admit" /\ proc[m] # NoProc => Model[proc[m].profile] = Wanted(m) /\ proc[m].device = device[m]
    /\ pc[m] = "infer" => proc[m] = [profile |-> JobProfile(m), device |-> device[m]]

Workers ==
    /\ needed \in [Lanes -> 0..Limit]
    /\ active \in [Lanes -> [model : {Model[p] : p \in Profiles} \cup {None}, device : Device \cup {None}]]
    /\ proc \in [Lanes -> [profile : Profiles \cup {None}, device : Device \cup {None}]]
    /\ rss \in [Lanes -> Nat] /\ killed \in [Lanes -> BOOLEAN]
    /\ \A m \in Lanes : WorkerOK(m)

Inv == Types /\ Jobs /\ Slots /\ Workers

\* A run has reserved what its worker may still grow by, but for a credit; either
\* lane alone is within the budget.
Reserves(m) == \E x \in Credits(m) : PeakRAM[JobProfile(m)][device[m]] <= rss[m] + needed[m] + x

Budgeted ==
    /\ \A m \in Lanes : (pc[m] = "infer" => Reserves(m)) /\ Promised(m) <= Limit
    /\ PromisedUpToCredit

-----------------------------------------------------------------------------
(* What a step of one lane leaves alone *)

\* g differs from f in lane m only.
Only(m, f, g, S) == g \in [Lanes -> S] /\ \A k \in Lanes \ {m} : g[k] = f[k]

LEMMA OnlyExcept ==
    ASSUME NEW m \in Lanes, NEW S, NEW f \in [Lanes -> S], NEW v \in S
    PROVE  Only(m, f, [f EXCEPT ![m] = v], S) /\ [f EXCEPT ![m] = v][m] = v
BY DEF Only

LEMMA OnlySame ==
    ASSUME NEW m \in Lanes, NEW S, NEW f \in [Lanes -> S]
    PROVE  Only(m, f, f, S)
BY DEF Only

Points == Busy \cup {"idle", "done"}
ModelStatus == [model : {Model[p] : p \in Profiles} \cup {None}, device : Device \cup {None}]
ProcStatus == [profile : Profiles \cup {None}, device : Device \cup {None}]

WorkersOnly(m) ==
    /\ Only(m, active, active', ModelStatus) /\ Only(m, proc, proc', ProcStatus)
    /\ Only(m, rss, rss', Nat) /\ Only(m, killed, killed', BOOLEAN)

\* The worker of lane m is stopped.
Stopped(m) == proc'[m] = NoProc /\ rss'[m] = 0 /\ killed'[m] = FALSE

LEMMA Constants ==
    /\ None \notin Device /\ NoModel \in ModelStatus /\ NoProc \in ProcStatus
    /\ \A p \in Profiles, d \in Device : PeakRAM[p][d] \in Nat
    /\ \A m \in Lanes : \A r \in Of(m) : r \in Requests /\ Profile[r] \in Profiles /\ Lane[Profile[r]] = m
    /\ \A r \in Requests : LaneOf(r) \in Lanes
BY LocalModelsAssumption DEF None, Device, NoModel, ModelStatus, NoProc, ProcStatus, Of, LaneOf

LEMMA WorkersSame ==
    ASSUME Inv, NEW m \in Lanes, UNCHANGED workers
    PROVE  WorkersOnly(m)
BY OnlySame DEF Inv, Workers, workers, WorkersOnly, ModelStatus, ProcStatus

LEMMA ProcStops ==
    ASSUME Inv, NEW m \in Lanes, StopProc(m)
    PROVE  /\ Stopped(m) /\ Only(m, proc, proc', ProcStatus)
           /\ Only(m, rss, rss', Nat) /\ Only(m, killed, killed', BOOLEAN)
BY Constants, OnlyExcept DEF Inv, Workers, StopProc, Stopped, ProcStatus

\* The worker is the one its status names, so unload always stops it.
LEMMA UnloadStops ==
    ASSUME Inv, NEW m \in Lanes, Unload(m)
    PROVE  Stopped(m) /\ WorkersOnly(m)
<1>1. WorkerOK(m) /\ active \in [Lanes -> ModelStatus]
  BY DEF Inv, Workers, ModelStatus
<1>2. CASE active[m] # NoModel /\ (proc[m] # NoProc => Model[proc[m].profile] = active[m].model)
  <2>1. active' = [active EXCEPT ![m] = NoModel] /\ StopProc(m)
    BY <1>2 DEF Unload
  <2> QED BY <1>1, <2>1, ProcStops, Constants, OnlyExcept DEF WorkersOnly
<1>3. CASE ~(active[m] # NoModel /\ (proc[m] # NoProc => Model[proc[m].profile] = active[m].model))
  <2>1. UNCHANGED workers
    BY <1>3 DEF Unload
  <2>2. proc[m] = NoProc
    BY <1>1, <1>3, Constants, SMTT(30) DEF WorkerOK, NoModel
  <2>3. rss[m] = 0 /\ killed[m] = FALSE
    BY <1>1, <2>2 DEF WorkerOK, Inv, Workers
  <2> QED BY <2>1, <2>2, <2>3, WorkersSame DEF Stopped, workers
<1> QED BY <1>2, <1>3

\* A worker nothing happens to.
LEMMA WorkerKept ==
    ASSUME NEW m \in Lanes, WorkerOK(m), killed[m] => RunDone(m)',
           pc'[m] = pc[m], job'[m] = job[m], device'[m] = device[m],
           active'[m] = active[m], proc'[m] = proc[m], rss'[m] = rss[m],
           killed'[m] = killed[m], needed'[m] = needed[m]
    PROVE  WorkerOK(m)'
BY DEF WorkerOK, Wanted, JobProfile

\* What a step of the loop of lane m leaves alone, and what it still has to show.
LEMMA LaneMove ==
    ASSUME Inv, NEW m \in Lanes, UNCHANGED <<mix, at, dead, cancels, buffers, closed>>,
           reply' \in [Requests -> BOOLEAN],
           try' \in [Lanes -> {"first", "retry", "fallback"}], err' \in [Lanes -> Errors],
           Only(m, pc, pc', Points), Only(m, job, job', Requests \cup {None}),
           Only(m, device, device', Device), Only(m, cause, cause', BOOLEAN),
           Only(m, needed, needed', 0..Limit), WorkersOnly(m),
           pc'[m] \in Busy => job'[m] \in Of(m), WorkerOK(m)'
    PROVE  Inv'
<1>1. Types'
  BY DEF Inv, Types, Only, Points, buffers
<1>2. Jobs'
  BY DEF Inv, Jobs, Only, buffers
<1>3. Slots'
  <2>1. \A k \in Lanes : Holders(k)' = Holders(k)
    BY DEF Holders
  <2> QED BY <2>1 DEF Inv, Slots, buffers
<1>4. ASSUME NEW k \in Lanes PROVE WorkerOK(k)'
  <2>1. CASE k = m
    BY <2>1
  <2>2. CASE k # m
    <3>1. WorkerOK(k)
      BY DEF Inv, Workers
    <3>2. /\ pc'[k] = pc[k] /\ job'[k] = job[k] /\ device'[k] = device[k] /\ cause'[k] = cause[k]
          /\ active'[k] = active[k] /\ proc'[k] = proc[k] /\ rss'[k] = rss[k]
          /\ killed'[k] = killed[k] /\ needed'[k] = needed[k]
      BY <2>2 DEF Only, WorkersOnly
    <3>3. killed[k] => RunDone(k)'
      BY <3>1, <3>2 DEF WorkerOK, RunDone, JobDone
    <3> QED BY <3>1, <3>2, <3>3, WorkerKept
  <2> QED BY <2>1, <2>2
<1>5. Workers'
  BY <1>4 DEF Workers, Only, WorkersOnly, ModelStatus, ProcStatus
<1> QED BY <1>1, <1>2, <1>3, <1>5 DEF Inv

LEMMA InvTypes ==
    ASSUME Inv
    PROVE  /\ pc \in [Lanes -> Points] /\ job \in [Lanes -> Requests \cup {None}]
           /\ device \in [Lanes -> Device] /\ cause \in [Lanes -> BOOLEAN] /\ closed \in [Lanes -> BOOLEAN]
           /\ try \in [Lanes -> {"first", "retry", "fallback"}] /\ err \in [Lanes -> Errors]
           /\ needed \in [Lanes -> 0..Limit] /\ active \in [Lanes -> ModelStatus]
           /\ proc \in [Lanes -> ProcStatus] /\ rss \in [Lanes -> Nat] /\ killed \in [Lanes -> BOOLEAN]
           /\ reply \in [Requests -> BOOLEAN] /\ Limit \in Nat
           /\ \A m \in Lanes : /\ WorkerOK(m) /\ (pc[m] \in Busy => job[m] \in Of(m))
                               /\ needed[m] \in Nat /\ (pc[m] \notin {"infer", "sample"} => needed[m] = 0)
                               /\ (pc[m] # "sample" => killed[m] = FALSE)
<1>1. Limit \in Nat
  BY LocalModelsAssumption
<1>2. \A m \in Lanes : /\ WorkerOK(m) /\ (pc[m] \in Busy => job[m] \in Of(m)) /\ needed[m] \in Nat
  BY <1>1, SMTT(30) DEF Inv, Jobs, Workers
<1>3. \A m \in Lanes : pc[m] \notin {"infer", "sample"} => needed[m] = 0
  <2>1. \A m \in Lanes : needed[m] > 0 => pc[m] \in {"infer", "sample"}
    BY <1>2 DEF WorkerOK
  <2> QED BY <1>2, <2>1, SMTT(30)
<1>4. \A m \in Lanes : pc[m] # "sample" => killed[m] = FALSE
  BY <1>2, SMTT(30) DEF WorkerOK, Inv, Workers
<1> QED BY <1>1, <1>2, <1>3, <1>4 DEF Inv, Types, Jobs, Workers, Points, ModelStatus, ProcStatus

\* A lane whose worker is stopped, outside a run or at its end.
LEMMA WorkerGone ==
    ASSUME NEW m \in Lanes, Stopped(m), pc'[m] # "infer", needed'[m] > 0 => pc'[m] = "sample"
    PROVE  WorkerOK(m)'
BY DEF Stopped, WorkerOK

\* A lane between two runs keeps its worker.
LEMMA WorkerRests ==
    ASSUME Inv, NEW m \in Lanes, pc'[m] \in {"idle", "execute", "decide"}, needed'[m] = 0, killed'[m] = FALSE,
           active'[m] = active[m], proc'[m] = proc[m], rss'[m] = rss[m]
    PROVE  WorkerOK(m)'
<1>1. WorkerOK(m)
  BY InvTypes
<1> QED BY <1>1, SMTT(30) DEF WorkerOK

-----------------------------------------------------------------------------
(* The steps of the loop *)

LEMMA ReplyTyped ==
    ASSUME Inv, NEW m \in Lanes, Reply(m)
    PROVE  reply' \in [Requests -> BOOLEAN] /\ JobOver(m)
BY InvTypes DEF Reply

\* executeJob returns, its worker resting or stopped.
LEMMA JobOverInv ==
    ASSUME Inv, NEW m \in Lanes, pc[m] \in {"execute", "decide"}, JobOver(m),
           UNCHANGED <<mix, at, dead, cancels, buffers, closed, needed>>,
           reply' \in [Requests -> BOOLEAN], UNCHANGED workers \/ (WorkersOnly(m) /\ Stopped(m))
    PROVE  Inv'
<1>1. "cpu" \in Device /\ "other" \in Errors /\ "idle" \in Points /\ FALSE \in BOOLEAN /\ "idle" \notin Busy
  BY DEF Device, Errors, Points, Busy
<1>2. /\ Only(m, pc, pc', Points) /\ pc'[m] = "idle" /\ Only(m, job, job', Requests \cup {None})
      /\ Only(m, device, device', Device) /\ Only(m, cause, cause', BOOLEAN)
  BY <1>1, InvTypes, OnlyExcept DEF JobOver
<1>3. try' \in [Lanes -> {"first", "retry", "fallback"}] /\ err' \in [Lanes -> Errors]
  BY <1>1, InvTypes DEF JobOver
<1>4. Only(m, needed, needed', 0..Limit) /\ needed'[m] = 0
  BY InvTypes, OnlySame
<1>5. WorkersOnly(m)
  BY WorkersSame
<1>6. WorkerOK(m)'
  <2>1. CASE UNCHANGED workers
    <3>1. killed'[m] = FALSE /\ active'[m] = active[m] /\ proc'[m] = proc[m] /\ rss'[m] = rss[m]
      BY <2>1, InvTypes DEF workers
    <3> QED BY <1>2, <1>4, <3>1, WorkerRests
  <2>2. CASE Stopped(m)
    BY <1>2, <1>4, <2>2, WorkerGone, SMTT(30)
  <2> QED BY <2>1, <2>2
<1> QED BY <1>1, <1>2, <1>3, <1>4, <1>5, <1>6, LaneMove

LEMMA SkipInv ==
    ASSUME Inv, NEW m \in Lanes, Skip(m) \/ VerifyFails(m), UNCHANGED mix
    PROVE  Inv'
<1>1. CASE Skip(m)
  <2>1. reply' \in [Requests -> BOOLEAN]
    BY <1>1, InvTypes DEF Skip, calls
  <2> QED BY <1>1, <2>1, JobOverInv DEF Skip, calls
<1>2. CASE VerifyFails(m)
  BY <1>2, ReplyTyped, JobOverInv DEF VerifyFails
<1> QED BY <1>1, <1>2

\* The steps that unload and leave the job, if any, as it is.
LEMMA UnloadInv ==
    ASSUME Inv, NEW m \in Lanes, UNCHANGED <<mix, calls, buffers, closed, job, err, cause>>, Unload(m),
           Only(m, pc, pc', Points), pc'[m] # "infer", pc'[m] \in Busy => pc[m] \in Busy,
           Only(m, device, device', Device), try' \in [Lanes -> {"first", "retry", "fallback"}],
           Only(m, needed, needed', 0..Limit), needed'[m] = 0
    PROVE  Inv'
<1>1. Stopped(m) /\ WorkersOnly(m)
  BY UnloadStops
<1>2. WorkerOK(m)'
  BY <1>1, WorkerGone, SMTT(30)
<1>3. Only(m, job, job', Requests \cup {None}) /\ Only(m, cause, cause', BOOLEAN)
  BY InvTypes, OnlySame
<1>4. pc'[m] \in Busy => job'[m] \in Of(m)
  BY InvTypes
<1> QED BY <1>1, <1>2, <1>3, <1>4, InvTypes, LaneMove DEF calls

LEMMA IdleInv ==
    ASSUME Inv, NEW m \in Lanes, IdleUnload(m) \/ Exit(m), UNCHANGED mix
    PROVE  Inv'
<1>1. UNCHANGED <<calls, buffers, closed, running, needed>> /\ Unload(m) /\ pc[m] = "idle"
  BY DEF IdleUnload, Exit
<1>2. "done" \in Points /\ "done" \notin Busy /\ "idle" \notin Busy
  BY DEF Points, Busy
<1>3. Only(m, pc, pc', Points) /\ pc'[m] \in {"idle", "done"}
  BY <1>1, <1>2, InvTypes, OnlyExcept, OnlySame, SMTT(30) DEF IdleUnload, Exit
<1>4. Only(m, device, device', Device) /\ Only(m, needed, needed', 0..Limit) /\ needed'[m] = 0
  BY <1>1, InvTypes, OnlySame DEF running
<1> QED BY <1>1, <1>2, <1>3, <1>4, InvTypes, UnloadInv DEF running

LEMMA RetryInv ==
    ASSUME Inv, NEW m \in Lanes, RetryRun(m) \/ FallBack(m), UNCHANGED mix
    PROVE  Inv'
<1>1. UNCHANGED <<calls, buffers, closed, job, err, cause, needed>> /\ Unload(m) /\ pc[m] = "decide"
  BY DEF RetryRun, FallBack
<1>2. "admit" \in Points /\ "decide" \in Busy /\ "cpu" \in Device
  BY DEF Points, Busy, Device
<1>3. Only(m, pc, pc', Points) /\ pc'[m] = "admit"
  <2>1. pc' = [pc EXCEPT ![m] = "admit"]
    BY DEF RetryRun, FallBack
  <2> QED BY <1>2, <2>1, InvTypes, OnlyExcept
<1>4. Only(m, needed, needed', 0..Limit) /\ needed'[m] = 0
  BY <1>1, InvTypes, OnlySame
<1>5. Only(m, device, device', Device) /\ try' \in [Lanes -> {"first", "retry", "fallback"}]
  <2>1. \/ try' = [try EXCEPT ![m] = "retry"] /\ device' = device
        \/ try' = [try EXCEPT ![m] = "fallback"] /\ device' = [device EXCEPT ![m] = "cpu"]
    BY DEF RetryRun, FallBack
  <2>2. Only(m, device, device', Device)
    BY <1>2, <2>1, InvTypes, OnlySame, OnlyExcept, SMTT(30)
  <2> QED BY <2>1, <2>2, InvTypes
<1> QED BY <1>1, <1>2, <1>3, <1>4, <1>5, UnloadInv

LEMMA FinishInv ==
    ASSUME Inv, NEW m \in Lanes, Finish(m), UNCHANGED mix
    PROVE  Inv'
<1>1. UNCHANGED workers \/ (WorkersOnly(m) /\ Stopped(m))
  BY UnloadStops DEF Finish
<1> QED BY <1>1, ReplyTyped, JobOverInv DEF Finish

LEMMA RefuseInv ==
    ASSUME Inv, NEW m \in Lanes, RefuseRAM(m), UNCHANGED mix
    PROVE  Inv'
<1>1. /\ pc[m] = "admit" /\ UNCHANGED <<calls, buffers, closed, job, try, device, cause, needed, workers>>
  BY DEF RefuseRAM
<1>2. "decide" \in Points /\ "decide" \in Busy /\ "admit" \in Busy /\ "resources" \in Errors
  BY DEF Points, Busy, Errors
<1>3. Only(m, pc, pc', Points) /\ pc'[m] = "decide" /\ err' \in [Lanes -> Errors]
  BY <1>2, InvTypes, OnlyExcept DEF RefuseRAM
<1>4. /\ Only(m, job, job', Requests \cup {None}) /\ Only(m, device, device', Device)
      /\ Only(m, cause, cause', BOOLEAN) /\ Only(m, needed, needed', 0..Limit) /\ needed'[m] = 0
      /\ WorkersOnly(m) /\ job'[m] \in Of(m)
  BY <1>1, <1>2, InvTypes, OnlySame, WorkersSame
<1>5. killed'[m] = FALSE /\ active'[m] = active[m] /\ proc'[m] = proc[m] /\ rss'[m] = rss[m]
  BY <1>1, InvTypes DEF workers
<1>6. WorkerOK(m)'
  BY <1>3, <1>4, <1>5, WorkerRests
<1> QED BY <1>1, <1>3, <1>4, <1>6, InvTypes, LaneMove DEF calls

LEMMA ExecuteInv ==
    ASSUME Inv, NEW m \in Lanes, Execute(m), UNCHANGED mix
    PROVE  Inv'
<1>1. pc[m] = "execute" /\ UNCHANGED <<at, dead, cancels, buffers, closed, needed>>
  BY DEF Execute
<1>2. PICK d \in Device :
        /\ IF Switch(m) \/ (active[m].device \notin {None, d} /\ (d = "gpu" \/ CpuFallback[JobProfile(m)]))
             THEN Unload(m) ELSE UNCHANGED workers
        /\ \/ /\ d = "gpu" \/ CpuFallback[JobProfile(m)]
              /\ device' = [device EXCEPT ![m] = d]
              /\ try' = [try EXCEPT ![m] = "first"]
              /\ pc' = [pc EXCEPT ![m] = "admit"]
              /\ UNCHANGED <<job, reply, err, cause>>
           \/ /\ d = "cpu" /\ ~CpuFallback[JobProfile(m)]
              /\ Reply(m)
  BY DEF Execute
<1>3. UNCHANGED workers \/ (WorkersOnly(m) /\ Stopped(m))
  BY <1>2, UnloadStops
<1>4. CASE Reply(m)
  BY <1>1, <1>3, <1>4, ReplyTyped, JobOverInv
<1>5. CASE /\ d = "gpu" \/ CpuFallback[JobProfile(m)]
           /\ device' = [device EXCEPT ![m] = d]
           /\ try' = [try EXCEPT ![m] = "first"]
           /\ pc' = [pc EXCEPT ![m] = "admit"]
           /\ UNCHANGED <<job, reply, err, cause>>
  <2>1. "admit" \in Points /\ "execute" \in Busy
    BY DEF Points, Busy
  <2>2. /\ Only(m, pc, pc', Points) /\ pc'[m] = "admit" /\ Only(m, device, device', Device) /\ device'[m] = d
        /\ try' \in [Lanes -> {"first", "retry", "fallback"}]
    BY <1>5, <2>1, InvTypes, OnlyExcept
  <2>3. /\ Only(m, job, job', Requests \cup {None}) /\ Only(m, cause, cause', BOOLEAN) /\ job'[m] \in Of(m)
        /\ Only(m, needed, needed', 0..Limit) /\ needed'[m] = 0
    BY <1>1, <1>5, <2>1, InvTypes, OnlySame
  <2>4. WorkersOnly(m)
    BY <1>3, WorkersSame
  <2>5. WorkerOK(m)'
    <3>1. CASE Stopped(m)
      BY <2>2, <2>3, <3>1, WorkerGone, SMTT(30)
    <3>2. CASE ~Stopped(m)
      <4>1. UNCHANGED workers /\ ~Switch(m) /\ active[m].device \in {None, d}
        BY <1>2, <1>5, <3>2, UnloadStops
      <4>2. WorkerOK(m) /\ killed[m] = FALSE
        BY <1>1, InvTypes
      <4>3. ASSUME proc[m] # NoProc
            PROVE  Model[proc[m].profile] = Wanted(m) /\ proc[m].device = d
        <5>1. active[m] = [model |-> Model[proc[m].profile], device |-> proc[m].device] /\ proc[m].device \in Device
          BY <4>2, <4>3 DEF WorkerOK
        <5>2. active[m] # NoModel
          BY <5>1, Constants, SMTT(30) DEF NoModel
        <5> QED BY <4>1, <5>1, <5>2, Constants, SMTT(30) DEF Switch
      <4>4. Wanted(m)' = Wanted(m)
        BY <1>5 DEF Wanted, JobProfile
      <4>5. proc' = proc /\ active' = active /\ rss' = rss /\ killed' = killed
        BY <4>1 DEF workers
      <4> QED BY <2>2, <2>3, <4>2, <4>3, <4>4, <4>5, SMTT(30) DEF WorkerOK
    <3> QED BY <3>1, <3>2
  <2> QED BY <1>1, <1>5, <2>2, <2>3, <2>4, <2>5, InvTypes, LaneMove
<1> QED BY <1>2, <1>4, <1>5

\* The reservation of a run, and that it fits.
LEMMA NeededFits ==
    ASSUME Inv, NEW m \in Lanes, pc[m] \in Busy
    PROVE  /\ JobProfile(m) \in Profiles /\ Lane[JobProfile(m)] = m /\ device[m] \in Device
           /\ PeakRAM[JobProfile(m)][device[m]] \in Nat /\ OwnRAM(m) \in Nat /\ Needed(m) \in Nat
           /\ PeakRAM[JobProfile(m)][device[m]] <= OwnRAM(m) + Needed(m)
           /\ UsedRAM \in Nat /\ Reserved \in Nat
           /\ FitsRAM(m) => Needed(m) \in 0..Limit
<1>1. JobProfile(m) \in Profiles /\ Lane[JobProfile(m)] = m /\ device[m] \in Device
  BY InvTypes, Constants DEF JobProfile
<1>2. PeakRAM[JobProfile(m)][device[m]] \in Nat
  BY <1>1, Constants
<1>3. OwnRAM(m) \in Nat
  BY InvTypes DEF OwnRAM
<1>4. Needed(m) \in Nat /\ PeakRAM[JobProfile(m)][device[m]] <= OwnRAM(m) + Needed(m)
  BY <1>2, <1>3, SMTT(30) DEF Needed
<1>5. UsedRAM \in Nat /\ Reserved \in Nat
  BY InvTypes, SMTT(30) DEF UsedRAM, Reserved, Lanes
<1> QED BY <1>1, <1>2, <1>3, <1>4, <1>5, InvTypes, SMTT(30) DEF FitsRAM

LEMMA AcquireInv ==
    ASSUME Inv, NEW m \in Lanes, AcquireRAM(m), UNCHANGED mix
    PROVE  Inv'
<1> DEFINE wanted == [profile |-> JobProfile(m), device |-> device[m]]
<1>1. /\ pc[m] = "admit" /\ FitsRAM(m) /\ UNCHANGED <<calls, buffers, closed, job, try, device, err>>
      /\ needed' = [needed EXCEPT ![m] = Needed(m)]
      /\ active' = [active EXCEPT ![m] = [model |-> Wanted(m), device |-> device[m]]]
      /\ proc' = [proc EXCEPT ![m] = wanted]
      /\ rss' = [rss EXCEPT ![m] = IF proc[m] = wanted THEN rss[m] ELSE 0]
      /\ killed' = [killed EXCEPT ![m] = proc[m] = wanted /\ killed[m]]
      /\ cause' = [cause EXCEPT ![m] = FALSE] /\ pc' = [pc EXCEPT ![m] = "infer"]
  BY DEF AcquireRAM, Ensure
<1>2. "infer" \in Points /\ "admit" \in Busy /\ FALSE \in BOOLEAN
  BY DEF Points, Busy
<1>3. JobProfile(m) \in Profiles /\ Lane[JobProfile(m)] = m /\ device[m] \in Device /\ Needed(m) \in 0..Limit
      /\ PeakRAM[JobProfile(m)][device[m]] \in Nat
  BY <1>1, <1>2, NeededFits
<1>4. /\ Only(m, pc, pc', Points) /\ pc'[m] = "infer" /\ Only(m, cause, cause', BOOLEAN)
      /\ Only(m, needed, needed', 0..Limit)
  BY <1>1, <1>2, <1>3, InvTypes, OnlyExcept
<1>5. /\ Only(m, job, job', Requests \cup {None}) /\ Only(m, device, device', Device) /\ job'[m] \in Of(m)
  BY <1>1, <1>2, InvTypes, OnlySame
<1>6. killed[m] = FALSE /\ rss[m] \in Nat /\ WorkerOK(m)
  BY <1>1, InvTypes
<1>7. Only(m, killed, killed', BOOLEAN) /\ killed'[m] = FALSE
  BY <1>1, <1>6, InvTypes, OnlyExcept
<1>8. Only(m, rss, rss', Nat) /\ rss'[m] = IF proc[m] = wanted THEN rss[m] ELSE 0
  BY <1>1, <1>6, InvTypes, OnlyExcept
<1>9. wanted \in ProcStatus /\ [model |-> Wanted(m), device |-> device[m]] \in ModelStatus
      /\ wanted.profile = JobProfile(m) /\ wanted.device = device[m] /\ wanted # NoProc
  BY <1>3, Constants DEF ProcStatus, ModelStatus, Wanted, NoProc
<1> HIDE DEF wanted
<1>10. /\ Only(m, proc, proc', ProcStatus) /\ proc'[m] = wanted
       /\ Only(m, active, active', ModelStatus) /\ active'[m] = [model |-> Wanted(m), device |-> device[m]]
  BY <1>1, <1>9, InvTypes, OnlyExcept
<1>11. rss'[m] <= PeakRAM[JobProfile(m)][device[m]]
  <2>1. CASE proc[m] = wanted
    BY <1>6, <1>8, <1>9, <2>1 DEF WorkerOK
  <2>2. CASE proc[m] # wanted
    BY <1>3, <1>8, <2>2, SMTT(30)
  <2> QED BY <2>1, <2>2
<1>12. JobProfile(m)' = JobProfile(m) /\ device' = device
  BY <1>1 DEF JobProfile
<1>13. WorkerOK(m)'
  BY <1>3, <1>4, <1>7, <1>9, <1>10, <1>11, <1>12 DEF WorkerOK, Wanted, wanted
<1> QED BY <1>1, <1>4, <1>5, <1>7, <1>8, <1>10, <1>13, InvTypes, LaneMove DEF WorkersOnly, calls

LEMMA GrowInv ==
    ASSUME Inv, NEW m \in Lanes, Grow(m), UNCHANGED mix
    PROVE  Inv'
<1>1. /\ pc[m] = "infer" /\ UNCHANGED <<calls, buffers, closed, pc, running, needed, active, proc, killed>>
  BY DEF Grow
<1>2. /\ WorkerOK(m) /\ rss[m] \in Nat /\ proc[m].profile \in Profiles /\ proc[m].device \in Device
      /\ proc[m] # NoProc /\ killed[m] = FALSE
  <2>1. WorkerOK(m) /\ rss[m] \in Nat /\ device[m] \in Device /\ killed[m] = FALSE
    BY <1>1, InvTypes
  <2>2. proc[m] = [profile |-> JobProfile(m), device |-> device[m]]
    BY <1>1, <2>1 DEF WorkerOK
  <2>3. proc[m] # NoProc
    BY <2>1, <2>2, Constants, SMTT(30) DEF NoProc
  <2> QED BY <2>1, <2>3 DEF WorkerOK
<1>3. PICK n \in (rss[m] + 1)..PeakRAM[proc[m].profile][proc[m].device] : rss' = [rss EXCEPT ![m] = n]
  BY DEF Grow
<1>4. n \in Nat /\ n <= PeakRAM[proc[m].profile][proc[m].device]
  BY <1>2, <1>3, Constants, SMTT(30)
<1>5. Only(m, rss, rss', Nat) /\ rss'[m] = n
  BY <1>3, <1>4, InvTypes, OnlyExcept
<1>6. WorkersOnly(m)
  BY <1>1, <1>5, InvTypes, OnlySame DEF WorkersOnly
<1>7. /\ Only(m, pc, pc', Points) /\ Only(m, job, job', Requests \cup {None})
      /\ Only(m, device, device', Device) /\ Only(m, cause, cause', BOOLEAN)
      /\ Only(m, needed, needed', 0..Limit)
  BY <1>1, InvTypes, OnlySame DEF running
<1>8. WorkerOK(m)'
  BY <1>1, <1>2, <1>4, <1>5 DEF WorkerOK, Wanted, JobProfile, running
<1> QED BY <1>1, <1>6, <1>7, <1>8, InvTypes, LaneMove DEF running, calls

LEMMA OverrunInv ==
    ASSUME Inv, NEW m \in Lanes, Overrun(m), UNCHANGED mix
    PROVE  Inv'
<1>1. pc[m] = "infer" /\ UNCHANGED <<calls, buffers, closed, pc, job, try, device, err, needed, workers>>
  BY DEF Overrun
<1>2. Only(m, cause, cause', BOOLEAN)
  BY InvTypes, OnlyExcept DEF Overrun
<1>3. /\ Only(m, pc, pc', Points) /\ Only(m, job, job', Requests \cup {None})
      /\ Only(m, device, device', Device) /\ Only(m, needed, needed', 0..Limit) /\ WorkersOnly(m)
  BY <1>1, InvTypes, OnlySame, WorkersSame
<1>4. WorkerOK(m) /\ killed[m] = FALSE
  BY <1>1, InvTypes
<1>5. WorkerOK(m)'
  BY <1>1, <1>4, WorkerKept DEF workers
<1> QED BY <1>1, <1>2, <1>3, <1>5, InvTypes, LaneMove DEF calls

LEMMA AnswerInv ==
    ASSUME Inv, NEW m \in Lanes, Answer(m), UNCHANGED mix
    PROVE  Inv'
<1>1. /\ pc[m] = "infer" /\ pc' = [pc EXCEPT ![m] = "sample"]
      /\ UNCHANGED <<calls, buffers, closed, job, try, device, cause, needed, active, proc, rss>>
  BY DEF Answer
<1>2. PICK late \in {FALSE, RunDone(m)} : killed' = [killed EXCEPT ![m] = late]
  BY DEF Answer
<1>3. "sample" \in Points /\ "infer" \in Busy /\ "other" \in Errors /\ "oom" \in Errors
  BY DEF Points, Busy, Errors
<1>4. RunDone(m) \in BOOLEAN /\ (RunDone(m)' <=> RunDone(m))
  <2>1. job[m] \in Requests
    <3>1. job[m] \in Of(m)
      BY <1>1, <1>3, InvTypes
    <3> QED BY <3>1 DEF Of
  <2>2. dead[job[m]] \in BOOLEAN /\ closed[m] \in BOOLEAN /\ cause[m] \in BOOLEAN
    BY <2>1, InvTypes DEF Inv, Types
  <2> QED BY <1>1, <2>2 DEF RunDone, JobDone, calls
<1>5. Only(m, pc, pc', Points) /\ pc'[m] = "sample" /\ err' \in [Lanes -> Errors]
  <2>1. PICK e \in {"other", "oom"} : err' = [err EXCEPT ![m] = e]
    BY DEF Answer
  <2>2. err' \in [Lanes -> Errors]
    BY <1>1, <1>3, <2>1, InvTypes
  <2> QED BY <1>1, <1>3, <2>2, InvTypes, OnlyExcept
<1>6. Only(m, killed, killed', BOOLEAN) /\ (killed'[m] => RunDone(m))
  BY <1>2, <1>4, InvTypes, OnlyExcept
<1>7. WorkersOnly(m)
  BY <1>1, <1>6, InvTypes, OnlySame DEF WorkersOnly
<1>8. /\ Only(m, job, job', Requests \cup {None}) /\ Only(m, device, device', Device)
      /\ Only(m, cause, cause', BOOLEAN) /\ Only(m, needed, needed', 0..Limit) /\ job'[m] \in Of(m)
  BY <1>1, <1>3, InvTypes, OnlySame
<1>9. WorkerOK(m)'
  <2>1. WorkerOK(m) /\ device[m] \in Device
    BY InvTypes
  <2>2. proc[m] # NoProc
    BY <1>1, <2>1, Constants, SMTT(30) DEF WorkerOK, NoProc
  <2> QED BY <1>1, <1>4, <1>5, <1>6, <2>1, <2>2 DEF WorkerOK
<1> QED BY <1>1, <1>5, <1>7, <1>8, <1>9, InvTypes, LaneMove DEF calls

LEMMA LostInv ==
    ASSUME Inv, NEW m \in Lanes, WorkerLost(m), UNCHANGED mix
    PROVE  Inv'
<1>1. /\ pc[m] = "infer" /\ pc' = [pc EXCEPT ![m] = "sample"] /\ StopProc(m)
      /\ UNCHANGED <<calls, buffers, closed, job, try, device, cause, needed, active>>
  BY DEF WorkerLost
<1>2. "sample" \in Points /\ "infer" \in Busy /\ "other" \in Errors /\ "oom" \in Errors
  BY DEF Points, Busy, Errors
<1>3. Only(m, pc, pc', Points) /\ pc'[m] = "sample" /\ err' \in [Lanes -> Errors]
  <2>1. PICK e \in {"other", "oom"} : err' = [err EXCEPT ![m] = e]
    BY DEF WorkerLost
  <2>2. err' \in [Lanes -> Errors]
    BY <1>1, <1>2, <2>1, InvTypes
  <2> QED BY <1>1, <1>2, <2>2, InvTypes, OnlyExcept
<1>4. Stopped(m) /\ WorkersOnly(m)
  BY <1>1, InvTypes, ProcStops, OnlySame DEF WorkersOnly
<1>5. /\ Only(m, job, job', Requests \cup {None}) /\ Only(m, device, device', Device)
      /\ Only(m, cause, cause', BOOLEAN) /\ Only(m, needed, needed', 0..Limit) /\ job'[m] \in Of(m)
  BY <1>1, <1>2, InvTypes, OnlySame
<1>6. WorkerOK(m)'
  BY <1>3, <1>4, WorkerGone
<1> QED BY <1>1, <1>3, <1>4, <1>5, <1>6, InvTypes, LaneMove DEF calls

LEMMA SampleInv ==
    ASSUME Inv, NEW m \in Lanes, Sample(m), UNCHANGED mix
    PROVE  Inv'
<1>1. /\ pc[m] = "sample" /\ pc' = [pc EXCEPT ![m] = "decide"]
      /\ UNCHANGED <<calls, buffers, closed, job, try, device, cause>>
  BY DEF Sample
<1>2. PICK over \in BOOLEAN :
        /\ err' = [err EXCEPT ![m] = CASE cause[m] \/ over -> "resources"
                                       [] JobDone(m) /\ ~cause[m] /\ ~over -> "other"
                                       [] OTHER -> err[m]]
        /\ Settle(m, over)
  BY DEF Sample
<1>3. "decide" \in Points /\ "decide" \in Busy /\ "sample" \in Busy /\ "other" \in Errors /\ "resources" \in Errors
  BY DEF Points, Busy, Errors
<1>4. err' \in [Lanes -> Errors]
  <2>1. err[m] \in Errors /\ err \in [Lanes -> Errors]
    BY InvTypes
  <2>2. CASE cause[m] \/ over
    BY <1>2, <1>3, <2>1, <2>2
  <2>3. CASE ~(cause[m] \/ over) /\ JobDone(m)
    BY <1>2, <1>3, <2>1, <2>3
  <2>4. CASE ~(cause[m] \/ over) /\ ~JobDone(m)
    BY <1>2, <2>1, <2>4
  <2> QED BY <2>2, <2>3, <2>4
<1>5. Only(m, pc, pc', Points) /\ pc'[m] = "decide"
  BY <1>1, <1>3, InvTypes, OnlyExcept
<1>6. Only(m, needed, needed', 0..Limit) /\ needed'[m] = 0
  <2>1. 0 \in 0..Limit
    BY InvTypes, SMTT(30)
  <2> QED BY <1>2, <2>1, InvTypes, OnlyExcept DEF Settle
<1>7. /\ Only(m, job, job', Requests \cup {None}) /\ Only(m, device, device', Device)
      /\ Only(m, cause, cause', BOOLEAN) /\ job'[m] \in Of(m)
  BY <1>1, <1>3, InvTypes, OnlySame
<1>8. WorkersOnly(m) /\ WorkerOK(m)'
  <2>1. CASE Unload(m)
    BY <1>5, <1>6, <2>1, UnloadStops, WorkerGone, SMTT(30)
  <2>2. CASE UNCHANGED workers /\ ~RunDone(m)
    <3>1. killed[m] = FALSE
      <4>1. WorkerOK(m) /\ killed[m] \in BOOLEAN
        BY InvTypes
      <4> QED BY <2>2, <4>1 DEF WorkerOK
    <3> QED BY <1>5, <1>6, <2>2, <3>1, WorkersSame, WorkerRests DEF workers
  <2> QED BY <1>2, <2>1, <2>2 DEF Settle
<1> QED BY <1>1, <1>4, <1>5, <1>6, <1>7, <1>8, InvTypes, LaneMove DEF calls

LEMMA Removed ==
    ASSUME NEW S, NEW s \in Seq(S), NEW i \in DOMAIN s
    PROVE  Without(s, i) \in Seq(S) /\ Len(Without(s, i)) = Len(s) - 1
BY SMTT(30) DEF Without

LEMMA Element ==
    ASSUME NEW S, NEW s \in Seq(S), NEW i \in DOMAIN s
    PROVE  s[i] \in S /\ Len(s) \in Nat \ {0}
BY SMTT(30)

LEMMA TakeInv ==
    ASSUME Inv, NEW m \in Lanes, Take(m), UNCHANGED mix
    PROVE  Inv'
<1> DEFINE jobs == pending[m] \o queue[m]
<1>1. PICK i \in DOMAIN jobs : /\ pending' = [pending EXCEPT ![m] = Without(jobs, i)]
                               /\ lastCaller' = [lastCaller EXCEPT ![m] = Caller[jobs[i]]]
                               /\ job' = [job EXCEPT ![m] = jobs[i]]
  BY DEF Take
<1>2. /\ pc[m] = "idle" /\ queue' = [queue EXCEPT ![m] = << >>] /\ slots' = [slots EXCEPT ![m] = slots[m] - 1]
      /\ pc' = [pc EXCEPT ![m] = "execute"]
      /\ UNCHANGED <<calls, closed, try, device, err, cause, needed, workers>>
  BY DEF Take
<1>3. "execute" \in Points /\ "execute" \in Busy /\ Of(m) \subseteq Requests
  BY DEF Points, Busy, Of
<1>4. /\ queue \in [Lanes -> Seq(Requests)] /\ pending \in [Lanes -> Seq(Requests)]
      /\ queue[m] \in Seq(Of(m)) /\ pending[m] \in Seq(Of(m))
  BY DEF Inv, Jobs
<1>5. jobs \in Seq(Of(m)) /\ Len(jobs) = Len(pending[m]) + Len(queue[m]) /\ jobs \in Seq(Requests)
  BY <1>4, SMTT(30)
<1> HIDE DEF jobs
<1>6. jobs[i] \in Of(m) /\ jobs[i] \in Requests
  BY <1>5, Element
<1>7. Without(jobs, i) \in Seq(Of(m)) /\ Without(jobs, i) \in Seq(Requests) /\ Len(Without(jobs, i)) = Len(jobs) - 1
  BY <1>5, Removed
<1>8. Only(m, pc, pc', Points) /\ pc'[m] = "execute"
  BY <1>2, <1>3, InvTypes, OnlyExcept
<1>9. Types'
  <2>1. Caller[jobs[i]] \in {Caller[r] : r \in Requests} \cup {None}
    BY <1>6
  <2> QED BY <1>1, <1>2, <1>8, <2>1 DEF Inv, Types, Only, Points, calls
<1>10. Jobs'
  <2>1. << >> \in Seq(Requests) /\ << >> \in Seq(Of(m))
    BY SMTT(30)
  <2>2. queue' \in [Lanes -> Seq(Requests)] /\ queue'[m] \in Seq(Of(m)) /\ (\A k \in Lanes \ {m} : queue'[k] = queue[k])
    BY <1>2, <1>4, <2>1
  <2>3. pending' \in [Lanes -> Seq(Requests)] /\ pending'[m] \in Seq(Of(m)) /\ (\A k \in Lanes \ {m} : pending'[k] = pending[k])
    BY <1>1, <1>4, <1>7
  <2>4. Only(m, job, job', Requests \cup {None}) /\ job'[m] \in Of(m)
    BY <1>1, <1>6, InvTypes, OnlyExcept
  <2> QED BY <1>8, <2>2, <2>3, <2>4 DEF Inv, Jobs, Only
<1>11. Slots'
  <2>1. /\ slots \in [Lanes -> 0..QueueSize]
        /\ \A k \in Lanes : slots[k] = Len(queue[k]) + Len(pending[k]) + Cardinality(Holders(k))
    BY DEF Inv, Slots
  <2>2. \A k \in Lanes : Holders(k)' = Holders(k)
    BY <1>2 DEF Holders, calls
  <2>3. Len(jobs) \in Nat \ {0} /\ Len(pending[m]) \in Nat /\ Len(queue[m]) \in Nat
    BY <1>4, <1>5, Element, SMTT(30)
  <2>4. Cardinality(Holders(m)) \in Nat
    BY LocalModelsAssumption, FS_Subset, FS_CardinalityType DEF Holders
  <2>5. slots[m] - 1 \in 0..QueueSize /\ slots[m] - 1 = 0 + Len(Without(jobs, i)) + Cardinality(Holders(m))
    <3>1. slots[m] \in 0..QueueSize /\ slots[m] = Len(queue[m]) + Len(pending[m]) + Cardinality(Holders(m))
      BY <2>1
    <3>2. PICK s, q, p, h, n, l : s = slots[m] /\ q = Len(queue[m]) /\ p = Len(pending[m]) /\ h = Cardinality(Holders(m))
                                  /\ n = Len(jobs) /\ l = Len(Without(jobs, i))
      OBVIOUS
    <3>3. /\ s \in 0..QueueSize /\ q \in Nat /\ p \in Nat /\ h \in Nat /\ n \in Nat \ {0}
          /\ n = p + q /\ l = n - 1 /\ s = q + p + h
      BY <1>5, <1>7, <2>3, <2>4, <3>1, <3>2
    <3>4. QueueSize \in Nat
      BY LocalModelsAssumption
    <3>5. s - 1 \in 0..QueueSize /\ s - 1 = 0 + l + h
      BY <3>3, <3>4, SMTT(30)
    <3> QED BY <3>2, <3>5
  <2>6. slots' \in [Lanes -> 0..QueueSize]
    BY <1>2, <2>1, <2>5
  <2>7. \A k \in Lanes : slots'[k] = Len(queue'[k]) + Len(pending'[k]) + Cardinality(Holders(k))
    <3> SUFFICES ASSUME NEW k \in Lanes PROVE slots'[k] = Len(queue'[k]) + Len(pending'[k]) + Cardinality(Holders(k))
      OBVIOUS
    <3>1. CASE k = m
      BY <1>1, <1>2, <1>4, <2>1, <2>5, <3>1
    <3>2. CASE k # m
      BY <1>1, <1>2, <1>4, <2>1, <3>2
    <3> QED BY <3>1, <3>2
  <2> QED BY <2>2, <2>6, <2>7 DEF Slots
<1>12. ASSUME NEW k \in Lanes PROVE WorkerOK(k)'
  <2>1. /\ device'[k] = device[k] /\ cause'[k] = cause[k] /\ active'[k] = active[k] /\ proc'[k] = proc[k]
        /\ rss'[k] = rss[k] /\ killed'[k] = killed[k] /\ needed'[k] = needed[k] /\ dead' = dead /\ closed' = closed
    BY <1>2 DEF workers, calls
  <2>2. CASE k = m
    <3>1. needed'[m] = 0 /\ killed'[m] = FALSE
      BY <1>2, <2>1, <2>2, InvTypes
    <3> QED BY <1>8, <2>1, <2>2, <3>1, WorkerRests
  <2>3. CASE k # m
    <3>1. WorkerOK(k) /\ pc'[k] = pc[k] /\ job'[k] = job[k]
      BY <1>1, <1>2, <2>3, InvTypes
    <3>2. killed[k] => RunDone(k)
      BY <3>1 DEF WorkerOK
    <3>3. RunDone(k)' = RunDone(k)
      BY <2>1, <3>1 DEF RunDone, JobDone
    <3> QED BY <2>1, <3>1, <3>2, <3>3, WorkerKept
  <2> QED BY <2>2, <2>3
<1>13. Workers'
  BY <1>2, <1>12 DEF Inv, Workers, workers
<1> QED BY <1>9, <1>10, <1>11, <1>13 DEF Inv

-----------------------------------------------------------------------------
(* The callers, and closing *)

\* What a caller leaves alone, and what it still has to show.
LEMMA CallerMove ==
    ASSUME Inv, UNCHANGED <<mix, pending, lastCaller, pc, running, needed, workers>>,
           at' \in [Requests -> {"out", "slot", "waiting"}], dead' \in [Requests -> BOOLEAN],
           reply' \in [Requests -> BOOLEAN], cancels' \in 0..mix.cancels, closed' \in [Lanes -> BOOLEAN],
           queue' \in [Lanes -> Seq(Requests)], \A k \in Lanes : queue'[k] \in Seq(Of(k)), Slots',
           \A k \in Lanes : closed[k] => closed'[k],
           \A k \in Lanes : killed[k] /\ dead[job[k]] => dead'[job[k]]
    PROVE  Inv'
<1>1. Types'
  BY DEF Inv, Types, running
<1>2. Jobs'
  BY DEF Inv, Jobs, running
<1>3. ASSUME NEW k \in Lanes PROVE WorkerOK(k)'
  <2>1. WorkerOK(k)
    BY InvTypes
  <2>2. killed[k] => RunDone(k)'
    BY <2>1 DEF WorkerOK, RunDone, JobDone, running
  <2> QED BY <2>1, <2>2, WorkerKept DEF running, workers
<1>4. Workers'
  BY <1>3 DEF Inv, Workers, workers
<1> QED BY <1>1, <1>2, <1>4 DEF Inv

LEMMA CallTypes ==
    ASSUME Inv
    PROVE  /\ at \in [Requests -> {"out", "slot", "waiting"}] /\ dead \in [Requests -> BOOLEAN]
           /\ cancels \in 0..mix.cancels /\ mix \in Mixes /\ mix.cancels \in Nat /\ mix.requests \subseteq Requests
           /\ queue \in [Lanes -> Seq(Requests)] /\ slots \in [Lanes -> 0..QueueSize] /\ QueueSize \in Nat
           /\ \A k \in Lanes : /\ queue[k] \in Seq(Of(k)) /\ Len(queue[k]) \in Nat /\ Len(pending[k]) \in Nat
                               /\ slots[k] = Len(queue[k]) + Len(pending[k]) + Cardinality(Holders(k))
                               /\ IsFiniteSet(Holders(k)) /\ Cardinality(Holders(k)) \in Nat
<1>1. mix \in Mixes /\ mix.cancels \in Nat /\ mix.requests \subseteq Requests /\ QueueSize \in Nat
  BY LocalModelsAssumption DEF Inv, Types
<1>2. \A k \in Lanes : IsFiniteSet(Holders(k)) /\ Cardinality(Holders(k)) \in Nat
  BY LocalModelsAssumption, FS_Subset, FS_CardinalityType DEF Holders
<1>3. \A k \in Lanes : queue[k] \in Seq(Of(k)) /\ Len(queue[k]) \in Nat /\ Len(pending[k]) \in Nat
  BY SMTT(30) DEF Inv, Jobs
<1> QED BY <1>1, <1>2, <1>3 DEF Inv, Types, Jobs, Slots

\* Who holds a slot after a call has moved.
LEMMA HoldersMove ==
    ASSUME Inv, NEW r \in Requests, NEW s \in {"out", "slot", "waiting"}, at' = [at EXCEPT ![r] = s], NEW k \in Lanes
    PROVE  Cardinality(Holders(k))' = Cardinality(Holders(k))
                                        + IF k # LaneOf(r) \/ (at[r] = "slot" <=> s = "slot") THEN 0
                                          ELSE IF s = "slot" THEN 1 ELSE 0 - 1
<1>1. at \in [Requests -> {"out", "slot", "waiting"}] /\ IsFiniteSet(Holders(k)) /\ Cardinality(Holders(k)) \in Nat
  BY CallTypes
<1>2. CASE k # LaneOf(r) \/ (at[r] = "slot" <=> s = "slot")
  <2>1. Holders(k)' = Holders(k)
    BY <1>1, <1>2 DEF Holders
  <2> QED BY <1>1, <1>2, <2>1, SMTT(30)
<1>3. CASE k = LaneOf(r) /\ at[r] # "slot" /\ s = "slot"
  <2>1. Holders(k)' = Holders(k) \cup {r} /\ r \notin Holders(k)
    BY <1>1, <1>3 DEF Holders
  <2>2. Cardinality(Holders(k) \cup {r}) = Cardinality(Holders(k)) + 1
    BY <1>1, <2>1, FS_AddElement
  <2> QED BY <1>3, <2>1, <2>2
<1>4. CASE k = LaneOf(r) /\ at[r] = "slot" /\ s # "slot"
  <2>1. Holders(k)' = Holders(k) \ {r} /\ r \in Holders(k)
    BY <1>1, <1>4 DEF Holders
  <2>2. Cardinality(Holders(k) \ {r}) = Cardinality(Holders(k)) - 1
    BY <1>1, <2>1, FS_RemoveElement
  <2> QED BY <1>1, <1>4, <2>1, <2>2, SMTT(30)
<1> QED BY <1>2, <1>3, <1>4

\* A call is not made again while its last job is executed: the context of a job
\* that is done stays done.
LEMMA InferInv ==
    ASSUME Inv, NEW r \in Requests, Infer(r), UNCHANGED mix
    PROVE  Inv'
<1> DEFINE m == LaneOf(r)
<1>1. /\ at[r] = "out" /\ job[m] # r /\ slots[m] < QueueSize
      /\ slots' = [slots EXCEPT ![m] = slots[m] + 1]
      /\ at' = [at EXCEPT ![r] = "slot"] /\ dead' = [dead EXCEPT ![r] = FALSE]
      /\ UNCHANGED <<cancels, reply, queue, pending, lastCaller, closed, pc, running, needed, workers>>
  BY DEF Infer, Forgotten, FreeSlot
<1>2. m \in Lanes
  BY Constants
<1>3. at' \in [Requests -> {"out", "slot", "waiting"}] /\ dead' \in [Requests -> BOOLEAN]
  BY <1>1, CallTypes
<1>4. \A k \in Lanes : killed[k] /\ dead[job[k]] => dead'[job[k]]
  <2> SUFFICES ASSUME NEW k \in Lanes, killed[k], dead[job[k]] PROVE dead'[job[k]]
    OBVIOUS
  <2>1. pc[k] = "sample" /\ "sample" \in Busy
    BY InvTypes DEF Busy
  <2>2. job[k] \in Requests /\ LaneOf(job[k]) = k
    BY <2>1, InvTypes DEF Of
  <2>3. job[k] # r
    BY <1>1, <2>2
  <2> QED BY <1>1, <2>2, <2>3, CallTypes
<1>5. Slots'
  <2>1. slots[m] + 1 \in 0..QueueSize
    BY <1>1, <1>2, CallTypes, SMTT(30)
  <2>2. slots' \in [Lanes -> 0..QueueSize]
    BY <1>1, <2>1, CallTypes
  <2>3. ASSUME NEW k \in Lanes PROVE slots'[k] = Len(queue[k]) + Len(pending[k]) + Cardinality(Holders(k))'
    <3>1. Cardinality(Holders(k))' = Cardinality(Holders(k)) + IF k = m THEN 1 ELSE 0
      BY <1>1, HoldersMove
    <3>2. slots'[k] = slots[k] + IF k = m THEN 1 ELSE 0
      BY <1>1, CallTypes, SMTT(30)
    <3>3. PICK s, q, p, h : s = slots[k] /\ q = Len(queue[k]) /\ p = Len(pending[k]) /\ h = Cardinality(Holders(k))
      OBVIOUS
    <3>4. s = q + p + h /\ q \in Nat /\ p \in Nat /\ h \in Nat
      BY <3>3, CallTypes
    <3>5. s + (IF k = m THEN 1 ELSE 0) = q + p + (h + IF k = m THEN 1 ELSE 0)
      BY <3>4, SMTT(30)
    <3> QED BY <3>1, <3>2, <3>3, <3>5
  <2> QED BY <1>1, <2>2, <2>3 DEF Slots
<1> QED BY <1>1, <1>3, <1>4, <1>5, InvTypes, CallTypes, CallerMove

LEMMA ReturnTyped ==
    ASSUME Inv, NEW r \in Requests, Return(r)
    PROVE  /\ at' = [at EXCEPT ![r] = "out"] /\ at' \in [Requests -> {"out", "slot", "waiting"}]
           /\ dead' \in [Requests -> BOOLEAN] /\ reply' \in [Requests -> BOOLEAN]
           /\ \A k \in Lanes : killed[k] /\ dead[job[k]] => dead'[job[k]]
<1>1. at' = [at EXCEPT ![r] = "out"] /\ dead' = [dead EXCEPT ![r] = TRUE] /\ reply' = [reply EXCEPT ![r] = FALSE]
  BY DEF Return
<1>2. \A q \in Requests : dead[q] => dead'[q]
  BY <1>1, CallTypes
<1>3. \A k \in Lanes : killed[k] => job[k] \in Requests
  BY InvTypes DEF Busy, Of
<1> QED BY <1>1, <1>2, <1>3, CallTypes, InvTypes

LEMMA AwaitInv ==
    ASSUME Inv, NEW r \in Requests, Await(r), UNCHANGED mix
    PROVE  Inv'
<1>1. at[r] = "waiting" /\ Return(r) /\ UNCHANGED <<cancels, buffers, closed, pc, running, needed, workers>>
  BY DEF Await
<1>2. Slots'
  <2>1. ASSUME NEW k \in Lanes PROVE Cardinality(Holders(k))' = Cardinality(Holders(k))
    <3>1. Holders(k)' = Holders(k)
      BY <1>1, ReturnTyped, CallTypes DEF Holders
    <3> QED BY <3>1
  <2> QED BY <1>1, <2>1 DEF Inv, Slots, buffers
<1> QED BY <1>1, <1>2, ReturnTyped, InvTypes, CallTypes, CallerMove DEF buffers

LEMMA SendInv ==
    ASSUME Inv, NEW r \in Requests, Send(r), UNCHANGED mix
    PROVE  Inv'
<1> DEFINE m == LaneOf(r)
<1>1. at[r] = "slot" /\ UNCHANGED <<cancels, pending, lastCaller, closed, pc, running, needed, workers>>
  BY DEF Send
<1>2. m \in Lanes /\ r \in Of(m)
  BY Constants DEF Of
<1>3. CASE /\ queue' = [queue EXCEPT ![m] = Append(queue[m], r)]
           /\ at' = [at EXCEPT ![r] = "waiting"] /\ UNCHANGED <<dead, reply, slots>>
  <2>1. /\ Append(queue[m], r) \in Seq(Of(m)) /\ Append(queue[m], r) \in Seq(Requests)
        /\ Len(Append(queue[m], r)) = Len(queue[m]) + 1
    BY <1>2, CallTypes, SMTT(30)
  <2>2. queue' \in [Lanes -> Seq(Requests)] /\ \A k \in Lanes : queue'[k] \in Seq(Of(k))
    BY <1>2, <1>3, <2>1, CallTypes
  <2>3. ASSUME NEW k \in Lanes PROVE slots'[k] = Len(queue'[k]) + Len(pending[k]) + Cardinality(Holders(k))'
    <3>1. Cardinality(Holders(k))' = Cardinality(Holders(k)) + IF k = m THEN 0 - 1 ELSE 0
      BY <1>1, <1>3, HoldersMove
    <3>2. Len(queue'[k]) = Len(queue[k]) + IF k = m THEN 1 ELSE 0
      BY <1>3, <2>1, CallTypes, SMTT(30)
    <3>3. PICK s, q, p, h : s = slots[k] /\ q = Len(queue[k]) /\ p = Len(pending[k]) /\ h = Cardinality(Holders(k))
      OBVIOUS
    <3>4. s = q + p + h /\ q \in Nat /\ p \in Nat /\ h \in Nat
      BY <3>3, CallTypes
    <3>5. s = (q + IF k = m THEN 1 ELSE 0) + p + (h + IF k = m THEN 0 - 1 ELSE 0)
      BY <3>4, SMTT(30)
    <3> QED BY <1>3, <3>1, <3>2, <3>3, <3>5
  <2>4. Slots'
    BY <1>1, <1>3, <2>3, CallTypes DEF Slots
  <2>5. at' \in [Requests -> {"out", "slot", "waiting"}]
    BY <1>3, CallTypes
  <2> QED BY <1>1, <1>3, <2>2, <2>4, <2>5, InvTypes, CallTypes, CallerMove
<1>4. CASE slots' = [slots EXCEPT ![m] = slots[m] - 1] /\ Return(r) /\ UNCHANGED queue
  <2>1. ASSUME NEW k \in Lanes PROVE slots'[k] = Len(queue[k]) + Len(pending[k]) + Cardinality(Holders(k))'
    <3>1. Cardinality(Holders(k))' = Cardinality(Holders(k)) + IF k = m THEN 0 - 1 ELSE 0
      BY <1>1, <1>4, ReturnTyped, HoldersMove
    <3>2. slots'[k] = slots[k] + IF k = m THEN 0 - 1 ELSE 0
      BY <1>4, CallTypes, SMTT(30)
    <3>3. PICK s, q, p, h : s = slots[k] /\ q = Len(queue[k]) /\ p = Len(pending[k]) /\ h = Cardinality(Holders(k))
      OBVIOUS
    <3>4. s = q + p + h /\ q \in Nat /\ p \in Nat /\ h \in Nat
      BY <3>3, CallTypes
    <3>5. s + (IF k = m THEN 0 - 1 ELSE 0) = q + p + (h + IF k = m THEN 0 - 1 ELSE 0)
      BY <3>4, SMTT(30)
    <3> QED BY <3>1, <3>2, <3>3, <3>5
  <2>2. slots[m] - 1 \in 0..QueueSize
    <3>1. r \in Holders(m) /\ IsFiniteSet(Holders(m))
      BY <1>1, <1>2, CallTypes DEF Holders
    <3>2. Cardinality(Holders(m)) # 0
      BY <3>1, FS_EmptySet
    <3>3. PICK s, q, p, h : s = slots[m] /\ q = Len(queue[m]) /\ p = Len(pending[m]) /\ h = Cardinality(Holders(m))
      OBVIOUS
    <3>4. s = q + p + h /\ q \in Nat /\ p \in Nat /\ h \in Nat /\ h # 0 /\ s \in 0..QueueSize /\ QueueSize \in Nat
      BY <1>2, <3>2, <3>3, CallTypes
    <3>5. s - 1 \in 0..QueueSize
      BY <3>4, SMTT(30)
    <3> QED BY <3>3, <3>5
  <2>3. Slots'
    BY <1>1, <1>4, <2>1, <2>2, CallTypes DEF Slots
  <2> QED BY <1>1, <1>4, <2>3, ReturnTyped, InvTypes, CallTypes, CallerMove
<1> QED BY <1>3, <1>4 DEF Send, ReturnSlot

LEMMA CancelInv ==
    ASSUME Inv, NEW r \in Requests, Cancel(r), UNCHANGED mix
    PROVE  Inv'
<1>1. /\ cancels < mix.cancels /\ cancels' = cancels + 1 /\ dead' = [dead EXCEPT ![r] = TRUE]
      /\ UNCHANGED <<at, reply, buffers, closed, pc, running, needed, workers>>
  BY DEF Cancel
<1>2. dead' \in [Requests -> BOOLEAN] /\ cancels' \in 0..mix.cancels
  BY <1>1, CallTypes, SMTT(30)
<1>3. \A k \in Lanes : killed[k] /\ dead[job[k]] => dead'[job[k]]
  <2>1. \A q \in Requests : dead[q] => dead'[q]
    BY <1>1, CallTypes
  <2>2. \A k \in Lanes : killed[k] => job[k] \in Requests
    BY InvTypes DEF Busy, Of
  <2> QED BY <2>1, <2>2
<1>4. Slots'
  <2>1. \A k \in Lanes : Holders(k)' = Holders(k)
    BY <1>1 DEF Holders
  <2> QED BY <1>1, <2>1 DEF Inv, Slots, buffers
<1> QED BY <1>1, <1>2, <1>3, <1>4, InvTypes, CallTypes, CallerMove DEF buffers

LEMMA CloseInv ==
    ASSUME Inv, NEW m \in Lanes, Close(m), UNCHANGED mix
    PROVE  Inv'
<1>1. closed' = [closed EXCEPT ![m] = TRUE] /\ UNCHANGED <<calls, buffers, pc, running, needed, workers>>
  BY DEF Close
<1>2. closed' \in [Lanes -> BOOLEAN] /\ \A k \in Lanes : closed[k] => closed'[k]
  BY <1>1, InvTypes
<1>3. Slots'
  <2>1. \A k \in Lanes : Holders(k)' = Holders(k)
    BY <1>1 DEF Holders, calls
  <2> QED BY <1>1, <2>1 DEF Inv, Slots, buffers
<1> QED BY <1>1, <1>2, <1>3, InvTypes, CallTypes, CallerMove DEF buffers, calls

-----------------------------------------------------------------------------
(* The inductive invariant *)

LEMMA InitInv == Init => Inv
<1> SUFFICES ASSUME Init PROVE Inv
  OBVIOUS
<1>1. /\ mix \in Mixes /\ mix.cancels \in Nat /\ "cpu" \in Device /\ "other" \in Errors /\ QueueSize \in Nat
      /\ Limit \in Nat
  BY LocalModelsAssumption DEF Init, Device, Errors
<1>2. Types
  BY <1>1, SMTT(30) DEF Init, Types
<1>3. Jobs
  <2>1. << >> \in Seq(Requests) /\ \A m \in Lanes : << >> \in Seq(Of(m))
    BY SMTT(30)
  <2> QED BY <2>1 DEF Init, Jobs, Busy
<1>4. Slots
  <2>1. ASSUME NEW m \in Lanes PROVE Cardinality(Holders(m)) = 0
    <3>1. Holders(m) = {}
      BY DEF Init, Holders
    <3> QED BY <3>1, FS_EmptySet
  <2>2. ASSUME NEW m \in Lanes PROVE slots[m] = Len(queue[m]) + Len(pending[m]) + Cardinality(Holders(m))
    <3>1. Len(queue[m]) = 0 /\ Len(pending[m]) = 0 /\ slots[m] = 0
      BY DEF Init
    <3> QED BY <2>1, <3>1, SMTT(30)
  <2> QED BY <1>1, <2>2, SMTT(30) DEF Init, Slots
<1>5. Workers
  <2>1. ASSUME NEW m \in Lanes PROVE WorkerOK(m)
    <3>1. proc[m] = NoProc /\ rss[m] = 0 /\ killed[m] = FALSE /\ needed[m] = 0 /\ pc[m] = "idle"
      BY DEF Init
    <3> QED BY <3>1, SMTT(30) DEF WorkerOK
  <2> QED BY <1>1, <2>1, Constants, SMTT(30) DEF Init, Workers, ModelStatus, ProcStatus
<1> QED BY <1>2, <1>3, <1>4, <1>5 DEF Inv

LEMMA StutterInv ==
    ASSUME Inv, UNCHANGED vars
    PROVE  Inv'
<1>1. UNCHANGED <<mix, calls, buffers, closed, pc, running, needed, workers>>
  BY DEF vars
<1>2. Slots'
  <2>1. \A k \in Lanes : Holders(k)' = Holders(k)
    BY <1>1 DEF Holders, calls
  <2> QED BY <1>1, <2>1 DEF Inv, Slots, buffers
<1> QED BY <1>1, <1>2, InvTypes, CallTypes, CallerMove DEF buffers, calls

LEMMA LaneInv ==
    ASSUME Inv, NEW m \in Lanes, LaneStep(m)
    PROVE  Inv'
BY TakeInv, SkipInv, ExecuteInv, AcquireInv, RefuseInv, AnswerInv, LostInv, SampleInv, RetryInv, FinishInv, IdleInv
   DEF LaneStep

LEMMA NextInv == Inv /\ [Next]_vars => Inv'
<1> SUFFICES ASSUME Inv, [Next]_vars PROVE Inv'
  OBVIOUS
<1>1. mix.requests \subseteq Requests
  BY CallTypes
<1>2. ASSUME NEW r \in mix.requests, CallerStep(r) PROVE Inv'
  BY <1>1, <1>2, SendInv, AwaitInv DEF CallerStep
<1>3. CASE Environment
  <2>1. ASSUME NEW r \in mix.requests, Infer(r) \/ Cancel(r), UNCHANGED mix PROVE Inv'
    BY <1>1, <2>1, InferInv, CancelInv
  <2>2. ASSUME NEW m \in Lanes, IdleUnload(m) \/ Grow(m) \/ Overrun(m) \/ Close(m), UNCHANGED mix PROVE Inv'
    BY <2>2, IdleInv, GrowInv, OverrunInv, CloseInv
  <2> QED BY <1>3, <2>1, <2>2 DEF Environment
<1> QED BY <1>2, <1>3, LaneInv, StutterInv DEF Next

\* The inductive invariant.
THEOREM Inductive == Spec => []Inv
BY InitInv, NextInv, PTL DEF Spec

\* A slot is held by exactly the calls about to be queued or in the queue,
\* cancelled ones included (manager.go:159-187).
THEOREM NoSlotIsLost == Spec => []SlotsAccounted
<1>1. Inv => SlotsAccounted
  <2> SUFFICES ASSUME Inv PROVE SlotsAccounted
    OBVIOUS
  <2>1. ASSUME NEW m \in Lanes
        PROVE  rss[m] \in 0..(IF proc[m] = NoProc THEN 0 ELSE PeakRAM[proc[m].profile][proc[m].device])
    <3>1. WorkerOK(m) /\ rss[m] \in Nat
      BY InvTypes
    <3>2. CASE proc[m] = NoProc
      BY <3>1, <3>2, SMTT(30) DEF WorkerOK
    <3>3. CASE proc[m] # NoProc
      <4>1. PeakRAM[proc[m].profile][proc[m].device] \in Nat /\ rss[m] <= PeakRAM[proc[m].profile][proc[m].device]
        BY <3>1, <3>3, Constants DEF WorkerOK
      <4> QED BY <3>1, <3>3, <4>1, SMTT(30)
    <3> QED BY <3>2, <3>3
  <2>2. TypeOK
    BY <2>1 DEF Inv, Types, Jobs, Slots, Workers, TypeOK, Busy
  <2> QED BY <2>2 DEF Inv, Slots, Holders, SlotsAccounted
<1> QED BY <1>1, Inductive, PTL

\* The worker of a lane is the one its status names; reservations and workers
\* end with their runs; and nothing is left when the loop has ended
\* (manager.go:278-300, 498-503).
THEOREM LanesAreTidy == Spec => []NothingLeftBehind
<1>1. Inv => NothingLeftBehind
  <2> SUFFICES ASSUME Inv, NEW m \in Lanes
               PROVE  /\ proc[m] # NoProc => active[m] = [model |-> Model[proc[m].profile], device |-> proc[m].device]
                      /\ needed[m] > 0 => pc[m] \in {"infer", "sample"}
                      /\ pc[m] = "done" => proc[m] = NoProc /\ rss[m] = 0
                      /\ killed[m] => pc[m] = "sample"
    BY DEF NothingLeftBehind
  <2>1. WorkerOK(m)
    BY InvTypes
  <2> QED BY <2>1 DEF WorkerOK
<1> QED BY <1>1, Inductive, PTL

-----------------------------------------------------------------------------
(* The budget *)

\* Lane k is not admitted to a run, and outside a run does not grow.
Shrinks(k) ==
    /\ pc'[k] = "infer" => /\ pc[k] = "infer" /\ job'[k] = job[k] /\ device'[k] = device[k]
                           /\ rss[k] <= rss'[k] /\ needed'[k] = needed[k]
    /\ pc'[k] # "infer" => rss'[k] <= rss[k] /\ (proc'[k] = proc[k] \/ rss'[k] = 0)

LEMMA CreditsType ==
    ASSUME Inv, NEW m \in Lanes
    PROVE  0 \in Credits(m) /\ Credits(m) \subseteq Nat
<1>1. ASSUME NEW q \in Profiles, proc[m] # NoProc PROVE PeakRAM[q][proc[m].device] \in Nat
  <2>1. WorkerOK(m)
    BY InvTypes
  <2> QED BY <1>1, <2>1, Constants DEF WorkerOK
<1>2. 0 \in Nat
  BY SMTT(30)
<1> QED BY <1>1, <1>2 DEF Credits

\* The worker of a run stays the worker of the run.
LEMMA RunKeepsWorker ==
    ASSUME Inv, Inv', NEW m \in Lanes, pc[m] = "infer", pc'[m] = "infer", job'[m] = job[m], device'[m] = device[m]
    PROVE  proc'[m] = proc[m]
<1>1. WorkerOK(m) /\ WorkerOK(m)'
  BY DEF Inv, Workers
<1> QED BY <1>1 DEF WorkerOK, JobProfile

LEMMA SameCredits ==
    ASSUME NEW m \in Lanes, proc'[m] = proc[m]
    PROVE  Credits(m)' = Credits(m)
BY DEF Credits

LEMMA PromisedType ==
    ASSUME Inv, NEW m \in Lanes
    PROVE  Promised(m) \in Nat /\ rss[m] \in Nat /\ rss[m] <= Promised(m)
<1>1. WorkerOK(m) /\ rss[m] \in Nat /\ device[m] \in Device
  BY InvTypes
<1>2. CASE pc[m] = "infer"
  <2>1. PeakRAM[JobProfile(m)][device[m]] \in Nat
    BY <1>2, NeededFits DEF Busy
  <2>2. proc[m] = [profile |-> JobProfile(m), device |-> device[m]]
    BY <1>1, <1>2 DEF WorkerOK
  <2>3. proc[m] # NoProc /\ proc[m].profile = JobProfile(m) /\ proc[m].device = device[m]
    BY <1>1, <2>2, Constants, SMTT(30) DEF NoProc
  <2>4. rss[m] <= PeakRAM[JobProfile(m)][device[m]]
    BY <1>1, <2>3 DEF WorkerOK
  <2> QED BY <1>1, <1>2, <2>1, <2>4 DEF Promised
<1>3. CASE pc[m] # "infer"
  BY <1>1, <1>3, SMTT(30) DEF Promised
<1> QED BY <1>2, <1>3

LEMMA ShrinksFits ==
    ASSUME Inv, Inv', Budgeted, \A k \in Lanes : Shrinks(k)
    PROVE  Budgeted'
<1>1. ASSUME NEW k \in Lanes
      PROVE  /\ pc'[k] = "infer" => Reserves(k)'
             /\ Promised(k) \in Nat /\ Promised(k)' \in Nat /\ Promised(k)' <= Promised(k)
             /\ proc'[k] = proc[k] \/ Promised(k)' = 0
  <2>1. rss[k] \in Nat /\ rss'[k] \in Nat /\ needed[k] \in Nat /\ Promised(k) \in Nat /\ rss[k] <= Promised(k)
    BY PromisedType, InvTypes DEF Inv, Workers
  <2>2. CASE pc'[k] = "infer"
    <3>1. pc[k] = "infer" /\ job'[k] = job[k] /\ device'[k] = device[k] /\ rss[k] <= rss'[k] /\ needed'[k] = needed[k]
      BY <2>2 DEF Shrinks
    <3>2. PeakRAM[JobProfile(k)][device[k]]' = PeakRAM[JobProfile(k)][device[k]]
      BY <3>1 DEF JobProfile
    <3>3. PICK x \in Credits(k) : PeakRAM[JobProfile(k)][device[k]] <= rss[k] + needed[k] + x
      BY <3>1 DEF Budgeted, Reserves
    <3>4. PeakRAM[JobProfile(k)][device[k]] \in Nat /\ x \in Nat
      BY <3>1, NeededFits, CreditsType DEF Busy
    <3>5. PeakRAM[JobProfile(k)][device[k]] <= rss'[k] + needed'[k] + x
      BY <2>1, <3>1, <3>3, <3>4, SMTT(30)
    <3>6. proc'[k] = proc[k] /\ Credits(k)' = Credits(k)
      BY <2>2, <3>1, RunKeepsWorker, SameCredits
    <3>7. Reserves(k)'
      BY <3>2, <3>5, <3>6 DEF Reserves
    <3>8. Promised(k)' = Promised(k)
      BY <2>2, <3>1, <3>2 DEF Promised
    <3>9. Promised(k)' <= Promised(k)
      BY <2>1, <3>8, SMTT(30)
    <3> QED BY <2>1, <3>6, <3>7, <3>8, <3>9
  <2>3. CASE pc'[k] # "infer"
    <3>1. Promised(k)' = rss'[k] /\ rss'[k] <= rss[k] /\ (proc'[k] = proc[k] \/ rss'[k] = 0)
      BY <2>3 DEF Promised, Shrinks
    <3>2. rss'[k] <= Promised(k)
      BY <2>1, <3>1, SMTT(30)
    <3> QED BY <2>1, <2>3, <3>1, <3>2
  <2> QED BY <2>2, <2>3
<1>2. "gpu" \in Lanes /\ "cpu" \in Lanes /\ Limit \in Nat
  BY LocalModelsAssumption DEF Lanes
<1>3. \A k \in Lanes : Promised(k)' <= Limit
  <2> SUFFICES ASSUME NEW k \in Lanes PROVE Promised(k)' <= Limit
    OBVIOUS
  <2>1. Promised(k) <= Limit
    BY DEF Budgeted
  <2> QED BY <1>1, <1>2, <2>1, SMTT(30)
<1>4. PICK m \in Lanes : \E x \in Credits(m) : Promised("gpu") + Promised("cpu") <= Limit + x
  BY DEF Budgeted, PromisedUpToCredit
<1>5. PICK x \in Credits(m) : Promised("gpu") + Promised("cpu") <= Limit + x
  BY <1>4
<1>6. PromisedUpToCredit'
  <2>1. CASE proc'[m] = proc[m]
    <3>1. x \in Credits(m)'
      BY <2>1, SameCredits
    <3>2. x \in Nat
      BY CreditsType
    <3>3. Promised("gpu")' + Promised("cpu")' <= Limit + x
      BY <1>1, <1>2, <1>5, <3>2, SMTT(30)
    <3> QED BY <3>1, <3>3 DEF PromisedUpToCredit
  <2>2. CASE Promised(m)' = 0
    <3>1. Promised("gpu")' + Promised("cpu")' <= Limit + 0
      BY <1>1, <1>2, <1>3, <2>2, SMTT(30) DEF Lanes
    <3>2. 0 \in Credits(m)'
      BY DEF Credits
    <3> QED BY <3>1, <3>2 DEF PromisedUpToCredit
  <2> QED BY <1>1, <2>1, <2>2
<1> QED BY <1>1, <1>3, <1>6 DEF Budgeted

\* The loops of the other lanes stand where they stood.
Apart(m) ==
    \A k \in Lanes \ {m} : pc'[k] = pc[k] /\ job'[k] = job[k] /\ device'[k] = device[k] /\ needed'[k] = needed[k]

LEMMA Quiet ==
    ASSUME Inv, NEW m \in Lanes, Apart(m), pc'[m] # "infer",
           UNCHANGED workers \/ (Stopped(m) /\ Only(m, rss, rss', Nat) /\ Only(m, proc, proc', ProcStatus))
    PROVE  \A k \in Lanes : Shrinks(k)
<1> SUFFICES ASSUME NEW k \in Lanes PROVE Shrinks(k)
  OBVIOUS
<1>1. rss[k] \in Nat
  BY InvTypes
<1>2. CASE k # m
  <2>1. /\ rss'[k] = rss[k] /\ pc'[k] = pc[k] /\ job'[k] = job[k] /\ device'[k] = device[k]
        /\ needed'[k] = needed[k] /\ proc'[k] = proc[k]
    BY <1>2 DEF Only, workers, Apart
  <2>2. rss[k] <= rss'[k] /\ rss'[k] <= rss[k]
    BY <1>1, <2>1, SMTT(30)
  <2> QED BY <2>1, <2>2 DEF Shrinks
<1>3. CASE k = m
  <2>1. (rss'[m] = rss[m] /\ proc'[m] = proc[m]) \/ rss'[m] = 0
    BY DEF workers, Stopped
  <2> QED BY <1>1, <1>3, <2>1, SMTT(30) DEF Shrinks
<1> QED BY <1>2, <1>3

\* A job that is over.
LEMMA OverApart ==
    ASSUME Inv, NEW m \in Lanes, JobOver(m), UNCHANGED needed
    PROVE  Apart(m) /\ pc'[m] # "infer"
BY InvTypes DEF JobOver, Apart

\* A job that goes on, in the same run or the next.
LEMMA GoOnApart ==
    ASSUME Inv, NEW m \in Lanes, NEW c, c # "infer", pc' = [pc EXCEPT ![m] = c], UNCHANGED job,
           NEW d, UNCHANGED device \/ device' = [device EXCEPT ![m] = d],
           UNCHANGED needed \/ needed' = [needed EXCEPT ![m] = 0]
    PROVE  Apart(m) /\ pc'[m] # "infer"
BY InvTypes DEF Apart

LEMMA LaneShrinks ==
    ASSUME Inv, NEW m \in Lanes, LaneStep(m), ~AcquireRAM(m)
    PROVE  \A k \in Lanes : Shrinks(k)
<1>1. Unload(m) => Stopped(m) /\ Only(m, rss, rss', Nat) /\ Only(m, proc, proc', ProcStatus)
  BY UnloadStops DEF WorkersOnly
<1>2. CASE Take(m)
  <2>1. /\ pc' = [pc EXCEPT ![m] = "execute"] /\ \E r : job' = [job EXCEPT ![m] = r]
        /\ UNCHANGED <<device, needed, workers>>
    BY <1>2 DEF Take
  <2>2. Apart(m) /\ pc'[m] # "infer"
    BY <2>1, InvTypes DEF Apart
  <2> QED BY <2>1, <2>2, Quiet
<1>3. CASE Skip(m) \/ VerifyFails(m)
  <2>1. JobOver(m) /\ UNCHANGED <<needed, workers>>
    BY <1>3 DEF Skip, VerifyFails, Reply
  <2> QED BY <2>1, OverApart, Quiet
<1>4. CASE Execute(m)
  <2>1. UNCHANGED needed /\ (UNCHANGED workers \/ Unload(m))
    BY <1>4 DEF Execute
  <2>2. \/ JobOver(m)
        \/ \E d : device' = [device EXCEPT ![m] = d] /\ pc' = [pc EXCEPT ![m] = "admit"] /\ UNCHANGED job
    BY <1>4 DEF Execute, Reply
  <2>3. Apart(m) /\ pc'[m] # "infer"
    BY <2>1, <2>2, OverApart, GoOnApart
  <2> QED BY <1>1, <2>1, <2>3, Quiet
<1>5. CASE RefuseRAM(m)
  <2>1. pc' = [pc EXCEPT ![m] = "decide"] /\ UNCHANGED <<job, device, needed, workers>>
    BY <1>5 DEF RefuseRAM
  <2> QED BY <2>1, GoOnApart, Quiet
<1>6. CASE Answer(m) \/ WorkerLost(m)
  <2>1. pc' = [pc EXCEPT ![m] = "sample"] /\ UNCHANGED <<job, device, needed>> /\ (UNCHANGED <<proc, rss>> \/ StopProc(m))
    BY <1>6 DEF Answer, WorkerLost
  <2>2. Apart(m) /\ pc'[m] # "infer"
    BY <2>1, GoOnApart
  <2>3. CASE StopProc(m)
    BY <2>2, <2>3, ProcStops, Quiet
  <2>4. CASE UNCHANGED <<proc, rss>>
    <3> SUFFICES ASSUME NEW k \in Lanes PROVE Shrinks(k)
      OBVIOUS
    <3>1. rss[k] \in Nat
      BY InvTypes
    <3>2. rss[k] <= rss'[k] /\ rss'[k] <= rss[k]
      BY <2>4, <3>1, SMTT(30)
    <3> QED BY <2>2, <2>4, <3>2 DEF Shrinks, Apart, Only
  <2> QED BY <2>1, <2>3, <2>4
<1>7. CASE Sample(m)
  <2>1. /\ pc' = [pc EXCEPT ![m] = "decide"] /\ UNCHANGED <<job, device>>
        /\ needed' = [needed EXCEPT ![m] = 0] /\ (UNCHANGED workers \/ Unload(m))
    BY <1>7 DEF Sample, Settle
  <2> QED BY <1>1, <2>1, GoOnApart, Quiet
<1>8. CASE RetryRun(m) \/ FallBack(m)
  <2>1. /\ pc' = [pc EXCEPT ![m] = "admit"] /\ UNCHANGED <<job, needed>> /\ Unload(m)
        /\ UNCHANGED device \/ device' = [device EXCEPT ![m] = "cpu"]
    BY <1>8 DEF RetryRun, FallBack
  <2> QED BY <1>1, <2>1, GoOnApart, Quiet
<1>9. CASE Finish(m)
  <2>1. JobOver(m) /\ UNCHANGED needed /\ (UNCHANGED workers \/ Unload(m))
    BY <1>9 DEF Finish, Reply
  <2> QED BY <1>1, <2>1, OverApart, Quiet
<1>10. CASE Exit(m)
  <2>1. pc' = [pc EXCEPT ![m] = "done"] /\ UNCHANGED <<job, device, needed>> /\ Unload(m)
    BY <1>10 DEF Exit, running
  <2> QED BY <1>1, <2>1, GoOnApart, Quiet
<1> QED BY <1>2, <1>3, <1>4, <1>5, <1>6, <1>7, <1>8, <1>9, <1>10 DEF LaneStep

\* What admission credits: the memory of the worker, which stays, or of one of
\* another profile of the model, which is stopped.
LEMMA OwnIsCredited ==
    ASSUME Inv, NEW m \in Lanes, AcquireRAM(m)
    PROVE  \E x \in Credits(m)' : x \in Nat /\ OwnRAM(m) <= rss'[m] + x
<1> DEFINE wanted == [profile |-> JobProfile(m), device |-> device[m]]
<1>1. /\ pc[m] = "admit" /\ proc' = [proc EXCEPT ![m] = wanted]
      /\ rss' = [rss EXCEPT ![m] = IF proc[m] = wanted THEN rss[m] ELSE 0]
  BY DEF AcquireRAM, Ensure
<1>2. JobProfile(m) \in Profiles /\ Lane[JobProfile(m)] = m /\ device[m] \in Device /\ OwnRAM(m) \in Nat
  BY <1>1, NeededFits DEF Busy
<1>3. WorkerOK(m) /\ rss[m] \in Nat /\ proc[m] \in ProcStatus
  BY <1>1, InvTypes
<1>4. wanted # NoProc /\ wanted.profile = JobProfile(m) /\ wanted.device = device[m]
  BY <1>2, Constants, SMTT(30) DEF NoProc
<1>5. proc'[m] = wanted /\ rss'[m] = IF proc[m] = wanted THEN rss[m] ELSE 0
  BY <1>1, InvTypes
<1>6. 0 \in Credits(m)' /\ 0 \in Nat
  BY SMTT(30) DEF Credits
<1>7. CASE proc[m] = NoProc
  <2>1. OwnRAM(m) = 0 /\ rss'[m] = 0
    BY <1>4, <1>5, <1>7 DEF OwnRAM
  <2>2. OwnRAM(m) <= rss'[m] + 0
    BY <2>1, SMTT(30)
  <2> QED BY <1>6, <2>2
<1>8. CASE proc[m] = wanted
  <2>1. rss'[m] = rss[m] /\ (OwnRAM(m) = rss[m] \/ OwnRAM(m) = 0)
    BY <1>5, <1>8 DEF OwnRAM
  <2>2. OwnRAM(m) <= rss'[m] + 0
    BY <1>3, <2>1, SMTT(30)
  <2> QED BY <1>6, <2>2
<1>9. CASE proc[m] # NoProc /\ proc[m] # wanted
  <2>1. /\ proc[m].profile \in Profiles /\ Lane[proc[m].profile] = m /\ Model[proc[m].profile] = Wanted(m)
        /\ proc[m].device = device[m] /\ rss[m] <= PeakRAM[proc[m].profile][device[m]]
    BY <1>1, <1>3, <1>9 DEF WorkerOK
  <2>2. proc[m].profile # JobProfile(m)
    BY <1>3, <1>9, <2>1 DEF ProcStatus
  <2>3. PeakRAM[proc[m].profile][device[m]] \in Credits(m)'
    BY <1>2, <1>4, <1>5, <2>1, <2>2 DEF Credits, Wanted
  <2>4. OwnRAM(m) = rss[m] /\ rss'[m] = 0
    BY <1>5, <1>9, <2>1 DEF OwnRAM
  <2>5. PeakRAM[proc[m].profile][device[m]] \in Nat
    BY <1>2, <2>1, Constants
  <2>6. OwnRAM(m) <= rss'[m] + PeakRAM[proc[m].profile][device[m]]
    BY <1>3, <2>1, <2>4, <2>5, SMTT(30)
  <2> QED BY <2>3, <2>5, <2>6
<1> QED BY <1>7, <1>8, <1>9

\* Admission: what the other lane holds or has reserved covers its promise but for
\* its credit, and this lane's own credit is covered by what its worker held.
LEMMA AcquireFits ==
    ASSUME Inv, Inv', Budgeted, NEW m \in Lanes, AcquireRAM(m)
    PROVE  Budgeted'
<1> DEFINE peak == PeakRAM[JobProfile(m)][device[m]]
<1>1. /\ pc[m] = "admit" /\ FitsRAM(m) /\ UNCHANGED <<job, device>>
      /\ needed' = [needed EXCEPT ![m] = Needed(m)] /\ pc' = [pc EXCEPT ![m] = "infer"]
      /\ \E v : rss' = [rss EXCEPT ![m] = v]
      /\ \E v : proc' = [proc EXCEPT ![m] = v]
  BY DEF AcquireRAM, Ensure
<1>2. peak \in Nat /\ OwnRAM(m) \in Nat /\ Needed(m) \in Nat /\ peak <= OwnRAM(m) + Needed(m)
  BY <1>1, NeededFits DEF Busy
<1>3. rss[m] \in Nat /\ needed[m] = 0 /\ Limit \in Nat /\ rss'[m] \in Nat
  BY <1>1, InvTypes DEF Inv, Workers
<1>4. OwnRAM(m) <= rss[m]
  BY <1>3, SMTT(30) DEF OwnRAM
<1>5. Promised(m)' = peak /\ needed'[m] = Needed(m) /\ pc'[m] = "infer" /\ PeakRAM[JobProfile(m)][device[m]]' = peak
  BY <1>1, InvTypes DEF Promised, JobProfile
<1> HIDE DEF peak
<1>6. Reserves(m)'
  <2>1. PICK x \in Credits(m)' : x \in Nat /\ OwnRAM(m) <= rss'[m] + x
    BY OwnIsCredited
  <2>2. peak <= rss'[m] + needed'[m] + x
    BY <1>2, <1>3, <1>5, <2>1, SMTT(30)
  <2> QED BY <1>5, <2>2 DEF Reserves
<1>7. PICK k \in Lanes : k # m /\ Lanes = {k, m} /\ {k, m} = {"gpu", "cpu"}
  BY DEF Lanes
<1>8. pc'[k] = pc[k] /\ rss'[k] = rss[k] /\ needed'[k] = needed[k] /\ proc'[k] = proc[k] /\ job' = job /\ device' = device
  BY <1>1, <1>7, InvTypes
<1>9. /\ Promised(k)' = Promised(k) /\ Promised(k) \in Nat /\ Promised(k) <= Limit
      /\ rss[k] \in Nat /\ needed[k] \in Nat /\ Credits(k)' = Credits(k)
  BY <1>8, PromisedType, InvTypes, SameCredits DEF Promised, JobProfile, Budgeted
<1>10. PICK x \in Credits(k) : x \in Nat /\ Promised(k) <= rss[k] + needed[k] + x
  <2>1. CASE pc[k] = "infer"
    <3>1. PICK x \in Credits(k) : PeakRAM[JobProfile(k)][device[k]] <= rss[k] + needed[k] + x
      BY <2>1 DEF Budgeted, Reserves
    <3> QED BY <2>1, <3>1, CreditsType DEF Promised
  <2>2. CASE pc[k] # "infer"
    <3>1. Promised(k) <= rss[k] + needed[k] + 0
      BY <1>9, <2>2, SMTT(30) DEF Promised
    <3> QED BY <3>1, CreditsType
  <2> QED BY <2>1, <2>2
<1>11. pc'[k] = "infer" => Reserves(k)'
  BY <1>8, <1>9 DEF Budgeted, Reserves, JobProfile
<1>12. peak + rss[k] + needed[k] <= Limit
  <2>1. UsedRAM = rss[k] + rss[m] /\ Reserved = needed[k] + needed[m]
    BY <1>3, <1>7, <1>9, SMTT(30) DEF UsedRAM, Reserved
  <2>2. (rss[k] + rss[m]) + (needed[k] + needed[m]) + Needed(m) <= Limit
    BY <1>1, <2>1 DEF FitsRAM
  <2> QED BY <1>2, <1>3, <1>4, <1>9, <2>2, SMTT(30)
<1>13. Promised(m)' <= Limit /\ Promised(k)' + Promised(m)' <= Limit + x
  BY <1>2, <1>3, <1>5, <1>9, <1>10, <1>12, SMTT(30)
<1>14. PromisedUpToCredit'
  <2>1. x \in Credits(k)'
    BY <1>9, <1>10
  <2>2. Promised("gpu")' + Promised("cpu")' <= Limit + x
    <3>1. CASE k = "gpu" /\ m = "cpu"
      BY <1>13, <3>1
    <3>2. CASE k = "cpu" /\ m = "gpu"
      BY <1>2, <1>5, <1>9, <1>13, <3>2, SMTT(30)
    <3> QED BY <1>7, <3>1, <3>2
  <2> QED BY <2>1, <2>2 DEF PromisedUpToCredit
<1>15. ASSUME NEW i \in Lanes PROVE (pc'[i] = "infer" => Reserves(i)') /\ Promised(i)' <= Limit
  BY <1>6, <1>7, <1>9, <1>11, <1>13
<1> QED BY <1>14, <1>15 DEF Budgeted

LEMMA BudgetNext ==
    ASSUME Inv, Inv', Budgeted, [Next]_vars
    PROVE  Budgeted'
<1>1. CASE \E m \in Lanes : AcquireRAM(m)
  BY <1>1, AcquireFits
<1>2. CASE UNCHANGED <<pc, job, device, needed, proc, rss>>
  <2>1. \A k \in Lanes : rss[k] \in Nat
    BY InvTypes
  <2>2. \A k \in Lanes : Shrinks(k)
    BY <1>2, <2>1, SMTT(30) DEF Shrinks
  <2> QED BY <2>2, ShrinksFits
<1>3. CASE \E m \in Lanes : LaneStep(m) /\ ~AcquireRAM(m)
  BY <1>3, LaneShrinks, ShrinksFits
<1>4. CASE \E m \in Lanes : IdleUnload(m)
  <2>1. PICK m \in Lanes : IdleUnload(m)
    BY <1>4
  <2>2. pc[m] = "idle" /\ UNCHANGED <<pc, job, device, needed>> /\ Unload(m)
    BY <2>1 DEF IdleUnload, running
  <2>3. Stopped(m) /\ Only(m, rss, rss', Nat) /\ Only(m, proc, proc', ProcStatus) /\ Apart(m)
    BY <2>2, UnloadStops DEF WorkersOnly, Apart
  <2> QED BY <2>2, <2>3, Quiet, ShrinksFits
<1>5. CASE \E m \in Lanes : Grow(m)
  <2>1. PICK m \in Lanes : Grow(m)
    BY <1>5
  <2>2. pc[m] = "infer" /\ UNCHANGED <<pc, job, device, needed, proc>>
    BY <2>1 DEF Grow, running
  <2>3. PICK n \in (rss[m] + 1)..PeakRAM[proc[m].profile][proc[m].device] : rss' = [rss EXCEPT ![m] = n]
    BY <2>1 DEF Grow
  <2>4. rss \in [Lanes -> Nat] /\ rss' \in [Lanes -> Nat]
    BY DEF Inv, Workers
  <2>5. ASSUME NEW k \in Lanes PROVE Shrinks(k)
    <3>1. CASE k = m
      <4>1. rss'[m] = n /\ rss[m] \in Nat /\ rss'[m] \in Nat
        BY <2>3, <2>4
      <4>2. rss[m] <= rss'[m]
        BY <2>3, <4>1, SMTT(30)
      <4> QED BY <2>2, <3>1, <4>2 DEF Shrinks
    <3>2. CASE k # m
      BY <2>2, <2>3, <2>4, <3>2, SMTT(30) DEF Shrinks
    <3> QED BY <3>1, <3>2
  <2> QED BY <2>5, ShrinksFits
<1>6. ASSUME NEW r, CallerStep(r) \/ Infer(r) \/ Cancel(r) PROVE UNCHANGED <<pc, job, device, needed, proc, rss>>
  BY <1>6 DEF CallerStep, Send, Await, Infer, Cancel, running, workers
<1>7. ASSUME NEW m, Overrun(m) \/ Close(m) PROVE UNCHANGED <<pc, job, device, needed, proc, rss>>
  BY <1>7 DEF Overrun, Close, running, workers
<1>8. CASE UNCHANGED vars
  BY <1>2, <1>8 DEF vars, running, workers
<1> QED BY <1>1, <1>2, <1>3, <1>4, <1>5, <1>6, <1>7, <1>8 DEF Next, Environment

\* The shared admission gate (manager.go:520-554) in any catalog, whatever the
\* allowances: the peaks of the admitted runs and what idle workers hold exceed
\* the budget at most by what one run was credited for a worker of another
\* profile of its model that ensure then stopped (process.go:192-195); with no
\* two profiles of a model in a lane the budget is kept.
THEOREM GateKeepsBudget == Spec => []PromisedUpToCredit
<1>1. Init => Budgeted
  <2> SUFFICES ASSUME Init PROVE Budgeted
    OBVIOUS
  <2>1. \A m \in Lanes : pc[m] # "infer" /\ Promised(m) = 0 /\ 0 \in Credits(m)
    BY DEF Init, Promised, Credits
  <2>2. Promised("gpu") + Promised("cpu") <= Limit + 0 /\ \A m \in Lanes : Promised(m) <= Limit
    BY <2>1, LocalModelsAssumption, SMTT(30) DEF Lanes
  <2>3. PromisedUpToCredit
    BY <2>1, <2>2 DEF PromisedUpToCredit, Lanes
  <2> QED BY <2>1, <2>2, <2>3 DEF Budgeted
<1>2. Inv /\ Inv' /\ Budgeted /\ [Next]_vars => Budgeted'
  BY BudgetNext
<1>3. Budgeted => PromisedUpToCredit
  BY DEF Budgeted
<1> QED BY <1>1, <1>2, <1>3, Inductive, PTL DEF Spec
=============================================================================
