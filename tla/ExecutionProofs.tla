-------------------------- MODULE ExecutionProofs --------------------------
(***************************************************************************)
(* Proofs about Execution for every number of workers, calls, attempts and *)
(* faults: a call is sent once and after its approval, a turn sees every   *)
(* result, an answer is final, a completed run is accounted for, the run   *)
(* follows its table and a retry repeats nothing.                          *)
(*                                                                         *)
(* Rows change under the claim of the input and the lease of the session,  *)
(* and both can pass on while a worker is under way.  The invariant says   *)
(* what the rows say of each other, what the owner of the claim and the    *)
(* holder of the lease may rely on, and what still holds for a worker that *)
(* has lost them inside a model turn or a tool call: the checkpoint it     *)
(* wrote before is still there, because Resume passes such a boundary only *)
(* by stopping.                                                            *)
(***************************************************************************)
EXTENDS Execution, TLAPS

\* Most leaves unfold definitions and compare cases; those with arithmetic or
\* function updates cite SMT.
USE ZenonT(30)

-----------------------------------------------------------------------------
(* Where a worker is *)

\* A model turn is under way, or a tool call: the checkpoint before it stays
\* open until the worker that wrote it goes on.
Turn(w) == at[w] \in {"calling", "streaming"} \/ (at[w] = "to_model" /\ cur[w] = "awaiting_model_resume")
Sending(w) == at[w] \in {"executing", "recording"}
Open(w) == Turn(w) \/ Sending(w)

\* A worker that resumes, between LoadCheckpoint and its routing.
Loaded(w) == at[w] \in {"refreshing", "routing"} \/ (at[w] = "leasing" /\ mode[w] = "resume")

\* A worker on its way to the next checkpoint.
Exits == {"failing", "dropping", "returning", "returned"}
Active(w) == at[w] \notin Exits \cup {"idle", "claimed", "loading", "reading"} /\ ~Loaded(w)

\* A call on its way to the broker.
Proposed == {"to_pending", "authorizing", "to_running", "save_dispatching"}

\* The places a worker reaches only under its lease.
Held == {"to_preparing", "preparing", "save_prepared", "remembering", "to_model", "save_started", "admitting",
         "save_reserved", "calling", "streaming", "timed_out", "unobserved", "to_pending", "authorizing",
         "to_running", "save_dispatching", "executing", "recording", "save_result", "to_resume",
         "to_finalizing", "save_finalizing", "saving", "save_stopped", "routing"}

\* The states before the first turn, and the ends a run can come to without one.
Unstarted == Early \cup {"none"}
Begun == Unstarted \cup {"model_running", "failed", "cancelled"}
Ready == {"accepted", "run_created", "prepared", "model_started", "execution_stopped"}

\* Execute with a state read after another worker got the run going.
Late(w) == mode[w] = "execute" /\ at[w] \in {"leasing", "dropping"} /\ cur[w] = "model_running"

Suspended == checkpoint \in {"awaiting_approval", "approval_ready"}
Settled == \A c \in Call : asked[c] > 0 => transcript[c] = "known"
NoTwin(c) == \A d \in Call \ {c} : asked[d] > 0 => intent[d] # intent[c]

-----------------------------------------------------------------------------
(* The inductive invariant *)

\* TypeOK without the bound on attempts.
Typed ==
    /\ run \in States \cup {"none"} /\ run_lease \in BOOLEAN
    /\ status \in {"queued", "running", "waiting_for_user", "blocked", "completed", "failed", "cancelled"}
    /\ attempts \in Nat
    /\ claim \in Workers \cup {Nobody, Orphan} /\ lease \in Workers \cup {Nobody, Orphan}
    /\ checkpoint \in Stages /\ data \in Nat /\ retry \in {"none", "claimed", "started"}
    /\ messages \in Nat /\ result \in Nat /\ turns \in Nat /\ calls \in 0..MaxCalls
    /\ transcript \in [Call -> {"none", "known", "effect_unknown"}]
    /\ approval \in [Call -> {"none", "pending", "approved", "refused"}]
    /\ intent \in [Call -> Intents \cup {0}] /\ asked \in [Call -> Nat]
    /\ effect \in [Call -> {"none", "known", "unknown"}]
    /\ at \in [Workers -> Places] /\ mode \in [Workers -> {"execute", "resume"}]
    /\ cur \in [Workers -> States \cup {"none"}] /\ item \in [Workers -> Nat]
    /\ outcome \in [Workers -> Verdicts \cup {"none", "known", "stopped", "effect_unknown"}]
    /\ seen \in [Workers -> [linked : BOOLEAN, tries : Nat, recorded : BOOLEAN, stage : Stages \cup {""},
                             data : Nat, retry : {"none", "claimed", "started"}, approved : 0..MaxCalls]]
    /\ faults \in 0..MaxFaults

\* What the rows say of each other.
Rows ==
    /\ run \notin Begun \/ checkpoint \notin Ready \/ retry # "none" \/ calls > 0 => turns > 0
    /\ run \in Unstarted => turns = 0
    /\ run = "none" => checkpoint = "accepted"
    /\ checkpoint = "accepted" => turns = 0
    /\ run = "awaiting_approval" => Suspended
    /\ Suspended => calls > 0 /\ approval[calls] # "none" /\ asked[calls] = 0
    /\ checkpoint = "awaiting_approval" => approval[calls] # "approved"
    /\ retry # "none" /\ Suspended => NoTwin(calls)
    /\ checkpoint = "finalizing" => data # 0
    /\ run = "completed" => result # 0 /\ checkpoint = "finalizing" /\ data = result
    /\ result # 0 => run = "completed"
    /\ messages <= 1
    /\ run \notin Unstarted \cup {"failed", "cancelled"} => messages = 1
    /\ claim # Nobody => status = "running"
    /\ attempts <= MaxAttempts + faults + 1
    /\ claim \notin Workers /\ status \notin {"completed", "failed", "cancelled"} => attempts <= MaxAttempts + faults

CallRows ==
    \A c \in Call :
        /\ asked[c] > 0 \/ approval[c] # "none" => c <= calls
        /\ asked[c] <= 1
        /\ transcript[c] # "none" => asked[c] > 0
        /\ asked[c] > 0 => approval[c] \in {"none", "approved"}
        /\ approval[c] = "pending" => checkpoint = "awaiting_approval" /\ c = calls
        /\ asked[c] > 0 /\ transcript[c] # "known" =>
              checkpoint \in {"tool_dispatching", "tool_result_recorded"} /\ data = c

\* What the place of a worker says of its own state.
Place(w) ==
    /\ at[w] = "save_created" => cur[w] # "none"
    /\ at[w] = "to_queued" => cur[w] = "created"
    /\ at[w] = "to_preparing" => cur[w] = "acquired"
    /\ at[w] \in {"preparing", "save_prepared", "remembering"} => cur[w] = "preparing"
    /\ at[w] = "to_model" => cur[w] \in {"preparing", "awaiting_model_resume"}
    /\ at[w] \in {"save_started", "streaming", "to_pending", "to_finalizing"} => cur[w] = "model_running"
    /\ at[w] \in {"admitting", "save_reserved", "calling", "timed_out", "unobserved"} => cur[w] \in Inference
    /\ at[w] \in {"authorizing", "to_running"} => cur[w] \in {"tool_pending", "awaiting_approval"}
    /\ at[w] \in {"save_dispatching", "executing", "recording", "save_result", "to_resume"} => cur[w] = "tool_running"
    /\ at[w] \in {"save_finalizing", "saving"} => cur[w] = "finalizing"
    /\ at[w] = "save_stopped" => cur[w] \in Inference \cup {"tool_running"}
    /\ at[w] = "routing" => cur[w] \notin Unstarted
    /\ at[w] \in {"creating", "save_created", "to_queued", "dropping"} => mode[w] = "execute"
    /\ at[w] \in {"loading", "reading", "refreshing", "routing"} => mode[w] = "resume"
    /\ at[w] \in {"leasing", "dropping"} /\ mode[w] = "execute" => cur[w] \in Begun \ {"none"}
    /\ at[w] \in {"to_finalizing", "save_finalizing"} => item[w] # 0
    /\ at[w] \in {"recording", "save_result"} => outcome[w] \in {"known", "stopped", "effect_unknown"}
    /\ at[w] \in {"idle", "claimed"} => seen[w].retry = "none" /\ seen[w].approved = 0 /\ mode[w] = "execute" /\ cur[w] = "none"
    /\ at[w] = "idle" => ~seen[w].linked
    /\ seen[w].stage = "finalizing" => seen[w].data # 0
    /\ at[w] \notin {"idle", "claimed"} /\ seen[w].tries > MaxAttempts =>
          at[w] = "returned" /\ outcome[w] = "retry_exhausted"

\* What a worker knows of the run, and what its lease keeps from the others.
InRun(w) ==
    /\ seen[w].linked \/ cur[w] # "none" => run # "none"
    /\ cur[w] \notin Unstarted \/ mode[w] = "resume" => run \notin Unstarted
    /\ cur[w] \notin Begun \/ at[w] \in {"calling", "streaming", "to_pending", "to_finalizing"} => turns > 0
    /\ seen[w].approved <= calls
    /\ lease = w =>
          /\ at[w] \in Held => run = cur[w] \/ (run = "failed" /\ cur[w] \in Early \cup {"model_running"})
          /\ at[w] \in {"save_prepared", "remembering"} => (seen[w].recorded <=> messages > 0)
          /\ at[w] = "to_model" => messages = 1

\* What the live claim keeps from the others.
AsOwner(w) == OwnsClaim(w) =>
    /\ at[w] # "idle" /\ seen[w].tries = attempts
    /\ at[w] = "claimed" /\ ~seen[w].linked => checkpoint = "accepted"
    /\ at[w] \in {"creating", "save_created"} => turns = 0
    /\ at[w] = "save_created" => cur[w] \in Begun
    /\ at[w] = "reading" /\ cur[w] = "awaiting_approval" => Suspended
    /\ Loaded(w) =>
          /\ seen[w].stage = checkpoint \/ (checkpoint = "approval_ready" /\ seen[w].stage = "awaiting_approval")
          /\ seen[w].data = data /\ seen[w].retry = retry
          /\ seen[w].approved # 0 => Suspended /\ seen[w].approved = calls
    /\ lease = w /\ at[w] \in Held /\ cur[w] = "model_running" /\ run = "failed" =>
          at[w] = "routing" /\ checkpoint = "run_created"

\* What holds while the owner of the claim is on its way to a checkpoint.
AsActive(w) == OwnsClaim(w) /\ Active(w) =>
    /\ checkpoint # "awaiting_approval"
    /\ retry = "none" <=> seen[w].retry = "none"
    /\ checkpoint = "finalizing" => at[w] = "saving" \/ (at[w] = "save_finalizing" /\ item[w] = data)
    /\ at[w] \notin {"recording", "save_result"} => Settled
    /\ at[w] \in {"recording", "save_result"} =>
          /\ item[w] \in Call /\ item[w] = data
          /\ \A c \in Call \ {item[w]} : asked[c] > 0 => transcript[c] = "known"
    /\ at[w] = "save_result" /\ outcome[w] # "effect_unknown" => transcript[item[w]] = "known"
    /\ at[w] \in Proposed =>
          /\ item[w] = calls /\ calls > 0 /\ asked[calls] = 0
          /\ approval[calls] = (IF Approved(w) THEN "approved" ELSE "none")
          /\ retry # "none" => NoTwin(calls)

\* What stays true of the rows until this worker goes on, claim or no claim.
Tied(w) ==
    /\ Late(w) => checkpoint = "run_created"
    /\ at[w] = "saving" => checkpoint = "finalizing" /\ data = item[w]
    /\ Turn(w) => checkpoint = "model_budget_reserved"
    /\ Open(w) => (retry = "none" <=> seen[w].retry = "none")
    /\ Sending(w) =>
          /\ checkpoint = "tool_dispatching" /\ data = item[w]
          /\ item[w] = calls /\ calls > 0 /\ transcript[calls] = "none" /\ approval[calls] \in {"none", "approved"}
    /\ at[w] = "executing" => asked[calls] = 0 /\ (retry # "none" => NoTwin(calls))
    /\ at[w] = "recording" => asked[calls] > 0

\* What two workers never do at the same time.
Apart(v, w) ==
    /\ Open(v) => ~Open(w) /\ ~(OwnsClaim(w) /\ Active(w))
    /\ Late(v) /\ OwnsClaim(w) => at[w] \notin Held \ {"routing"}

Worker(w) == Place(w) /\ InRun(w) /\ AsOwner(w) /\ AsActive(w) /\ Tied(w)

Inv ==
    /\ Typed /\ Rows /\ CallRows
    /\ \A w \in Workers : Worker(w)
    /\ \A v, w \in Workers : v # w => Apart(v, w)

-----------------------------------------------------------------------------
(* Steps of one worker *)

\* Only worker w has moved.
Alone(w) ==
    \A v \in Workers \ {w} :
        /\ at'[v] = at[v] /\ mode'[v] = mode[v] /\ cur'[v] = cur[v]
        /\ item'[v] = item[v] /\ outcome'[v] = outcome[v] /\ seen'[v] = seen[v]

\* What w keeps of its own while it changes its place.
Same(w) == mode'[w] = mode[w] /\ cur'[w] = cur[w] /\ item'[w] = item[w] /\ seen'[w] = seen[w]

owned == <<status, attempts, claim, checkpoint, data, retry, approval, turns, calls, intent, asked, transcript>>
rest == <<messages, result, faults>>

LEMMA Assemble ==
    ASSUME NEW w \in Workers, Typed', Rows', CallRows', Worker(w)',
           \A v \in Workers \ {w} : Worker(v)' /\ Apart(v, w)' /\ Apart(w, v)',
           \A u, v \in Workers \ {w} : u # v => Apart(u, v)'
    PROVE  Inv'
BY DEF Inv

\* Place speaks of the worker's own state only.
LEMMA PlaceKept ==
    ASSUME NEW v \in Workers, Place(v), at'[v] = at[v], mode'[v] = mode[v], cur'[v] = cur[v], item'[v] = item[v],
           outcome'[v] = outcome[v], seen'[v] = seen[v]
    PROVE  Place(v)'
BY SMTT(30) DEF Place

LEMMA OthersPlace ==
    ASSUME Inv, NEW w \in Workers, Alone(w)
    PROVE  \A v \in Workers \ {w} : Place(v)'
BY PlaceKept DEF Inv, Worker, Alone

\* Nothing but w's own state, possibly the lease and, under it, the user message
\* has changed.
LEMMA LocalOK ==
    ASSUME Inv, NEW w \in Workers, Alone(w), Typed', UNCHANGED <<run, owned, result, faults>>,
           UNCHANGED messages \/ (lease' = w /\ messages' = 1),
           \A v \in Workers \ {w} : lease' = v => lease = v,
           Worker(w)', \A v \in Workers \ {w} : Apart(v, w)' /\ Apart(w, v)'
    PROVE  Inv'
<1>1. Rows' /\ CallRows'
    BY SMTT(30) DEF Inv, Rows, CallRows, Suspended, NoTwin, owned
<1>2. \A v \in Workers \ {w} : Place(v)'
    BY OthersPlace
<1>3. \A v \in Workers \ {w} : InRun(v)'
    BY SMTT(30) DEF Inv, Worker, InRun, Alone, owned
<1>4. \A v \in Workers \ {w} : AsOwner(v)'
    BY SMTT(30) DEF Inv, Worker, AsOwner, OwnsClaim, Loaded, Suspended, Alone, owned
<1>5. \A v \in Workers \ {w} : AsActive(v)'
    BY SMTT(30) DEF Inv, Worker, AsActive, OwnsClaim, Active, Loaded, Settled, Approved, NoTwin, Alone, owned
<1>6. \A v \in Workers \ {w} : Tied(v)'
    BY SMTT(30) DEF Inv, Worker, Tied, Late, Turn, Open, Sending, NoTwin, Alone, owned
<1>7. \A u, v \in Workers \ {w} : u # v => Apart(u, v)'
    BY SMTT(30) DEF Inv, Apart, Open, Turn, Sending, OwnsClaim, Active, Loaded, Late, Alone, owned
<1> QED BY <1>1, <1>2, <1>3, <1>4, <1>5, <1>6, <1>7, Assemble DEF Worker

\* w gives up: it only has to release its lease and to report.
LEMMA QuitOK ==
    ASSUME Inv, NEW w \in Workers, Alone(w), mode'[w] = mode[w], cur'[w] = cur[w], seen'[w] = seen[w], Typed', UNCHANGED <<run, owned, rest>>,
           \A v \in Workers : lease' = v => lease = v,
           at[w] \notin {"idle", "returned"}, at'[w] \in {"failing", "returning", "returned"},
           at[w] = "claimed" /\ seen[w].tries > MaxAttempts => at'[w] = "returned" /\ outcome'[w] = "retry_exhausted"
    PROVE  Inv'
<1>1. Worker(w)
    BY DEF Inv
<1>2. Place(w)'
    BY <1>1 DEF Worker, Place
<1>3. InRun(w)'
    BY <1>1 DEF Worker, InRun, Held, owned, rest
<1>4. AsOwner(w)' /\ AsActive(w)'
    BY <1>1 DEF Worker, AsOwner, AsActive, OwnsClaim, Loaded, Active, Exits, Held, owned
<1>5. Tied(w)'
    BY DEF Tied, Late, Turn, Open, Sending
<1>6. \A v \in Workers \ {w} : Apart(v, w)' /\ Apart(w, v)'
    BY DEF Apart, Late, Turn, Open, Sending, Active, Exits, Held
<1> QED BY <1>2, <1>3, <1>4, <1>5, <1>6, LocalOK DEF Worker, rest

\* The steps of an execution that change nothing but the place of the worker.
Forward(a, b) ==
    \/ a = "remembering" /\ b = "to_model"
    \/ a = "admitting" /\ b \in {"save_reserved", "save_stopped"}
    \/ a = "calling" /\ b \in {"to_model", "streaming"}
    \/ a \in {"calling", "streaming"} /\ b \in {"save_stopped", "timed_out", "unobserved"}
    \/ a = "timed_out" /\ b = "save_stopped"
    \/ a = "authorizing" /\ b = "to_running"

LEMMA ForwardOK ==
    ASSUME Inv, NEW w \in Workers, Alone(w), Same(w), Typed', UNCHANGED <<run, owned, result, faults, lease>>,
           UNCHANGED messages \/ (at[w] = "remembering" /\ lease = w),
           Forward(at[w], at'[w]), Place(w)',
           at[w] = "remembering" /\ lease = w => messages' = 1,
           at[w] = "calling" /\ at'[w] = "to_model" => cur[w] = "awaiting_model_resume"
    PROVE  Inv'
<1>1. Worker(w) /\ at[w] \in Held \ {"routing"} /\ at'[w] \in Held \ {"routing"}
    BY DEF Inv, Forward, Held
<1>2. InRun(w)'
    <2>1. at[w] = "calling" /\ at'[w] = "to_model" /\ lease = w => messages' = 1
        BY <1>1 DEF Inv, Rows, Worker, InRun, Early, Unstarted
    <2> QED BY <1>1, <2>1 DEF Worker, InRun, Same, Forward, owned
<1>3. Active(w) /\ Active(w)' /\ ~Loaded(w)' /\ (Open(w)' => Turn(w) /\ Turn(w)')
    BY <1>1 DEF Worker, Place, Active, Loaded, Exits, Open, Turn, Sending, Forward, Same
<1>4. AsOwner(w)'
    BY <1>1, <1>3 DEF Worker, AsOwner, OwnsClaim, Same, Held, owned
<1>5. AsActive(w)'
    BY <1>1, <1>3 DEF Worker, AsActive, OwnsClaim, Same, Forward, Proposed, Approved, Settled, NoTwin, owned
<1>6. Tied(w)'
    BY <1>1, <1>3 DEF Worker, Tied, Late, Open, Turn, Sending, Same, Forward, owned
<1>7. \A v \in Workers \ {w} : Apart(v, w)' /\ Apart(w, v)'
    <2> TAKE v \in Workers \ {w}
    <2>1. Apart(v, w) /\ Apart(w, v) /\ (Open(v)' <=> Open(v)) /\ (Late(v)' <=> Late(v)) /\ ~Late(w)'
        BY <1>1 DEF Inv, Alone, Open, Turn, Sending, Late, Held
    <2> QED BY <1>1, <1>3, <2>1 DEF Apart, OwnsClaim, Active, Loaded, Alone, Open, owned
<1> QED BY <1>2, <1>4, <1>5, <1>6, <1>7, LocalOK DEF Worker

LEMMA Counts ==
    ASSUME Typed
    PROVE  turns \in Nat /\ calls \in Nat /\ attempts \in Nat /\ messages \in Nat /\ faults \in Nat
<1>1. turns \in Nat /\ calls \in 0..MaxCalls /\ attempts \in Nat /\ messages \in Nat /\ faults \in 0..MaxFaults
    BY DEF Typed
<1> QED BY <1>1, ExecutionAssumption, SMTT(30)

LEMMA SeenOK ==
    ASSUME Typed, NEW w \in Workers
    PROVE  /\ seen[w].approved \in Nat /\ seen[w].data \in Nat /\ seen[w].tries \in Nat
           /\ seen[w].retry \in {"none", "claimed", "started"} /\ seen[w].stage \in Stages \cup {""}
<1>1. seen[w] \in [linked : BOOLEAN, tries : Nat, recorded : BOOLEAN, stage : Stages \cup {""},
                   data : Nat, retry : {"none", "claimed", "started"}, approved : 0..MaxCalls]
    BY DEF Typed
<1>2. seen[w].approved \in 0..MaxCalls /\ seen[w].data \in Nat /\ seen[w].tries \in Nat
    BY <1>1
<1>3. seen[w].approved \in Nat
    BY <1>2, ExecutionAssumption, SMTT(30)
<1>4. seen[w].retry \in {"none", "claimed", "started"} /\ seen[w].stage \in Stages \cup {""}
    BY <1>1
<1> QED BY <1>2, <1>3, <1>4

\* w writes the run's row, under its lease or before it has one.
LEMMA RunOK ==
    ASSUME Inv, NEW w \in Workers, Alone(w), Typed', UNCHANGED <<owned, messages, faults, lease>>,
           run' # "none", run \notin Unstarted => run' \notin Unstarted,
           \A v \in Workers \ {w} : lease = v /\ at[v] \in Held =>
               run' = run \/ (run' = "failed" /\ run = cur[w] /\ run \in Early \cup {"model_running"} /\ at[w] = "dropping"),
           Rows', Worker(w)', \A v \in Workers \ {w} : Apart(v, w)' /\ Apart(w, v)'
    PROVE  Inv'
<1>1. CallRows'
    BY DEF Inv, CallRows, owned
<1>2. \A v \in Workers \ {w} : Place(v)'
    BY OthersPlace
<1>3. ASSUME NEW v \in Workers \ {w} PROVE InRun(v)'
    BY SMTT(30) DEF Inv, Worker, InRun, Alone, owned
<1>4. ASSUME NEW v \in Workers \ {w} PROVE AsOwner(v)'
    <2>1. ASSUME OwnsClaim(v), lease = v, at[v] \in Held, cur[v] = "model_running", run' = "failed"
          PROVE  at[v] = "routing" /\ checkpoint = "run_created"
        <3>1. CASE run' = run
            BY <2>1, <3>1 DEF Inv, Worker, AsOwner
        <3>2. CASE run = cur[w] /\ run \in Early \cup {"model_running"} /\ at[w] = "dropping"
            <4>1. run = "model_running"
                BY <2>1, <3>2 DEF Inv, Worker, InRun, Early
            <4>2. Late(w)
                BY <3>2, <4>1 DEF Inv, Worker, Place, Late
            <4> QED BY <2>1, <4>2 DEF Inv, Worker, Tied, Apart
        <3> QED BY <2>1, <3>1, <3>2
    <2> QED BY <2>1, SMTT(30) DEF Inv, Worker, AsOwner, OwnsClaim, Loaded, Suspended, Alone, owned
<1>5. \A v \in Workers \ {w} : AsActive(v)'
    BY SMTT(30) DEF Inv, Worker, AsActive, OwnsClaim, Active, Loaded, Settled, Approved, NoTwin, Alone, owned
<1>6. \A v \in Workers \ {w} : Tied(v)'
    BY SMTT(30) DEF Inv, Worker, Tied, Late, Turn, Open, Sending, NoTwin, Alone, owned
<1>7. \A u, v \in Workers \ {w} : u # v => Apart(u, v)'
    BY SMTT(30) DEF Inv, Apart, Open, Turn, Sending, OwnsClaim, Active, Loaded, Late, Alone, owned
<1> QED BY <1>1, <1>2, <1>3, <1>4, <1>5, <1>6, <1>7, Assemble DEF Worker

\* The owner of the claim is the only one that is on its way to a checkpoint.
LEMMA OwnerAlone ==
    ASSUME Inv, NEW w \in Workers, OwnsClaim(w), Active(w), NEW v \in Workers \ {w}
    PROVE  /\ ~OwnsClaim(v) /\ ~Open(v) /\ (at[w] \in Held \ {"routing"} => ~Late(v))
           /\ at[v] = "saving" => at[w] = "saving" \/ (at[w] = "save_finalizing" /\ item[w] = data)
BY DEF Inv, Worker, Apart, Tied, AsActive, OwnsClaim

\* The owner of the claim writes a boundary.
LEMMA OwnerOK ==
    ASSUME Inv, NEW w \in Workers, OwnsClaim(w), Active(w), Alone(w), Typed',
           UNCHANGED <<claim, lease, messages, faults>>,
           UNCHANGED run \/ (lease = w /\ run \notin Unstarted /\ run' \notin Unstarted),
           turns <= turns', calls <= calls',
           at[w] \in Held \ {"routing"} \/ (checkpoint' = "run_created" /\ at'[w] \notin Held),
           at[w] = "saving" \/ (at[w] = "save_finalizing" /\ item[w] = data) =>
               checkpoint' = "finalizing" /\ data' = data,
           Rows', CallRows', Worker(w)', \A v \in Workers \ {w} : Apart(w, v)'
    PROVE  Inv'
<1>1. \A v \in Workers \ {w} : /\ ~OwnsClaim(v)' /\ ~Open(v)' /\ ~Open(v)
                               /\ Late(v)' => at[w] \notin Held \ {"routing"}
    BY OwnerAlone, SMTT(30) DEF OwnsClaim, Open, Turn, Sending, Late, Alone
<1>2. \A v \in Workers \ {w} : Place(v)'
    BY OthersPlace
<1>3. ASSUME NEW v \in Workers \ {w} PROVE InRun(v)'
    <2>1. (turns > 0 => turns' > 0) /\ (seen[v].approved <= calls => seen'[v].approved <= calls')
        <3>1. turns \in Nat /\ turns' \in Nat /\ calls \in 0..MaxCalls /\ calls' \in 0..MaxCalls
            BY DEF Inv, Typed
        <3>2. seen[v].approved \in Nat /\ seen'[v].approved = seen[v].approved
            BY SeenOK DEF Inv, Alone
        <3> QED BY <3>1, <3>2, ExecutionAssumption, SMTT(30)
    <2>2. run # "none" => run' # "none"
        BY DEF Unstarted
    <2> QED BY <2>1, <2>2 DEF Inv, Worker, InRun, Alone
<1>4. \A v \in Workers \ {w} : AsOwner(v)' /\ AsActive(v)'
    BY <1>1 DEF AsOwner, AsActive
<1>5. ASSUME NEW v \in Workers \ {w} PROVE Tied(v)'
    <2>1. Late(v)' => checkpoint' = "run_created"
        BY <1>1
    <2>2. at'[v] = "saving" => checkpoint' = "finalizing" /\ data' = item'[v]
        BY OwnerAlone DEF Inv, Worker, Tied, Alone
    <2> QED BY <1>1, <2>1, <2>2 DEF Tied, Open, Sending
<1>6. ASSUME NEW u \in Workers, NEW v \in Workers \ {w}, u # v PROVE Apart(v, u)'
    <2>1. OwnsClaim(u)' => u = w
        BY DEF OwnsClaim
    <2>2. Late(v)' => at'[w] \notin Held
        BY <1>1
    <2> QED BY <1>1, <2>1, <2>2 DEF Apart
<1> QED BY <1>2, <1>3, <1>4, <1>5, <1>6, Assemble DEF Worker

\* The worker whose turn or call it is works on the calls; nobody else is at a
\* point that depends on them.
LEMMA OpenOK ==
    ASSUME Inv, NEW w \in Workers, Open(w), Alone(w), Typed',
           UNCHANGED <<run, status, attempts, claim, checkpoint, data, retry, approval, turns, rest, lease>>,
           calls <= calls',
           CallRows', Worker(w)', Open(w)' => Open(w), ~Late(w)'
    PROVE  Inv'
<1>1. checkpoint \in {"model_budget_reserved", "tool_dispatching"}
    BY DEF Inv, Worker, Tied, Open
<1>2. Rows'
    BY <1>1 DEF Inv, Rows, Suspended, Ready, rest
<1>3. ASSUME NEW v \in Workers \ {w}
      PROVE  /\ ~Open(v)' /\ ~(OwnsClaim(v) /\ Active(v))' /\ ~Late(v)' /\ at'[v] # "saving"
             /\ OwnsClaim(v)' <=> OwnsClaim(v)
    <2>1. Apart(w, v) /\ Tied(v)
        BY DEF Inv, Worker
    <2> QED BY <1>1, <2>1 DEF Apart, Tied, Open, Turn, Sending, Late, OwnsClaim, Active, Loaded, Alone
<1>4. \A v \in Workers \ {w} : Place(v)'
    BY OthersPlace
<1>5. ASSUME NEW v \in Workers \ {w} PROVE InRun(v)'
    <2>1. seen[v].approved <= calls => seen'[v].approved <= calls'
        <3>1. calls \in 0..MaxCalls /\ calls' \in 0..MaxCalls
            BY DEF Inv, Typed
        <3>2. seen[v].approved \in Nat /\ seen'[v].approved = seen[v].approved
            BY SeenOK DEF Inv, Alone
        <3> QED BY <3>1, <3>2, ExecutionAssumption, SMTT(30)
    <2> QED BY <2>1 DEF Inv, Worker, InRun, Alone, rest
<1>6. \A v \in Workers \ {w} : AsOwner(v)'
    BY <1>1, SMTT(30) DEF Inv, Worker, AsOwner, OwnsClaim, Loaded, Suspended, Alone
<1>7. \A v \in Workers \ {w} : AsActive(v)' /\ Tied(v)'
    BY <1>3 DEF AsActive, Tied, Open, Sending
<1>8. \A u, v \in Workers : u # v => Apart(u, v)'
    BY <1>3 DEF Apart
<1> QED BY <1>2, <1>4, <1>5, <1>6, <1>7, <1>8, Assemble DEF Worker

-----------------------------------------------------------------------------
(* One lemma per action *)

\* The variables a step leaves alone when only the place of a worker changes.
others == <<input, transcript, approval, result, world, mode, cur, item, seen, faults>>

Outcomes == Verdicts \cup {"none", "known", "stopped", "effect_unknown"}

Moves(w, p) == at' = [at EXCEPT ![w] = p] /\ (UNCHANGED outcome \/ (\E o \in Outcomes : outcome' = [outcome EXCEPT ![w] = o]))

LEMMA PlaceNames ==
    {"to_queued", "to_acquired", "to_preparing", "to_model", "to_pending", "to_running", "to_resume", "to_finalizing",
     "save_created", "save_prepared", "save_started", "save_reserved", "save_dispatching", "save_result",
     "save_finalizing", "save_stopped", "idle", "claimed", "creating", "leasing", "recovering", "preparing",
     "remembering", "admitting", "calling", "streaming", "timed_out", "unobserved", "authorizing",
     "executing", "recording", "saving", "loading", "reading", "refreshing", "routing",
     "failing", "dropping", "returning", "returned"} = Places
BY SMTT(30) DEF Places, Target, Stage

LEMMA StageNames ==
    {"accepted", "run_created", "prepared", "model_started", "model_budget_reserved", "tool_dispatching",
     "tool_result_recorded", "finalizing", "execution_stopped", "awaiting_approval", "approval_ready",
     "model_retry_pending"} = Stages
BY SMTT(30) DEF Stages, Stage

LEMMA MovesOK ==
    ASSUME Typed, NEW w \in Workers, NEW p \in Places, Moves(w, p)
    PROVE  /\ at' \in [Workers -> Places] /\ outcome' \in [Workers -> Outcomes] /\ at'[w] = p
           /\ \A v \in Workers \ {w} : at'[v] = at[v] /\ outcome'[v] = outcome[v]
<1>1. at \in [Workers -> Places] /\ outcome \in [Workers -> Outcomes]
    BY DEF Typed, Outcomes
<1>2. at' \in [Workers -> Places] /\ at'[w] = p /\ \A v \in Workers \ {w} : at'[v] = at[v]
    BY <1>1, SMTT(30) DEF Moves
<1>3. outcome' \in [Workers -> Outcomes] /\ \A v \in Workers \ {w} : outcome'[v] = outcome[v]
    BY <1>1, SMTT(30) DEF Moves
<1> QED BY <1>2, <1>3

LEMMA PlaceTyped ==
    ASSUME Typed, NEW w \in Workers, NEW p \in Places, Moves(w, p),
           run' \in States \cup {"none"}, run_lease' \in BOOLEAN, lease' \in Workers \cup {Nobody, Orphan},
           messages' \in Nat, UNCHANGED others
    PROVE  Typed' /\ Alone(w) /\ Same(w) /\ at'[w] = p
<1>1. Typed'
    BY MovesOK DEF Typed, Outcomes, others, input, world
<1>2. Alone(w) /\ Same(w) /\ at'[w] = p
    BY MovesOK DEF Alone, Same, others
<1> QED BY <1>1, <1>2

\* The ways to give up.
Quits(w) == Raise(w) \/ Goto(w, "failing") \/ (\E o \in Verdicts : Leave(w, o) \/ Return(w, o))

LEMMA QuitStep ==
    ASSUME Inv, NEW w \in Workers, Quits(w), at[w] \notin {"idle", "claimed", "returned"},
           UNCHANGED <<run, run_lease, lease, messages, others>>
    PROVE  Inv'
<1>1. PICK p \in {"failing", "returning", "returned"} : Moves(w, p)
    BY DEF Quits, Raise, Goto, Leave, Return, Moves, Outcomes, Verdicts
<1>2. p \in Places
    BY DEF Places
<1>3. Typed' /\ Alone(w) /\ Same(w) /\ at'[w] = p
    BY <1>1, <1>2, PlaceTyped DEF Inv, Typed
<1> QED BY <1>3, QuitOK DEF Same, others, owned, rest, input, world

LEMMA ReleaseLeaseOK == ASSUME Inv, NEW w \in Workers, ReleaseLease(w) PROVE Inv'
<1>1. Typed' /\ Alone(w) /\ Same(w) /\ at'[w] = "returned"
    BY PlaceTyped DEF Inv, Typed, ReleaseLease, Moves, others, row, records, Places
<1>2. \A v \in Workers : lease' = v => lease = v
    BY WorkerNames DEF ReleaseLease
<1> QED BY <1>1, <1>2, QuitOK DEF Same, ReleaseLease, owned, rest, row, input, records, world

\* A step of Forward.
LEMMA ForwardStep ==
    ASSUME Inv, NEW w \in Workers, NEW p \in Places, Goto(w, p), Forward(at[w], p),
           p \in {"save_stopped", "to_model", "to_running"} \/ cur[w] \in Inference,
           at[w] = "remembering" => cur[w] = "preparing" /\ (lease = w => messages' = 1),
           at[w] = "calling" /\ p = "to_model" => cur[w] = "awaiting_model_resume",
           p = "streaming" => cur[w] = "model_running",
           UNCHANGED messages \/ (at[w] = "remembering" /\ lease = w /\ messages' \in Nat),
           UNCHANGED <<run, run_lease, lease, others>>
    PROVE  Inv'
<1>1. Typed' /\ Alone(w) /\ Same(w) /\ at'[w] = p
    <2>1. /\ run' \in States \cup {"none"} /\ run_lease' \in BOOLEAN
          /\ lease' \in Workers \cup {Nobody, Orphan} /\ messages' \in Nat
        BY DEF Inv, Typed
    <2> QED BY <2>1, PlaceTyped DEF Inv, Goto, Moves
<1>2. Place(w)'
    BY <1>1 DEF Inv, Worker, Place, Same, Forward, Inference
<1> QED BY <1>1, <1>2, ForwardOK DEF others, owned, rest, input, world

LEMMA ModelStreamOK == ASSUME Inv, NEW w \in Workers, ModelStream(w) PROVE Inv'
<1>1. cur[w] \in Inference
    BY DEF Inv, Worker, Place, ModelStream
<1> DEFINE p == IF cur[w] = "awaiting_model_resume" THEN "to_model" ELSE "streaming"
<1>2. p \in Places /\ Forward(at[w], p) /\ Goto(w, p)
    BY PlaceNames DEF ModelStream, Forward
<1> HIDE DEF p
<1> QED BY <1>1, <1>2, ForwardStep DEF p, ModelStream, others, row, records, Inference

LEMMA ModelFailsOK == ASSUME Inv, NEW w \in Workers, ModelFails(w) PROVE Inv'
<1>1. CASE Raise(w)
    BY <1>1, QuitStep DEF Quits, ModelFails, others, row, records
<1>2. ASSUME NEW p \in {"save_stopped", "timed_out", "unobserved"}, Goto(w, p) PROVE Inv'
    <2>1. p \in Places /\ Forward(at[w], p)
        BY PlaceNames DEF ModelFails, Forward
    <2>2. cur[w] \in Inference
        BY DEF Inv, Worker, Place, ModelFails, Inference
    <2> QED BY <1>2, <2>1, <2>2, ForwardStep DEF ModelFails, others, row, records
<1> QED BY <1>1, <1>2 DEF ModelFails

LEMMA AuthorizeActionOK == ASSUME Inv, NEW w \in Workers, AuthorizeAction(w) PROVE Inv'
<1>1. CASE Raise(w)
    BY <1>1, QuitStep DEF Quits, AuthorizeAction, others, row, records
<1>2. CASE Goto(w, "to_running")
    <2>1. "to_running" \in Places
        BY PlaceNames
    <2> QED BY <1>2, <2>1, ForwardStep DEF AuthorizeAction, Forward, others, row, records
<1> QED BY <1>1, <1>2 DEF AuthorizeAction

LEMMA AppendMessageOK == ASSUME Inv, NEW w \in Workers, AppendMessage(w) PROVE Inv'
<1>1. /\ cur[w] = "preparing" /\ messages \in Nat /\ messages <= 1
      /\ lease = w => (seen[w].recorded <=> messages > 0)
    BY DEF Inv, Typed, Rows, Worker, Place, InRun, AppendMessage
<1>2. CASE Goto(w, "to_model")
    <2>1. "to_model" \in Places
        BY PlaceNames
    <2>2. lease = w => messages' = 1
        <3>1. CASE seen[w].recorded
            BY <1>1, <3>1, SMTT(30) DEF AppendMessage
        <3>2. CASE ~seen[w].recorded
            BY <1>1, <3>2, SMTT(30) DEF AppendMessage, Fenced
        <3> QED BY <3>1, <3>2
    <2>3. UNCHANGED messages \/ (at[w] = "remembering" /\ lease = w /\ messages' \in Nat)
        BY <1>1, SMTT(30) DEF AppendMessage, Fenced
    <2> QED BY <1>1, <1>2, <2>1, <2>2, <2>3, ForwardStep DEF AppendMessage, Forward, others, row
<1>3. CASE UNCHANGED messages /\ Goto(w, "failing")
    BY <1>3, QuitStep DEF AppendMessage, Quits, others, row
<1> QED BY <1>2, <1>3 DEF AppendMessage

LEMMA PrepareRunOK == ASSUME Inv, NEW w \in Workers, PrepareRun(w) PROVE Inv'
<1>1. /\ Worker(w) /\ at[w] = "preparing" /\ at'[w] \in {"save_prepared", "failing"} /\ Alone(w)
      /\ seen'[w] = [seen[w] EXCEPT !.recorded = messages > 0]
      /\ mode'[w] = mode[w] /\ cur'[w] = cur[w] /\ item'[w] = item[w]
      /\ UNCHANGED <<run, owned, rest, lease>>
    BY DEF PrepareRun, Goto, Alone, Inv, Typed, row, input, records, world, owned, rest
<1>2. /\ seen'[w].linked = seen[w].linked /\ seen'[w].tries = seen[w].tries /\ seen'[w].recorded = (messages > 0)
      /\ seen'[w].retry = seen[w].retry /\ seen'[w].approved = seen[w].approved
      /\ seen'[w].stage = seen[w].stage /\ seen'[w].data = seen[w].data
    <2>1. seen[w] \in [linked : BOOLEAN, tries : Nat, recorded : BOOLEAN, stage : Stages \cup {""},
                       data : Nat, retry : {"none", "claimed", "started"}, approved : 0..MaxCalls]
        BY DEF Inv, Typed
    <2> QED BY <1>1, <2>1
<1>3. Typed'
    <2>1. seen' \in [Workers -> [linked : BOOLEAN, tries : Nat, recorded : BOOLEAN, stage : Stages \cup {""},
                             data : Nat, retry : {"none", "claimed", "started"}, approved : 0..MaxCalls]]
        <3>1. seen'[w] \in [linked : BOOLEAN, tries : Nat, recorded : BOOLEAN, stage : Stages \cup {""},
                             data : Nat, retry : {"none", "claimed", "started"}, approved : 0..MaxCalls]
            <4>1. seen[w] \in [linked : BOOLEAN, tries : Nat, recorded : BOOLEAN, stage : Stages \cup {""},
                                data : Nat, retry : {"none", "claimed", "started"}, approved : 0..MaxCalls]
                BY DEF Inv, Typed
            <4>2. (messages > 0) \in BOOLEAN
                BY SMTT(30)
            <4> QED BY <1>1, <4>1, <4>2
        <3> QED BY <3>1 DEF Inv, Typed, PrepareRun
    <2>2. PICK p \in {"save_prepared", "failing"} : Moves(w, p)
        BY DEF PrepareRun, Goto, Moves
    <2>3. at' \in [Workers -> Places]
        BY <2>2, MovesOK, PlaceNames DEF Inv
    <2> QED BY <2>1, <2>3 DEF Inv, Typed, PrepareRun, Goto, row, input, records, world
<1>4. Place(w)' /\ InRun(w)'
    BY <1>1, <1>2 DEF Worker, Place, InRun, Held, owned, rest
<1>5. AsOwner(w)' /\ AsActive(w)'
    BY <1>1, <1>2 DEF Worker, AsOwner, AsActive, OwnsClaim, Active, Loaded, Exits, Proposed, Settled, Held, owned
<1>6. Tied(w)' /\ ~Late(w)' /\ ~Open(w)' /\ (Active(w)' => Active(w)) /\ at[w] \in Held
    BY <1>1 DEF Tied, Late, Turn, Open, Sending, Active, Loaded, Exits, Held
<1>7. \A v \in Workers \ {w} : Apart(v, w)' /\ Apart(w, v)'
    BY <1>1, <1>6, SMTT(30) DEF Inv, Apart, OwnsClaim, Alone, Late, Open, Turn, Sending, owned
<1> QED BY <1>1, <1>3, <1>4, <1>5, <1>6, <1>7, LocalOK DEF Worker, rest

LEMMA ScheduleRetryOK == ASSUME Inv, NEW w \in Workers, ScheduleRetry(w) PROVE Inv'
<1>1. CASE claimModelRetry(w)
    <2>1. /\ Worker(w) /\ OwnsClaim(w) /\ Active(w) /\ at[w] \in Held \ {"routing"} /\ at'[w] = "returning"
          /\ at[w] \in {"timed_out", "unobserved"}
          /\ run \in Inference /\ checkpoint = "model_budget_reserved"
          /\ checkpoint' = "model_retry_pending" /\ retry' = "claimed"
          /\ UNCHANGED <<run, status, attempts, claim, data, approval, turns, calls, intent, asked, transcript, rest, lease>>
          /\ UNCHANGED <<run_lease, effect, mode, cur, item, seen>>
        BY <1>1 DEF ScheduleRetry, claimModelRetry, modelRetryTx, Leave, Active, Loaded, Exits, Held, Inv, Typed,
                    row, records, world, rest
    <2>2. Alone(w) /\ Same(w)
        BY <1>1, MovesOK, PlaceNames DEF Inv, ScheduleRetry, Leave, Moves, Outcomes, Verdicts, Alone, Same
    <2>3. Typed'
        <3>1. at' \in [Workers -> Places] /\ outcome' \in [Workers -> Outcomes]
            BY <1>1, MovesOK, PlaceNames DEF Inv, ScheduleRetry, Leave, Moves, Outcomes, Verdicts
        <3>2. checkpoint' \in Stages
            BY <2>1 DEF Stages
        <3> QED BY <2>1, <3>1, <3>2 DEF Outcomes, Inv, Typed, rest
    <2>4. Rows'
        BY <2>1 DEF Inv, Rows, Ready, Suspended, Inference, Early, Unstarted, Begun, rest
    <2>5. CallRows'
        BY <2>1 DEF Inv, CallRows, Worker, AsActive, Settled
    <2>6. Place(w)' /\ InRun(w)' /\ AsOwner(w)'
        BY <2>1, <2>2 DEF Worker, Place, InRun, AsOwner, OwnsClaim, Loaded, Same, Held, rest
    <2>7. AsActive(w)' /\ Tied(w)' /\ ~Open(w)' /\ ~Late(w)'
        BY <2>1 DEF AsActive, Active, Exits, Tied, Open, Turn, Sending, Late
    <2>8. turns <= turns' /\ calls <= calls'
        BY <2>1, Counts, SMTT(30) DEF Inv
    <2> QED BY <2>1, <2>2, <2>3, <2>4, <2>5, <2>6, <2>7, <2>8, OwnerOK DEF Worker, Apart, rest
<1>2. CASE ~claimModelRetry(w) /\ at[w] = "timed_out"
    <2>1. "save_stopped" \in Places
        BY PlaceNames
    <2> QED BY <1>2, <2>1, ForwardStep DEF ScheduleRetry, Forward, others, row, input, records
<1>3. CASE ~claimModelRetry(w) /\ at[w] = "unobserved"
    BY <1>3, QuitStep DEF ScheduleRetry, Quits, others, row, input, records, Verdicts
<1> QED BY <1>1, <1>2, <1>3 DEF ScheduleRetry

LEMMA AdmitOK == ASSUME Inv, NEW w \in Workers, Admit(w) PROVE Inv'
<1>1. CASE UNCHANGED retry /\ (Raise(w) \/ Leave(w, "blocked"))
    BY <1>1, QuitStep DEF Admit, Quits, others, row, input, records, Verdicts
<1>2. ASSUME NEW p \in {"save_stopped", "save_reserved"}, UNCHANGED retry, Goto(w, p) PROVE Inv'
    <2>1. p \in Places /\ Forward(at[w], p) /\ cur[w] \in Inference
        BY PlaceNames DEF Admit, Forward, Inv, Worker, Place
    <2> QED BY <1>2, <2>1, ForwardStep DEF Admit, others, row, input, records
<1>3. CASE Retrying(w) /\ MarkModelRetryStarted(w) /\ retry' = "started" /\ Goto(w, "save_reserved")
    <2>1. /\ Worker(w) /\ OwnsClaim(w) /\ Active(w) /\ at[w] \in Held \ {"routing"} /\ at[w] = "admitting"
          /\ retry # "none" /\ retry' = "started" /\ seen[w].retry # "none"
          /\ UNCHANGED <<run, status, attempts, claim, checkpoint, data, approval, turns, calls, intent, asked, transcript, rest, lease>>
          /\ UNCHANGED <<run_lease, effect, mode, cur, item, seen>>
        BY <1>3 DEF Admit, MarkModelRetryStarted, ValidateModelRetry, modelRetryTx, Retrying, Active, Loaded, Exits, Held, Inv,
                    row, records, world, rest
    <2>2. Moves(w, "save_reserved") /\ "save_reserved" \in Places
        BY <1>3, PlaceNames DEF Goto, Moves
    <2>3. Alone(w) /\ Same(w) /\ Typed' /\ at'[w] = "save_reserved"
        BY <2>1, <2>2, MovesOK DEF Inv, Typed, Outcomes, Alone, Same, rest
    <2>4. Rows' /\ CallRows'
        BY <2>1, SMTT(30) DEF Inv, Rows, CallRows, Suspended, NoTwin, rest
    <2>5. Place(w)' /\ InRun(w)' /\ AsOwner(w)'
        BY <2>1, <2>3 DEF Worker, Place, InRun, AsOwner, OwnsClaim, Loaded, Held, Inference, rest
    <2>6. AsActive(w)' /\ Tied(w)' /\ ~Open(w)' /\ ~Late(w)'
        BY <2>1, <2>3 DEF Worker, AsActive, OwnsClaim, Proposed, Settled, Tied, Open, Turn, Sending, Late
    <2>7. turns <= turns' /\ calls <= calls'
        BY <2>1, Counts, SMTT(30) DEF Inv
    <2> QED BY <2>1, <2>3, <2>4, <2>5, <2>6, <2>7, OwnerOK DEF Worker, Apart, rest
<1> QED BY <1>1, <1>2, <1>3 DEF Admit

LEMMA SuspendApprovalOK == ASSUME Inv, NEW w \in Workers, SuspendApproval(w) PROVE Inv'
<1>1. CASE UNCHANGED <<run, approval, checkpoint>> /\ Raise(w)
    BY <1>1, QuitStep DEF SuspendApproval, Quits, others, input, Verdicts
<1>2. CASE Fenced(w) /\ OwnsClaim(w) /\ run = "tool_pending" /\ Leave(w, "waiting_for_user")
    <2>1. /\ Worker(w) /\ OwnsClaim(w) /\ Active(w) /\ at[w] \in Held \ {"routing"} /\ at[w] = "authorizing" /\ lease = w
          /\ run = "tool_pending" /\ run' = "awaiting_approval" /\ checkpoint' = "awaiting_approval"
          /\ ~Approved(w) /\ approval' = [approval EXCEPT ![item[w]] = "pending"]
          /\ UNCHANGED <<status, attempts, claim, data, retry, turns, calls, intent, asked, transcript, rest, lease>>
          /\ UNCHANGED <<run_lease, effect, mode, cur, item, seen>>
        BY <1>2 DEF SuspendApproval, Fenced, Active, Loaded, Exits, Held, Inv, world, rest
    <2>2. Moves(w, "returning") /\ "returning" \in Places
        BY <1>2, PlaceNames DEF Leave, Moves, Outcomes, Verdicts
    <2>3. /\ item[w] = calls /\ calls > 0 /\ asked[calls] = 0
          /\ retry # "none" => NoTwin(calls)
          /\ checkpoint # "awaiting_approval" /\ Settled /\ calls \in Call
        <3>1. calls > 0 /\ calls \in 0..MaxCalls
            BY <2>1 DEF Inv, Typed, Worker, AsActive, Proposed
        <3>2. calls \in Call
            BY <3>1, ExecutionAssumption, SMTT(30) DEF Call
        <3> QED BY <2>1, <3>1, <3>2 DEF Worker, AsActive, Proposed
    <2>4. approval' \in [Call -> {"none", "pending", "approved", "refused"}] /\ approval'[calls] = "pending"
          /\ \A c \in Call \ {calls} : approval'[c] = approval[c]
        BY <2>1, <2>3 DEF Inv, Typed
    <2>5. Alone(w) /\ Same(w) /\ at'[w] = "returning"
        BY <2>1, <2>2, MovesOK DEF Inv, Alone, Same
    <2>6. Typed'
        BY <2>1, <2>2, <2>4, MovesOK, StageNames DEF Inv, Typed, Outcomes, States, rest
    <2>7. Rows'
        BY <2>1, <2>3, <2>4 DEF Inv, Rows, Suspended, NoTwin, Unstarted, Early, Begun, rest
    <2>8. CallRows'
        <3>1. \A c \in Call : approval[c] # "pending"
            BY <2>3 DEF Inv, CallRows
        <3>2. ASSUME NEW c \in Call PROVE asked[c] > 0 \/ approval'[c] # "none" => c <= calls
            <4>1. calls <= calls
                BY Counts, SMTT(30) DEF Inv
            <4> QED BY <2>4, <4>1 DEF Inv, CallRows
        <3>3. ASSUME NEW c \in Call
              PROVE  /\ asked[c] > 0 => approval'[c] \in {"none", "approved"}
                     /\ approval'[c] = "pending" => c = calls
            BY <2>3, <2>4, <3>1, SMTT(30) DEF Inv, CallRows
        <3> QED BY <2>1, <2>3, <3>2, <3>3 DEF Inv, CallRows, Settled
    <2>9. Place(w)' /\ InRun(w)' /\ AsOwner(w)'
        BY <2>1, <2>5 DEF Worker, Place, InRun, AsOwner, OwnsClaim, Loaded, Same, Held, Unstarted, Early, rest
    <2>10. AsActive(w)' /\ Tied(w)' /\ ~Open(w)' /\ ~Late(w)'
        BY <2>5 DEF AsActive, Active, Exits, Tied, Open, Turn, Sending, Late
    <2>11. turns <= turns' /\ calls <= calls'
        BY <2>1, Counts, SMTT(30) DEF Inv
    <2>12. run \notin Unstarted /\ run' \notin Unstarted
        BY <2>1 DEF Unstarted, Early
    <2> QED BY <2>12, <2>1, <2>5, <2>6, <2>7, <2>8, <2>9, <2>10, <2>11, OwnerOK DEF Worker, Apart, rest
<1> QED BY <1>1, <1>2 DEF SuspendApproval

LEMMA FinalMessageOK == ASSUME Inv, NEW w \in Workers, FinalMessage(w) PROVE Inv'
<1>1. CASE UNCHANGED item /\ Goto(w, "failing")
    BY <1>1, QuitStep DEF FinalMessage, Quits, others, row, records
<1>2. CASE item' = [item EXCEPT ![w] = turns] /\ Goto(w, "to_finalizing")
    <2>1. /\ Worker(w) /\ at[w] = "streaming" /\ turns \in Nat
          /\ UNCHANGED <<run, run_lease, owned, rest, lease, effect, mode, cur, seen>>
        BY <1>2, Counts DEF FinalMessage, Inv, row, input, records, world, owned, rest
    <2>2. Moves(w, "to_finalizing") /\ "to_finalizing" \in Places
        BY <1>2, PlaceNames DEF Goto, Moves
    <2>3. item' \in [Workers -> Nat] /\ item'[w] = turns /\ \A v \in Workers \ {w} : item'[v] = item[v]
        BY <1>2, <2>1 DEF Inv, Typed
    <2>4. Alone(w) /\ at'[w] = "to_finalizing"
        BY <2>1, <2>2, <2>3, MovesOK DEF Inv, Alone
    <2>5. Typed'
        BY <2>1, <2>2, <2>3, MovesOK DEF Inv, Typed, Outcomes, rest, owned
    <2>6. turns > 0 /\ turns # 0 /\ Turn(w) /\ Active(w)
        BY <2>1, SMTT(30) DEF Worker, InRun, Turn, Active, Loaded, Exits
    <2>7. Place(w)' /\ InRun(w)' /\ AsOwner(w)'
        <3>1. Place(w)' /\ InRun(w)'
            BY <2>1, <2>3, <2>4, <2>6 DEF Worker, Place, InRun, Held, owned, rest
        <3>2. AsOwner(w)'
            BY <2>1, <2>4 DEF Worker, AsOwner, OwnsClaim, Loaded, Held, owned
        <3> QED BY <3>1, <3>2
    <2>8. AsActive(w)' /\ Tied(w)' /\ ~Open(w)' /\ ~Late(w)'
        BY <2>1, <2>4, <2>6 DEF Worker, AsActive, OwnsClaim, Proposed, Settled, Tied, Open, Turn, Sending, Late, owned
    <2>9. \A v \in Workers \ {w} : Apart(v, w)' /\ Apart(w, v)'
        BY <2>1, <2>4, <2>6, <2>8, SMTT(30) DEF Inv, Apart, OwnsClaim, Alone, Late, Open, Turn, Sending, owned, Held
    <2> QED BY <2>1, <2>4, <2>5, <2>7, <2>8, <2>9, LocalOK DEF Worker, rest
<1> QED BY <1>1, <1>2 DEF FinalMessage

LEMMA ToolCallRequestedOK == ASSUME Inv, NEW w \in Workers, NEW i \in Intents, ToolCallRequested(w, i) PROVE Inv'
<1>1. /\ Worker(w) /\ at[w] = "streaming" /\ Turn(w) /\ Open(w) /\ Active(w) /\ checkpoint = "model_budget_reserved"
      /\ calls' = calls + 1 /\ calls < MaxCalls /\ cur[w] = "model_running"
      /\ intent' = [intent EXCEPT ![calls'] = i] /\ item' = [item EXCEPT ![w] = calls']
      /\ UNCHANGED <<run, status, attempts, claim, checkpoint, data, retry, approval, turns, rest, lease>>
      /\ UNCHANGED <<run_lease, asked, transcript, effect, mode, cur, seen>>
    BY DEF ToolCallRequested, Inv, Worker, Place, Tied, Turn, Open, Active, Loaded, Exits, row, input, records, rest
<1>2. PICK p \in {"to_pending", "save_stopped", "returning"} :
         /\ Moves(w, p)
         /\ p = "to_pending" /\ Retrying(w) => ~Uncertain /\ \A c \in Call : transcript[c] = "known" => intent[c] # i
    <2>1. guardModelRetryProposal(w, i) \in {"to_pending", "save_stopped", "uncertain"}
        BY DEF guardModelRetryProposal
    <2>2. guardModelRetryProposal(w, i) = "to_pending" /\ Retrying(w) =>
             ~Uncertain /\ \A c \in Call : transcript[c] = "known" => intent[c] # i
        BY DEF guardModelRetryProposal
    <2> QED BY <2>1, <2>2 DEF ToolCallRequested, Goto, Leave, Moves, Outcomes, Verdicts
<1>3. calls' \in Call /\ calls' \in 0..MaxCalls /\ calls' > 0 /\ calls <= calls' /\ ~(calls' <= calls)
    <2>1. calls \in Nat /\ MaxCalls \in Nat
        BY Counts, ExecutionAssumption DEF Inv
    <2> QED BY <1>1, <2>1, SMTT(30) DEF Call
<1>4. asked[calls'] = 0 /\ approval[calls'] = "none"
    <2>1. ~(asked[calls'] > 0 \/ approval[calls'] # "none") /\ asked[calls'] \in Nat
        BY <1>3 DEF Inv, Typed, CallRows
    <2> QED BY <2>1, SMTT(30)
<1>5. intent' \in [Call -> Intents \cup {0}] /\ intent'[calls'] = i /\ \A c \in Call \ {calls'} : intent'[c] = intent[c]
    BY <1>1, <1>3 DEF Inv, Typed
<1>6. item' \in [Workers -> Nat] /\ item'[w] = calls' /\ \A v \in Workers \ {w} : item'[v] = item[v]
    <2>1. calls' \in Nat
        BY <1>3, ExecutionAssumption, SMTT(30)
    <2> QED BY <1>1, <2>1 DEF Inv, Typed
<1>7. Alone(w) /\ at'[w] = p
    BY <1>1, <1>2, <1>6, MovesOK, PlaceNames DEF Inv, Alone
<1>8. Typed'
    <2>1. at' \in [Workers -> Places] /\ outcome' \in [Workers -> Outcomes]
        BY <1>2, MovesOK, PlaceNames DEF Inv
    <2> QED BY <1>1, <1>3, <1>5, <1>6, <2>1 DEF Inv, Typed, Outcomes, rest
<1>9. CallRows'
    <2>1. ASSUME NEW c \in Call PROVE c <= calls => c <= calls'
        <3>1. c \in Nat /\ calls \in Nat
            BY Counts, SMTT(30) DEF Inv, Call
        <3> QED BY <1>1, <3>1, SMTT(30)
    <2> QED BY <1>1, <2>1 DEF Inv, CallRows
<1>10. Place(w)' /\ InRun(w)' /\ AsOwner(w)'
    <2>1. Place(w)'
        BY <1>1, <1>7 DEF Worker, Place, Inference
    <2>2. seen[w].approved <= calls'
        <3>1. seen[w].approved <= calls /\ seen[w].approved \in Nat /\ calls \in Nat
            BY <1>1, SeenOK, Counts DEF Inv, Worker, InRun
        <3> QED BY <1>1, <3>1, SMTT(30)
    <2>3. InRun(w)' /\ AsOwner(w)'
        BY <1>1, <1>7, <2>2 DEF Worker, InRun, AsOwner, OwnsClaim, Loaded, Held, rest
    <2> QED BY <2>1, <2>3
<1>11. AsActive(w)'
    <2>1. SUFFICES ASSUME OwnsClaim(w), p # "returning"
                   PROVE  AsActive(w)'
        BY <1>1, <1>7 DEF AsActive, OwnsClaim, Active, Exits
    <2>2. Settled /\ Settled' /\ (retry = "none" <=> seen[w].retry = "none")
        BY <1>1, <2>1 DEF Worker, AsActive, Settled
    <2>3. p = "to_pending" /\ retry # "none" => NoTwin(calls)'
        BY <1>1, <1>2, <1>5, <2>2 DEF Retrying, Settled, NoTwin
    <2>4. ~Approved(w)'
        <3>1. seen[w].approved <= calls /\ seen[w].approved \in Nat /\ calls \in Nat
            BY <1>1, SeenOK, Counts DEF Inv, Worker, InRun
        <3> QED BY <1>1, <1>6, <3>1, SMTT(30) DEF Approved
    <2> QED BY <1>1, <1>3, <1>4, <1>6, <1>7, <2>2, <2>3, <2>4 DEF AsActive, Proposed
<1>12. Tied(w)' /\ ~Open(w)' /\ ~Late(w)'
    BY <1>7 DEF Tied, Open, Turn, Sending, Late
<1> QED BY <1>1, <1>3, <1>7, <1>8, <1>9, <1>10, <1>11, <1>12, OpenOK DEF Worker, rest

LEMMA ExecuteToolCallOK == ASSUME Inv, NEW w \in Workers, ExecuteToolCall(w) PROVE Inv'
<1>1. /\ Worker(w) /\ at[w] = "executing" /\ Sending(w) /\ Open(w) /\ Active(w) /\ cur[w] = "tool_running"
      /\ asked' = [asked EXCEPT ![item[w]] = @ + 1]
      /\ UNCHANGED <<run, status, attempts, claim, checkpoint, data, retry, approval, turns, rest, lease>>
      /\ UNCHANGED <<run_lease, calls, intent, transcript, mode, cur, item, seen>>
    BY DEF ExecuteToolCall, Inv, Worker, Place, Sending, Open, Active, Loaded, Exits, row, input, records, rest
<1>2. PICK p \in {"recording", "returning"} :
         Moves(w, p) /\ (p = "recording" => outcome'[w] \in {"known", "stopped", "effect_unknown"})
    <2>1. ASSUME NEW r \in Replies PROVE r[2] \in {"known", "stopped", "effect_unknown", "lost"}
        BY SMTT(30) DEF Replies
    <2>2. PICK r \in Replies : IF r[2] = "lost" THEN Leave(w, "blocked")
                              ELSE /\ at' = [at EXCEPT ![w] = "recording"]
                                   /\ outcome' = [outcome EXCEPT ![w] = r[2]]
        BY DEF ExecuteToolCall
    <2>3. CASE r[2] = "lost"
        BY <2>2, <2>3 DEF Leave, Moves, Outcomes, Verdicts
    <2>4. CASE r[2] # "lost"
        BY <2>1, <2>2, <2>4 DEF Moves, Outcomes, Inv, Typed
    <2> QED BY <2>3, <2>4
<1>3. /\ item[w] = calls /\ calls > 0 /\ calls \in Call /\ data = calls /\ checkpoint = "tool_dispatching"
      /\ approval[calls] \in {"none", "approved"} /\ asked[calls] = 0
      /\ calls <= calls /\ (retry = "none" <=> seen[w].retry = "none")
    <2>1. calls > 0 /\ calls \in 0..MaxCalls
        BY <1>1 DEF Inv, Typed, Worker, Tied
    <2>2. calls \in Call /\ calls <= calls
        BY <2>1, ExecutionAssumption, SMTT(30) DEF Call
    <2> QED BY <1>1, <2>1, <2>2 DEF Worker, Tied
<1>4. asked' \in [Call -> Nat] /\ asked'[calls] = 1 /\ \A c \in Call \ {calls} : asked'[c] = asked[c]
    <2>1. asked \in [Call -> Nat] /\ asked' = [asked EXCEPT ![calls] = asked[calls] + 1]
        BY <1>1, <1>3 DEF Inv, Typed
    <2>2. asked[calls] + 1 = 1 /\ calls \in Call
        BY <1>3, SMTT(30)
    <2> QED BY <2>1, <2>2, SMTT(30)
<1>5. effect' \in [Call -> {"none", "known", "unknown"}]
    <2>1. PICK e \in {"none", "known", "unknown"} :
             effect' = [effect EXCEPT ![item[w]] = IF e = "none" THEN @ ELSE e]
        <3>1. ASSUME NEW r \in Replies PROVE r[1] \in {"none", "known", "unknown"}
            BY SMTT(30) DEF Replies
        <3> QED BY <3>1 DEF ExecuteToolCall
    <2> QED BY <1>3, <2>1 DEF Inv, Typed
<1>6. Alone(w) /\ at'[w] = p
    BY <1>1, <1>2, MovesOK, PlaceNames DEF Inv, Alone
<1>7. Typed'
    <2>1. at' \in [Workers -> Places] /\ outcome' \in [Workers -> Outcomes]
        BY <1>2, MovesOK, PlaceNames DEF Inv
    <2> QED BY <1>1, <1>4, <1>5, <2>1 DEF Inv, Typed, Outcomes, rest
<1>8. CallRows'
    <2>1. ASSUME NEW c \in Call, c = calls PROVE asked'[c] <= 1 /\ (asked'[c] > 0 \/ approval[c] # "none" => c <= calls)
        BY <1>3, <1>4, <2>1, SMTT(30)
    <2> QED BY <1>1, <1>3, <1>4, <2>1, SMTT(30) DEF Inv, CallRows
<1>9. Place(w)' /\ InRun(w)' /\ AsOwner(w)'
    BY <1>1, <1>2, <1>6, SMTT(30) DEF Worker, Place, InRun, AsOwner, OwnsClaim, Loaded, Held, rest
<1>10. AsActive(w)'
    <2>1. SUFFICES ASSUME OwnsClaim(w), p = "recording"
                   PROVE  AsActive(w)'
        BY <1>1, <1>6 DEF AsActive, OwnsClaim, Active, Exits
    <2>2. Settled
        BY <1>1, <2>1 DEF Worker, AsActive
    <2> QED BY <1>1, <1>3, <1>4, <1>6, <2>1, <2>2 DEF AsActive, Settled, Proposed
<1>11. Tied(w)' /\ ~Late(w)'
    <2>1. asked'[calls] > 0
        BY <1>4, SMTT(30)
    <2> QED BY <1>1, <1>3, <1>6, <2>1 DEF Worker, Tied, Open, Turn, Sending, Late
<1> QED BY <1>1, <1>3, <1>6, <1>7, <1>8, <1>9, <1>10, <1>11, OpenOK DEF Worker, rest

LEMMA AppendToolCallOK == ASSUME Inv, NEW w \in Workers, AppendToolCall(w) PROVE Inv'
<1>1. CASE UNCHANGED transcript /\ (Leave(w, "blocked") \/ Raise(w))
    BY <1>1, QuitStep DEF AppendToolCall, Quits, Verdicts, others, row
<1>2. CASE Goto(w, "save_result") /\ transcript' = [transcript EXCEPT ![item[w]] =
                                    IF outcome[w] = "effect_unknown" THEN "effect_unknown" ELSE "known"]
    <2>1. /\ Worker(w) /\ at[w] = "recording" /\ Sending(w) /\ Open(w) /\ Active(w) /\ cur[w] = "tool_running"
          /\ UNCHANGED <<run, status, attempts, claim, checkpoint, data, retry, approval, turns, rest, lease>>
          /\ UNCHANGED <<run_lease, calls, intent, asked, effect, mode, cur, item, outcome, seen>>
        BY <1>2 DEF AppendToolCall, Goto, Inv, Worker, Place, Sending, Open, Active, Loaded, Exits, row, input, world, rest
    <2>2. Moves(w, "save_result") /\ "save_result" \in Places
        BY <1>2, PlaceNames DEF Goto, Moves
    <2>3. /\ item[w] = calls /\ calls \in Call /\ data = calls /\ checkpoint = "tool_dispatching"
          /\ calls <= calls /\ (retry = "none" <=> seen[w].retry = "none") /\ asked[calls] > 0
        <3>1. calls > 0 /\ calls \in 0..MaxCalls
            BY <2>1 DEF Inv, Typed, Worker, Tied
        <3>2. calls \in Call /\ calls <= calls
            BY <3>1, ExecutionAssumption, SMTT(30) DEF Call
        <3> QED BY <2>1, <3>1, <3>2 DEF Worker, Tied
    <2>4. /\ transcript' \in [Call -> {"none", "known", "effect_unknown"}]
          /\ outcome[w] # "effect_unknown" => transcript'[calls] = "known"
          /\ \A c \in Call \ {calls} : transcript'[c] = transcript[c]
        BY <1>2, <2>3 DEF Inv, Typed
    <2>5. Alone(w) /\ at'[w] = "save_result"
        BY <2>1, <2>2, MovesOK DEF Inv, Alone
    <2>6. Typed'
        BY <2>1, <2>2, <2>4, MovesOK DEF Inv, Typed, rest
    <2>7. CallRows'
        BY <2>1, <2>3, <2>4, SMTT(30) DEF Inv, CallRows
    <2>8. Place(w)' /\ InRun(w)' /\ AsOwner(w)'
        <3>1. Place(w)'
            BY <2>1, <2>5 DEF Worker, Place
        <3>2. InRun(w)'
            BY <2>1, <2>5 DEF Worker, InRun, Held, rest
        <3>3. AsOwner(w)'
            BY <2>1, <2>5 DEF Worker, AsOwner, OwnsClaim, Loaded, Held, rest
        <3> QED BY <3>1, <3>2, <3>3
    <2>9. AsActive(w)'
        <3> SUFFICES ASSUME OwnsClaim(w)' PROVE AsActive(w)'
            BY DEF AsActive
        <3>1. AsActive(w) /\ OwnsClaim(w) /\ Active(w) /\ at[w] = "recording"
            BY <2>1 DEF Worker, OwnsClaim
        <3>2. /\ checkpoint' # "awaiting_approval" /\ checkpoint' # "finalizing" /\ item'[w] = calls /\ item'[w] \in Call /\ data' = calls
              /\ retry' = "none" <=> seen'[w].retry = "none"
            BY <2>1, <2>3
        <3>3. \A c \in Call \ {calls} : asked'[c] > 0 => transcript'[c] = "known"
            BY <2>1, <2>3, <2>4, <3>1 DEF AsActive
        <3>4. outcome'[w] # "effect_unknown" => transcript'[calls] = "known"
            BY <2>1, <2>4
        <3> QED BY <2>5, <3>2, <3>3, <3>4 DEF AsActive, Proposed
    <2>10. Tied(w)' /\ ~Late(w)' /\ ~Open(w)'
        BY <2>5 DEF Tied, Open, Turn, Sending, Late
    <2> QED BY <2>1, <2>3, <2>5, <2>6, <2>7, <2>8, <2>9, <2>10, OpenOK DEF Worker, rest
<1> QED BY <1>1, <1>2 DEF AppendToolCall

\* Where a worker goes after a checkpoint.
Continues(w, p) ==
    \/ at[w] = "save_created" /\ p = (IF cur[w] = "created" THEN "to_queued" ELSE "leasing")
    \/ at[w] = "save_prepared" /\ p = "remembering"
    \/ at[w] = "save_started" /\ p = "admitting"
    \/ at[w] = "save_reserved" /\ p = "calling"
    \/ at[w] = "save_finalizing" /\ p = "saving"
    \/ at[w] = "save_stopped" /\ p = "returning"
    \/ at[w] = "save_dispatching" /\ p \in {"executing", "failing", "returning"}
    \/ at[w] = "save_result" /\ p \in {"failing", "returning"}
    \/ at[w] = "save_result" /\ p \in {"to_resume", "save_stopped"} /\ outcome[w] # "effect_unknown"

LEMMA SavedOK ==
    ASSUME Inv, NEW w \in Workers, at[w] \in DOMAIN Stage, Saved(w)
    PROVE  \E p \in Places : Moves(w, p) /\ Continues(w, p)
<1>1. ASSUME Raise(w) PROVE \E p \in {"failing", "returning"} : Moves(w, p)
    BY <1>1 DEF Raise, Goto, Leave, Moves, Outcomes, Verdicts
<1>2. ASSUME NEW p, Goto(w, p) PROVE Moves(w, p)
    BY <1>2 DEF Goto, Moves
<1>3. ASSUME Leave(w, "blocked") PROVE Moves(w, "returning")
    BY <1>3 DEF Leave, Moves, Outcomes, Verdicts
<1>4. CASE at[w] = "save_result"
    <2>1. outcome[w] \in {"known", "stopped", "effect_unknown"}
        BY <1>4 DEF Inv, Worker, Place
    <2>2. Raise(w) \/ (outcome[w] = "known" /\ Goto(w, "to_resume")) \/ (outcome[w] = "stopped" /\ Goto(w, "save_stopped"))
            \/ Leave(w, "blocked")
        BY <1>4, <2>1 DEF Saved
    <2> QED BY <1>1, <1>2, <1>3, <1>4, <2>2, PlaceNames DEF Continues
<1>5. CASE at[w] = "save_dispatching"
    BY <1>1, <1>2, <1>5, PlaceNames DEF Saved, Continues
<1>6. CASE at[w] = "save_created"
    <2>1. Goto(w, IF cur[w] = "created" THEN "to_queued" ELSE "leasing")
        BY <1>6 DEF Saved
    <2> QED BY <1>2, <1>6, <2>1, PlaceNames, SMTT(30) DEF Continues
<1>7. CASE at[w] = "save_stopped"
    BY <1>3, <1>7, PlaceNames DEF Saved, Continues
<1>8. CASE at[w] \in {"save_prepared", "save_started", "save_reserved", "save_finalizing"}
    <2>1. PICK p \in {"remembering", "admitting", "calling", "saving"} : Goto(w, p) /\ Continues(w, p)
        BY <1>8 DEF Saved, Continues
    <2> QED BY <1>2, <2>1, PlaceNames
<1> QED BY <1>4, <1>5, <1>6, <1>7, <1>8 DEF Stage

LEMMA CheckpointOK == ASSUME Inv, NEW w \in Workers, Checkpoint(w) PROVE Inv'
<1>1. CASE UNCHANGED <<checkpoint, data, turns>> /\ (Raise(w) \/ (\E o \in Verdicts : Leave(w, o) \/ Return(w, o)))
    BY <1>1, QuitStep DEF Checkpoint, Quits, Verdicts, Stage, others, row, input, records, world
<1>2. ASSUME SaveCheckpoint(w), checkpoint' = Stage[at[w]], Saved(w),
             data' = IF at[w] \in {"save_dispatching", "save_result", "save_finalizing"} THEN item[w] ELSE 0,
             turns' = IF at[w] = "save_reserved" THEN turns + 1 ELSE turns
      PROVE  Inv'
    <2>1. /\ Worker(w) /\ OwnsClaim(w) /\ Active(w) /\ (at[w] = "save_created" \/ lease = w)
          /\ UNCHANGED <<run, status, attempts, claim, retry, approval, calls, intent, asked, transcript, rest, lease>>
          /\ UNCHANGED <<run_lease, effect, mode, cur, item, seen>>
        BY <1>2 DEF Checkpoint, SaveCheckpoint, Fenced, Stage, Active, Loaded, Exits, Inv, row, records, rest
    <2>2. PICK p \in Places : Moves(w, p) /\ Continues(w, p)
        BY <1>2, SavedOK DEF Checkpoint
    <2>3. Alone(w) /\ Same(w) /\ at'[w] = p
        BY <2>1, <2>2, MovesOK DEF Inv, Alone, Same
    <2>4. turns' \in Nat /\ data' \in Nat /\ checkpoint' \in Stages /\ turns <= turns' /\ calls <= calls'
          /\ (at[w] = "save_reserved" => turns' > 0) /\ (turns > 0 => turns' > 0)
        <3>1. turns \in Nat /\ calls \in Nat /\ item[w] \in Nat
            BY Counts DEF Inv, Typed
        <3>2. checkpoint' \in Stages
            BY <1>2 DEF Stages, Checkpoint
        <3>3. calls' = calls /\ data' \in {item[w], 0} /\ turns' = IF at[w] = "save_reserved" THEN turns + 1 ELSE turns
            BY <1>2, <2>1
        <3> QED BY <3>1, <3>2, <3>3, SMTT(30)
    <2>5. Typed'
        <3>1. at' \in [Workers -> Places] /\ outcome' \in [Workers -> Outcomes]
            BY <2>2, MovesOK DEF Inv
        <3> QED BY <2>1, <2>4, <3>1 DEF Inv, Typed, Outcomes, rest
    <2>0. /\ at[w] \in {"save_created", "save_prepared", "save_started", "save_reserved", "save_dispatching",
                        "save_result", "save_finalizing", "save_stopped"}
          /\ at[w] = "save_created" => checkpoint' = "run_created"
          /\ at[w] = "save_reserved" => checkpoint' = "model_budget_reserved"
          /\ at[w] = "save_dispatching" => checkpoint' = "tool_dispatching" /\ data' = item[w]
          /\ at[w] = "save_result" => checkpoint' = "tool_result_recorded" /\ data' = item[w]
          /\ at[w] = "save_finalizing" => checkpoint' = "finalizing" /\ data' = item[w]
          /\ at[w] # "save_finalizing" => checkpoint' # "finalizing"
          /\ checkpoint' # "awaiting_approval"
        BY <1>2, SMTT(30) DEF Checkpoint, Stage
    <2>6. /\ checkpoint # "awaiting_approval"
          /\ at[w] = "save_result" => /\ item[w] \in Call
                                      /\ \A c \in Call \ {item[w]} : asked[c] > 0 => transcript[c] = "known"
                                      /\ outcome[w] # "effect_unknown" => transcript[item[w]] = "known"
          /\ at[w] # "save_result" => Settled
        BY <2>0, <2>1 DEF Worker, AsActive
    <2>7. Rows'
        <3>1. CASE at[w] = "save_created"
            <4>1. turns = 0 /\ turns' = turns /\ run # "none" /\ checkpoint' = "run_created"
                BY <1>2, <2>1, <3>1, SMTT(30) DEF Worker, Place, InRun, AsOwner, Stage
            <4> QED BY <2>1, <4>1, SMTT(30) DEF Inv, Rows, Ready, Suspended, Begun, Unstarted, Early, rest
        <3>2. CASE at[w] # "save_created"
            <4>1. run = cur[w] \/ (run = "failed" /\ cur[w] \in Early \cup {"model_running"})
                BY <1>2, <2>1, <3>2 DEF Worker, InRun, Held, Stage, Checkpoint
            <4>2. /\ run \notin {"none", "awaiting_approval", "completed"}
                  /\ run \in Unstarted => turns' = turns
                  /\ checkpoint' \notin Ready => turns' > 0
                  /\ checkpoint' \notin {"accepted", "awaiting_approval", "approval_ready"}
                  /\ checkpoint' = "finalizing" => data' # 0
                BY <1>2, <2>1, <2>4, <3>2, <4>1, SMTT(30) DEF Worker, Place, InRun, Stage, Checkpoint, Ready, Begun, Unstarted, Early, Inference
            <4> QED BY <2>1, <2>4, <4>2 DEF Inv, Rows, Suspended, rest
        <3> QED BY <3>1, <3>2
    <2>8. CallRows'
        BY <2>0, <2>1, <2>6 DEF Inv, CallRows, Settled
    <2>9. Place(w)'
        BY <2>1, <2>2, <2>3 DEF Worker, Place, Same, Continues, Inference, Begun, Unstarted, AsOwner
    <2>10. InRun(w)'
        BY <2>1, <2>2, <2>3, <2>4 DEF Worker, InRun, Same, Continues, Held, rest
    <2>11. AsOwner(w)'
        BY <2>1, <2>2, <2>3 DEF Worker, Place, AsOwner, Same, Continues, Held, OwnsClaim, Loaded
    <2>12. AsActive(w)'
        <3>1. SUFFICES ASSUME Active(w)' PROVE AsActive(w)'
            BY DEF AsActive
        <3>2. Settled'
            BY <2>0, <2>1, <2>2, <2>3, <2>6, <3>1 DEF Continues, Settled, Active, Exits
        <3>3. retry' = "none" <=> seen'[w].retry = "none"
            BY <2>1 DEF Worker, AsActive
        <3>4. at'[w] \notin Proposed \cup {"recording", "save_result"} /\ (checkpoint' = "finalizing" => at'[w] = "saving")
            BY <2>0, <2>2, <2>3 DEF Continues, Proposed
        <3> QED BY <2>0, <3>2, <3>3, <3>4 DEF AsActive
    <2>13. Tied(w)'
        <3>1. retry' = "none" <=> seen'[w].retry = "none"
            BY <2>1 DEF Worker, AsActive
        <3>2. CASE at[w] = "save_dispatching"
            <4>1. /\ item[w] = calls /\ calls > 0 /\ asked[calls] = 0 /\ approval[calls] \in {"none", "approved"}
                  /\ retry # "none" => NoTwin(calls)
                BY <2>1, <3>2 DEF Worker, AsActive, Proposed
            <4>2. calls \in Call
                <5>1. calls \in 0..MaxCalls
                    BY DEF Inv, Typed
                <5> QED BY <4>1, <5>1, ExecutionAssumption, SMTT(30) DEF Call
            <4>3. ~(asked[calls] > 0)
                BY <4>1, SMTT(30)
            <4>4. transcript[calls] = "none"
                BY <4>2, <4>3 DEF Inv, CallRows
            <4> QED BY <4>4, <2>0, <2>1, <2>2, <2>3, <3>1, <3>2, <4>1 DEF Tied, Late, Open, Turn, Sending, Continues, NoTwin
        <3>3. CASE at[w] # "save_dispatching"
            BY <2>0, <2>1, <2>2, <2>3, <3>1, <3>3 DEF Tied, Late, Open, Turn, Sending, Continues
        <3> QED BY <3>2, <3>3
    <2>14. \A v \in Workers \ {w} : Apart(w, v)'
        BY <2>1, <2>3, OwnerAlone DEF Apart, OwnsClaim, Alone, Open, Turn, Sending
    <2>15. /\ at[w] \in Held \ {"routing"} \/ (checkpoint' = "run_created" /\ at'[w] \notin Held)
           /\ at[w] = "saving" \/ (at[w] = "save_finalizing" /\ item[w] = data) =>
                 checkpoint' = "finalizing" /\ data' = data
        BY <2>0, <2>2, <2>3 DEF Continues, Held
    <2> QED BY <2>1, <2>3, <2>4, <2>5, <2>7, <2>8, <2>9, <2>10, <2>11, <2>12, <2>13, <2>14, <2>15, OwnerOK
            DEF Worker, rest
<1> QED BY <1>1, <1>2 DEF Checkpoint, Raise, Verdicts

\* Where a worker goes after a transition from one state to the next.
Transits(w, to, p) ==
    \/ at[w] = "to_queued" /\ cur[w] = "created" /\ to = "queued" /\ p = "leasing"
    \/ at[w] = "to_acquired" /\ cur[w] = "queued" /\ to = "acquired" /\ p = "to_preparing"
    \/ at[w] = "to_preparing" /\ cur[w] = "acquired" /\ to = "preparing" /\ p = "preparing"
    \/ at[w] = "to_model" /\ cur[w] = "preparing" /\ to = "model_running" /\ p = "save_started"
    \/ at[w] = "to_model" /\ cur[w] = "awaiting_model_resume" /\ to = "model_running" /\ p = "streaming"
    \/ at[w] = "to_pending" /\ cur[w] = "model_running" /\ to = "tool_pending" /\ p = "authorizing"
    \/ at[w] = "to_running" /\ cur[w] \in {"tool_pending", "awaiting_approval"} /\ to = "tool_running" /\ p = "save_dispatching"
    \/ at[w] = "to_resume" /\ cur[w] = "tool_running" /\ to = "awaiting_model_resume" /\ p = "admitting"
    \/ at[w] = "to_finalizing" /\ cur[w] = "model_running" /\ to = "finalizing" /\ p = "save_finalizing"

LEMMA TransitsOK ==
    ASSUME Inv, NEW w \in Workers, at[w] \in DOMAIN Target, ValidateRunStateTransition(cur[w], Target[at[w]])
    PROVE  Transits(w, Target[at[w]], Moved(w)) /\ Moved(w) \in Places /\ Target[at[w]] \in States
<1>1. at[w] \in {"to_queued", "to_acquired", "to_preparing", "to_model", "to_pending", "to_running", "to_resume", "to_finalizing"}
    BY DEF Target
<1>2. at[w] = "to_acquired" => cur[w] = "queued"
    BY SMTT(30) DEF ValidateRunStateTransition, allowedTransitions, Target
<1>3. Place(w)
    BY DEF Inv, Worker
<1>4. Transits(w, Target[at[w]], Moved(w))
    BY <1>1, <1>2, <1>3, SMTT(30) DEF Place, Transits, Target, Moved
<1>5. Moved(w) \in Places /\ Target[at[w]] \in States
    BY <1>4, PlaceNames DEF Transits, States, Early, Inference
<1> QED BY <1>4, <1>5

\* Nobody under the lease is at a run that was not acquired.
LEMMA HeldRun ==
    ASSUME Inv, NEW v \in Workers, lease = v, at[v] \in Held
    PROVE  run \notin {"none", "created", "queued"}
<1>1. cur[v] \notin {"none", "created", "queued"}
    BY SMTT(30) DEF Inv, Worker, Place, Held, Inference, Unstarted, Early
<1> QED BY <1>1 DEF Inv, Worker, InRun

LEMMA TransitionOK == ASSUME Inv, NEW w \in Workers, Transition(w) PROVE Inv'
<1>1. CASE UNCHANGED <<row, cur>> /\ Goto(w, "dropping") /\ Target[at[w]] = "queued"
    <2>1. at[w] = "to_queued" /\ Worker(w)
        BY <1>1, SMTT(30) DEF Transition, Target, Inv
    <2>2. UNCHANGED <<run, run_lease, owned, rest, lease, others, messages>>
        BY <1>1 DEF Transition, row, input, records, world, owned, rest, others
    <2>3. Moves(w, "dropping") /\ "dropping" \in Places
        BY <1>1, PlaceNames DEF Goto, Moves
    <2>4. Typed' /\ Alone(w) /\ Same(w) /\ at'[w] = "dropping"
        BY <2>2, <2>3, PlaceTyped DEF Inv, Typed
    <2>5. Place(w)'
        BY <2>1, <2>4 DEF Worker, Place, Same, Begun, Unstarted, Early
    <2>6. InRun(w)' /\ AsOwner(w)'
        BY <2>1, <2>2, <2>4 DEF Worker, InRun, AsOwner, OwnsClaim, Loaded, Same, Held, owned, rest
    <2>7. AsActive(w)' /\ Tied(w)' /\ ~Open(w)' /\ ~Late(w)' /\ ~Active(w)'
        BY <2>1, <2>4 DEF Worker, Place, AsActive, Active, Exits, Tied, Open, Turn, Sending, Late, Same
    <2>8. \A v \in Workers \ {w} : Apart(v, w)' /\ Apart(w, v)'
        BY <2>4, <2>7 DEF Apart, Held
    <2> QED BY <2>2, <2>4, <2>5, <2>6, <2>7, <2>8, LocalOK DEF Worker, rest
<1>2. CASE UNCHANGED <<row, cur>> /\ (Raise(w) \/ Goto(w, "failing"))
    BY <1>2, QuitStep DEF Transition, Quits, Target, others, row, records
<1>3. ASSUME ValidateRunStateTransition(cur[w], Target[at[w]]), UpdateRun(w, Target[at[w]]),
             run' = Target[at[w]], run_lease' = (Target[at[w]] # "queued"),
             cur' = [cur EXCEPT ![w] = Target[at[w]]], Goto(w, Moved(w))
      PROVE  Inv'
    <2> DEFINE p == Moved(w)
               to == Target[at[w]]
    <2>1. Transits(w, to, p) /\ p \in Places /\ to \in States /\ Moves(w, p)
        BY <1>3, TransitsOK DEF Transition, Goto, Moves
    <2>2. /\ Worker(w) /\ run = cur[w] /\ run' = to /\ (to = "queued" \/ lease = w)
          /\ UNCHANGED <<owned, rest, lease, effect, mode, item, seen>>
        BY <1>3 DEF Transition, UpdateRun, Fenced, Inv, input, records, world, owned, rest
    <2>3. cur' \in [Workers -> States \cup {"none"}] /\ cur'[w] = to /\ \A v \in Workers \ {w} : cur'[v] = cur[v]
        BY <1>3, <2>1 DEF Inv, Typed
    <2>4. run_lease' \in BOOLEAN
        BY <1>3
    <2> HIDE DEF p, to
    <2>5. Alone(w) /\ at'[w] = p
        BY <2>1, <2>2, <2>3, MovesOK DEF Inv, Alone
    <2>6. Typed'
        <3>1. at' \in [Workers -> Places] /\ outcome' \in [Workers -> Outcomes]
            BY <2>1, MovesOK DEF Inv
        <3> QED BY <2>1, <2>2, <2>3, <2>4, <3>1 DEF Inv, Typed, Outcomes, rest, owned
    <2>7. run' # "none" /\ (run \notin Unstarted => run' \notin Unstarted)
        BY <2>1, <2>2 DEF Transits, Unstarted, Early
    <2>8. ASSUME NEW v \in Workers \ {w}, lease = v, at[v] \in Held PROVE run' = run
        BY <2>1, <2>2, <2>8, HeldRun DEF Transits
    <2>9. Rows'
        <3>1. /\ run' \notin Begun => turns > 0
              /\ run' \in Unstarted => run \in Unstarted
              /\ run \notin {"none", "completed"} /\ run' \notin {"none", "awaiting_approval", "completed"}
              /\ run' \notin Unstarted \cup {"failed", "cancelled"} => messages = 1
            BY <2>1, <2>2 DEF Inv, Rows, Worker, InRun, Transits, Begun, Unstarted, Early
        <3> QED BY <2>2, <3>1 DEF Inv, Rows, Suspended, NoTwin, owned, rest
    <2>10. Place(w)'
        BY <2>1, <2>2, <2>3, <2>5 DEF Worker, Place, Transits, Inference, Begun, Unstarted, Early
    <2>11. InRun(w)'
        BY <2>1, <2>2, <2>3, <2>5, <2>7 DEF Worker, InRun, Transits, Begun, Unstarted, Early, Held, owned, rest
    <2>12. AsOwner(w)'
        BY <2>1, <2>2, <2>3, <2>5 DEF Worker, Place, AsOwner, Transits, OwnsClaim, Loaded, owned
    <2>13. AsActive(w)'
        BY <2>1, <2>2, <2>3, <2>5 DEF Worker, AsActive, Transits, OwnsClaim, Active, Loaded, Exits, Settled, Proposed, Approved, NoTwin, owned
    <2>14. Tied(w)'
        BY <2>1, <2>2, <2>3, <2>5 DEF Worker, Tied, Transits, Late, Open, Turn, Sending, owned
    <2>15. /\ Active(w) /\ (Open(w)' => Open(w)) /\ ~Late(w)'
           /\ at[w] \in Held \ {"routing"} \/ run \in Unstarted
        BY <2>1, <2>2, <2>3, <2>5 DEF Transits, Active, Loaded, Exits, Open, Turn, Sending, Late, Held, Unstarted, Early
    <2>16. ASSUME NEW v \in Workers \ {w} PROVE Apart(v, w)' /\ Apart(w, v)'
        <3>1. /\ Apart(v, w) /\ Apart(w, v) /\ (Open(v)' <=> Open(v)) /\ (Late(v)' <=> Late(v))
              /\ (OwnsClaim(v) /\ Active(v))' => OwnsClaim(v) /\ Active(v)
              /\ OwnsClaim(w)' => OwnsClaim(w)
            BY <2>2, <2>5 DEF Inv, Open, Turn, Sending, Late, OwnsClaim, Active, Loaded, Alone, owned
        <3>2. Late(v) => run \notin Unstarted
            BY DEF Inv, Worker, InRun, Late, Unstarted, Early
        <3> QED BY <2>15, <3>1, <3>2 DEF Apart
    <2> QED BY <2>2, <2>5, <2>6, <2>7, <2>8, <2>9, <2>10, <2>11, <2>12, <2>13, <2>14, <2>16, RunOK DEF Worker, rest
<1> QED BY <1>1, <1>2, <1>3 DEF Transition

\* A step to the end of the execution, whatever it did to the run.
LEMMA ReturningOK ==
    ASSUME Inv, NEW w \in Workers, at'[w] = "returning", Alone(w), Same(w), UNCHANGED <<owned, lease, messages>>,
           at[w] \notin {"idle", "claimed", "returned"},
           run' # "none", run \notin Unstarted => run' \notin Unstarted
    PROVE  Worker(w)' /\ \A v \in Workers \ {w} : Apart(v, w)' /\ Apart(w, v)'
<1>1. Worker(w)
    BY DEF Inv
<1>2. Place(w)' /\ InRun(w)'
    BY <1>1 DEF Worker, Place, InRun, Same, Held, owned
<1>3. AsOwner(w)' /\ AsActive(w)' /\ Tied(w)'
    BY <1>1 DEF Worker, AsOwner, AsActive, Tied, OwnsClaim, Loaded, Active, Exits, Held, Late, Turn, Open, Sending, Same, owned
<1>4. \A v \in Workers \ {w} : Apart(v, w)' /\ Apart(w, v)'
    BY DEF Apart, Late, Turn, Open, Sending, Active, Exits, Held
<1> QED BY <1>2, <1>3, <1>4 DEF Worker

LEMMA FailRunOK == ASSUME Inv, NEW w \in Workers, FailRun(w) PROVE Inv'
<1>1. CASE UNCHANGED row
    BY <1>1, QuitStep DEF FailRun, Quits, Verdicts, others, row, records
<1>2. ASSUME ValidateRunStateTransition(cur[w], "failed"), run = cur[w], at[w] = "dropping" \/ Fenced(w),
             run' = "failed", run_lease' = (at[w] = "failing")
      PROVE  Inv'
    <2>1. Moves(w, "returning") /\ "returning" \in Places
        BY PlaceNames DEF FailRun, Leave, Moves, Outcomes, Verdicts
    <2>2. UNCHANGED <<owned, rest, lease, others, messages>> /\ at[w] \in {"failing", "dropping"}
        BY DEF FailRun, input, records, world, owned, rest, others
    <2>3. Typed' /\ Alone(w) /\ Same(w) /\ at'[w] = "returning"
        <3>1. run' \in States \cup {"none"} /\ run_lease' \in BOOLEAN
            BY <1>2 DEF States, RunEnded
        <3> QED BY <2>1, <2>2, <3>1, PlaceTyped DEF Inv, Typed
    <2>4. run \in States \ RunEnded
        BY <1>2 DEF ValidateRunStateTransition, allowedTransitions, States, Early, Inference, RunEnded
    <2>5. Rows'
        BY <1>2, <2>2, <2>4 DEF Inv, Rows, Suspended, NoTwin, RunEnded, Begun, Unstarted, Early, owned, rest
    <2>6. at[w] = "dropping" => run \in Early \cup {"model_running"}
        BY <1>2, <2>4 DEF Inv, Worker, Place, Begun, Unstarted, RunEnded
    <2>7. run' # "none" /\ run' \notin Unstarted
        BY <1>2 DEF Unstarted, Early
    <2>8. Worker(w)' /\ \A v \in Workers \ {w} : Apart(v, w)' /\ Apart(w, v)'
        BY <2>2, <2>3, <2>7, ReturningOK
    <2> QED BY <1>2, <2>2, <2>3, <2>5, <2>6, <2>7, <2>8, RunOK DEF Fenced, rest
<1> QED BY <1>1, <1>2 DEF FailRun

LEMMA SaveOK == ASSUME Inv, NEW w \in Workers, Save(w) PROVE Inv'
<1>1. CASE UNCHANGED <<run, result>> /\ (Leave(w, "retry_pending") \/ Leave(w, "error"))
    BY <1>1, QuitStep DEF Save, Quits, Verdicts, others
<1>2. CASE /\ Fenced(w) /\ run = "finalizing" /\ run' = "completed" /\ result' = item[w]
           /\ \E o \in {"completed", "retry_pending"} : Leave(w, o)
    <2>1. Moves(w, "returning") /\ "returning" \in Places
        BY <1>2, PlaceNames DEF Leave, Moves, Outcomes, Verdicts
    <2>2. /\ UNCHANGED <<owned, messages, faults, lease, run_lease, effect, mode, cur, item, seen>>
          /\ at[w] = "saving"
        BY DEF Save, input, world, owned
    <2>3. Alone(w) /\ Same(w) /\ at'[w] = "returning"
        BY <2>1, <2>2, MovesOK DEF Inv, Alone, Same
    <2>4. Typed'
        <3>1. at' \in [Workers -> Places] /\ outcome' \in [Workers -> Outcomes]
            BY <2>1, MovesOK DEF Inv
        <3>2. item[w] \in Nat
            BY DEF Inv, Typed
        <3> QED BY <1>2, <2>2, <3>1, <3>2 DEF Inv, Typed, Outcomes, owned, States, RunEnded
    <2>5. checkpoint = "finalizing" /\ data = item[w] /\ data # 0 /\ turns > 0 /\ messages = 1
        BY <1>2, <2>2 DEF Inv, Worker, Tied, Rows, Begun, Unstarted, Early
    <2>6. Rows'
        BY <1>2, <2>2, <2>5 DEF Inv, Rows, Suspended, NoTwin, Unstarted, Early, owned
    <2>7. run' # "none" /\ run' \notin Unstarted
        BY <1>2 DEF Unstarted, Early
    <2>8. Worker(w)' /\ \A v \in Workers \ {w} : Apart(v, w)' /\ Apart(w, v)'
        BY <2>2, <2>3, <2>7, ReturningOK
    <2> QED BY <1>2, <2>2, <2>3, <2>4, <2>6, <2>7, <2>8, RunOK DEF Fenced
<1> QED BY <1>1, <1>2 DEF Save

LEMMA CreateRunOK == ASSUME Inv, NEW w \in Workers, CreateRun(w) PROVE Inv'
<1>1. Moves(w, "save_created") /\ "save_created" \in Places
    BY PlaceNames DEF CreateRun, Goto, Moves
<1>2. /\ UNCHANGED <<owned, rest, lease, run_lease, effect, mode, item, seen>>
      /\ Worker(w) /\ at[w] = "creating" /\ mode[w] = "execute" /\ run' = IF run = "none" THEN "created" ELSE run
    BY DEF CreateRun, Inv, Worker, Place, input, records, world, owned, rest
<1>3. /\ cur' \in [Workers -> States \cup {"none"}] /\ cur'[w] = run' /\ \A v \in Workers \ {w} : cur'[v] = cur[v]
      /\ run' \in States
    BY DEF CreateRun, Inv, Typed, States, Early
<1>4. Alone(w) /\ at'[w] = "save_created"
    BY <1>1, <1>2, <1>3, MovesOK DEF Inv, Alone
<1>5. Typed'
    <2>1. at' \in [Workers -> Places] /\ outcome' \in [Workers -> Outcomes]
        BY <1>1, MovesOK DEF Inv
    <2> QED BY <1>2, <1>3, <2>1 DEF Inv, Typed, Outcomes, owned, rest
<1>6. run' # "none" /\ (run' \in Unstarted <=> run \in Unstarted) /\ (run' \notin Begun <=> run \notin Begun)
    BY <1>2 DEF Unstarted, Early, Begun
<1>7. Rows'
    <2>1. CASE run = "none"
        BY <1>2, <1>6, <2>1 DEF Inv, Rows, Suspended, NoTwin, Unstarted, owned, rest
    <2>2. CASE run # "none"
        BY <1>2, <2>2 DEF Inv, Rows, Suspended, NoTwin, owned, rest
    <2> QED BY <2>1, <2>2
<1>8. ASSUME NEW v \in Workers \ {w}, lease = v, at[v] \in Held PROVE run' = run
    BY <1>2, <1>8, HeldRun
<1>9. Place(w)' /\ InRun(w)'
    <2>1. Place(w)'
        BY <1>2, <1>3, <1>4, <1>6 DEF Worker, Place
    <2>2. run' \notin Begun => turns > 0
        BY <1>6 DEF Inv, Rows
    <2> QED BY <1>2, <1>3, <1>4, <1>6, <2>1, <2>2 DEF Worker, InRun, Held, owned
<1>10. AsOwner(w)'
    <2>1. turns = 0 => run' \in Begun
        BY <1>6, SMTT(30) DEF Inv, Rows
    <2> QED BY <1>2, <1>3, <1>4, <2>1 DEF Worker, AsOwner, OwnsClaim, Loaded, Held, owned
<1>11. AsActive(w)' /\ Active(w)
    BY <1>2, <1>4 DEF Worker, AsActive, OwnsClaim, Active, Loaded, Exits, Settled, Proposed, owned
<1>12. Tied(w)' /\ ~Open(w)' /\ ~Late(w)'
    BY <1>4 DEF Tied, Open, Turn, Sending, Late
<1>13. \A v \in Workers \ {w} : Apart(v, w)' /\ Apart(w, v)'
    BY <1>2, <1>4, <1>11, <1>12, SMTT(30) DEF Inv, Apart, OwnsClaim, Alone, Late, Open, Turn, Sending, owned, Held
<1> QED BY <1>2, <1>4, <1>5, <1>6, <1>7, <1>8, <1>9, <1>10, <1>11, <1>12, <1>13, RunOK DEF Worker, rest

LEMMA RecoverPreparationOK == ASSUME Inv, NEW w \in Workers, RecoverPreparation(w) PROVE Inv'
<1>1. CASE UNCHANGED <<row, cur>> /\ Leave(w, "error")
    BY <1>1, QuitStep DEF RecoverPreparation, Quits, Verdicts, others, row, records
<1>2. CASE /\ Fenced(w) /\ run \in {"acquired", "preparing"} /\ run' = "queued" /\ run_lease' = TRUE
           /\ cur' = [cur EXCEPT ![w] = "queued"] /\ Goto(w, "to_acquired")
    <2>1. Moves(w, "to_acquired") /\ "to_acquired" \in Places
        BY <1>2, PlaceNames DEF Goto, Moves
    <2>2. /\ UNCHANGED <<owned, rest, lease, effect, mode, item, seen>> /\ lease = w
          /\ Worker(w) /\ at[w] = "recovering" /\ run \in Unstarted /\ run' \in Unstarted /\ turns = 0
        BY <1>2 DEF RecoverPreparation, Fenced, Inv, Rows, Unstarted, Early, input, records, world, owned, rest
    <2>3. cur' \in [Workers -> States \cup {"none"}] /\ cur'[w] = "queued" /\ \A v \in Workers \ {w} : cur'[v] = cur[v]
        BY <1>2 DEF Inv, Typed, States, Early
    <2>4. Alone(w) /\ at'[w] = "to_acquired"
        BY <2>1, <2>2, <2>3, MovesOK DEF Inv, Alone
    <2>5. Typed'
        <3>1. at' \in [Workers -> Places] /\ outcome' \in [Workers -> Outcomes]
            BY <2>1, MovesOK DEF Inv
        <3> QED BY <1>2, <2>2, <2>3, <3>1 DEF Inv, Typed, Outcomes, owned, rest, States, Early
    <2>6. Rows'
        BY <1>2, <2>2 DEF Inv, Rows, Suspended, NoTwin, Begun, owned, rest
    <2>7. Place(w)' /\ InRun(w)' /\ AsOwner(w)'
        BY <1>2, <2>2, <2>3, <2>4 DEF Worker, Place, InRun, AsOwner, OwnsClaim, Loaded, Held, Unstarted, Begun, Early, owned, rest
    <2>8. AsActive(w)' /\ Active(w)
        BY <2>2, <2>4 DEF Worker, AsActive, OwnsClaim, Active, Loaded, Exits, Settled, Proposed, owned
    <2>9. Tied(w)' /\ ~Open(w)' /\ ~Late(w)'
        BY <2>4 DEF Tied, Open, Turn, Sending, Late
    <2>10. \A v \in Workers \ {w} : Apart(v, w)' /\ Apart(w, v)'
        BY <2>2, <2>4, <2>8, <2>9, SMTT(30) DEF Inv, Apart, OwnsClaim, Alone, Late, Open, Turn, Sending, owned, Held
    <2> QED BY <1>2, <2>2, <2>4, <2>5, <2>6, <2>7, <2>8, <2>9, <2>10, RunOK DEF Worker, rest
<1> QED BY <1>1, <1>2 DEF RecoverPreparation

LEMMA ProcessOK == ASSUME Inv, NEW w \in Workers, Process(w) PROVE Inv'
<1>1. CASE UNCHANGED mode /\ (\E o \in Verdicts : Return(w, o) /\ (seen[w].tries > MaxAttempts => o = "retry_exhausted"))
    <2>1. PICK o \in Verdicts : Return(w, o) /\ (seen[w].tries > MaxAttempts => o = "retry_exhausted")
        BY <1>1
    <2>2. Moves(w, "returned") /\ "returned" \in Places
        BY <2>1, PlaceNames DEF Return, Moves, Outcomes
    <2>3. UNCHANGED <<run, run_lease, owned, rest, lease, others, messages>> /\ at[w] = "claimed"
        BY <1>1 DEF Process, row, input, records, world, owned, rest, others
    <2>4. Typed' /\ Alone(w) /\ Same(w) /\ at'[w] = "returned" /\ outcome'[w] = o
        <3>1. outcome'[w] = o
            BY <2>1 DEF Return, Inv, Typed
        <3> QED BY <2>2, <2>3, <3>1, PlaceTyped DEF Inv, Typed
    <2> QED BY <2>1, <2>3, <2>4, QuitOK DEF Same
<1>2. ASSUME NEW m \in {"execute", "resume"}, NEW p \in {"creating", "loading"},
             (m = "execute" /\ p = "creating" /\ (~seen[w].linked \/ run \in Early))
               \/ (m = "resume" /\ p = "loading" /\ seen[w].linked /\ run \notin Early),
             ~(seen[w].tries > MaxAttempts), mode' = [mode EXCEPT ![w] = m], Goto(w, p)
      PROVE  Inv'
    <2>1. Moves(w, p) /\ p \in Places
        BY <1>2, PlaceNames DEF Goto, Moves
    <2>2. /\ UNCHANGED <<run, run_lease, owned, rest, lease, effect, cur, item, seen>> /\ at[w] = "claimed" /\ Worker(w)
        BY DEF Process, Inv, row, input, records, world, owned, rest
    <2>3. mode' \in [Workers -> {"execute", "resume"}] /\ mode'[w] = m /\ \A v \in Workers \ {w} : mode'[v] = mode[v]
        BY <1>2 DEF Inv, Typed
    <2>4. Alone(w) /\ at'[w] = p
        BY <2>1, <2>2, <2>3, MovesOK DEF Inv, Alone
    <2>5. Typed'
        <3>1. at' \in [Workers -> Places] /\ outcome' \in [Workers -> Outcomes]
            BY <2>1, MovesOK DEF Inv
        <3> QED BY <2>2, <2>3, <3>1 DEF Inv, Typed, Outcomes, owned, rest
    <2>6. Place(w)'
        BY <1>2, <2>2, <2>3, <2>4 DEF Worker, Place
    <2>7. InRun(w)'
        BY <1>2, <2>2, <2>3, <2>4 DEF Worker, Place, InRun, Held, Unstarted, owned, rest
    <2>8. OwnsClaim(w) /\ p = "creating" => turns = 0
        BY <1>2, <2>2 DEF Inv, Rows, Worker, AsOwner, Unstarted
    <2>9. turns = 0 => checkpoint \in Ready /\ retry = "none" /\ Settled
        <3>1. turns = 0 => ~(turns > 0) /\ ~(calls > 0)
            BY SMTT(30) DEF Inv, Rows
        <3>2. ASSUME turns = 0, NEW c \in Call PROVE ~(asked[c] > 0)
            <4>1. c > 0 /\ c \in Nat /\ calls \in Nat
                BY Counts, SMTT(30) DEF Inv, Call
            <4> QED BY <3>1, <3>2, <4>1, SMTT(30) DEF Inv, CallRows
        <3> QED BY <3>1, <3>2 DEF Inv, Rows, Settled
    <2>10. AsOwner(w)'
        BY <1>2, <2>2, <2>4, <2>8 DEF Worker, AsOwner, OwnsClaim, Loaded, Held, owned
    <2>11. AsActive(w)'
        BY <1>2, <2>2, <2>4, <2>8, <2>9 DEF Worker, Place, AsActive, OwnsClaim, Active, Settled, Proposed, Ready, owned
    <2>12. Tied(w)' /\ ~Open(w)' /\ ~Late(w)' /\ at'[w] \notin Held
        BY <2>4 DEF Tied, Open, Turn, Sending, Late, Held
    <2>13. ASSUME NEW v \in Workers \ {w} PROVE Apart(v, w)' /\ Apart(w, v)'
        <3>1. Open(v) => checkpoint \notin Ready
            BY DEF Inv, Worker, Tied, Open, Ready
        <3>2. (Open(v)' <=> Open(v)) /\ (OwnsClaim(w)' <=> OwnsClaim(w)) /\ (Active(w)' => p = "creating")
            BY <2>2, <2>4 DEF Open, Turn, Sending, OwnsClaim, Alone, Active, owned
        <3> QED BY <2>8, <2>9, <2>12, <3>1, <3>2 DEF Apart
    <2> QED BY <2>2, <2>4, <2>5, <2>6, <2>7, <2>10, <2>11, <2>12, <2>13, LocalOK DEF Worker, rest
<1>3. CASE seen[w].tries > MaxAttempts
    BY <1>1, <1>3 DEF Process, Verdicts
<1>4. CASE ~(seen[w].tries > MaxAttempts)
    BY <1>1, <1>2, <1>4 DEF Process, Verdicts
<1> QED BY <1>3, <1>4

LEMMA AcquireLeaseOK == ASSUME Inv, NEW w \in Workers, AcquireLease(w) PROVE Inv'
<1>1. CASE UNCHANGED <<lease, run_lease>> /\ (\E o \in Verdicts : Return(w, o))
    BY <1>1, QuitStep DEF AcquireLease, Quits, others, records
<1>2. ASSUME NEW p \in {"refreshing", "recovering", "to_acquired", "dropping"}, Goto(w, p),
             p = "refreshing" <=> mode[w] = "resume", run_lease' \in BOOLEAN,
             lease' = w \/ (lease' = lease /\ p = "dropping")
      PROVE  Inv'
    <2>1. Moves(w, p) /\ p \in Places
        BY <1>2, PlaceNames DEF Goto, Moves
    <2>2. UNCHANGED <<run, owned, rest, others, messages>> /\ at[w] = "leasing" /\ Worker(w)
        BY <1>2 DEF AcquireLease, Inv, input, records, world, owned, rest, others
    <2>0. /\ mode[w] \in {"execute", "resume"} /\ lease' \in Workers \cup {Nobody, Orphan}
          /\ run' \in States \cup {"none"} /\ messages' \in Nat
        BY <1>2, <2>2 DEF Inv, Typed
    <2>3. Typed' /\ Alone(w) /\ Same(w) /\ at'[w] = p
        BY <1>2, <2>0, <2>1, <2>2, PlaceTyped DEF Inv
    <2>4. Place(w)'
        BY <1>2, <2>0, <2>2, <2>3 DEF Worker, Place, Same
    <2>5. InRun(w)' /\ AsOwner(w)'
        <3>1. at'[w] \notin Held
            BY <2>3 DEF Held
        <3>2. InRun(w)'
            BY <2>2, <2>3, <3>1 DEF Worker, InRun, Same, Held, owned, rest
        <3>3. AsOwner(w)'
            BY <1>2, <2>2, <2>3, <3>1 DEF Worker, AsOwner, OwnsClaim, Loaded, Suspended, Same, owned
        <3> QED BY <3>2, <3>3
    <2>6. (Active(w)' => Active(w)) /\ (Late(w)' => Late(w)) /\ ~Open(w)' /\ at'[w] \notin Held
        BY <1>2, <2>2, <2>3 DEF Inv, Typed, Active, Loaded, Exits, Late, Open, Turn, Sending, Same, Held
    <2>7. AsActive(w)' /\ Tied(w)'
        BY <2>2, <2>3, <2>6 DEF Worker, AsActive, Tied, OwnsClaim, Settled, Proposed, Same, Sending, Open, owned
    <2>8. \A v \in Workers \ {w} : Apart(v, w)' /\ Apart(w, v)'
        BY <2>2, <2>3, <2>6 DEF Inv, Apart, OwnsClaim, Alone, Late, Open, Turn, Sending, owned
    <2> QED BY <1>2, <2>2, <2>3, <2>4, <2>5, <2>7, <2>8, LocalOK DEF Worker, rest
<1>3. CASE lease # Nobody
    BY <1>1, <1>3 DEF AcquireLease, Verdicts
<1>4. CASE lease' = w /\ run_lease' = FALSE
           /\ Goto(w, CASE mode[w] = "resume" -> "refreshing"
                        [] mode[w] = "execute" /\ cur[w] \in {"acquired", "preparing"} -> "recovering"
                        [] mode[w] = "execute" /\ cur[w] \notin {"acquired", "preparing"} -> "to_acquired")
    <2>1. PICK p \in {"refreshing", "recovering", "to_acquired"} : Goto(w, p) /\ (p = "refreshing" <=> mode[w] = "resume")
        <3>1. mode[w] \in {"execute", "resume"}
            BY DEF Inv, Typed
        <3> QED BY <1>4, <3>1
    <2>2. run_lease' \in BOOLEAN /\ lease' = w
        BY <1>4
    <2> QED BY <1>2, <2>1, <2>2
<1>5. CASE UNCHANGED <<lease, run_lease>> /\ IF mode[w] = "resume" THEN Return(w, "error") ELSE Goto(w, "dropping")
    <2>1. run_lease' \in BOOLEAN
        BY <1>5 DEF Inv, Typed
    <2> QED BY <1>1, <1>2, <1>5, <2>1 DEF Verdicts
<1> QED BY <1>3, <1>4, <1>5 DEF AcquireLease

LEMMA GetRunOK == ASSUME Inv, NEW w \in Workers, GetRun(w) PROVE Inv'
<1>1. Moves(w, "reading") /\ "reading" \in Places
    BY PlaceNames DEF GetRun, Goto, Moves
<1>2. UNCHANGED <<run, run_lease, owned, rest, lease, effect, mode, item, seen>> /\ at[w] = "loading" /\ Worker(w)
    BY DEF GetRun, Inv, row, input, records, world, owned, rest
<1>3. cur' \in [Workers -> States \cup {"none"}] /\ cur'[w] = run /\ \A v \in Workers \ {w} : cur'[v] = cur[v]
    BY DEF GetRun, Inv, Typed
<1>4. Alone(w) /\ at'[w] = "reading"
    BY <1>1, <1>2, <1>3, MovesOK DEF Inv, Alone
<1>5. Typed'
    <2>1. at' \in [Workers -> Places] /\ outcome' \in [Workers -> Outcomes]
        BY <1>1, MovesOK DEF Inv
    <2> QED BY <1>2, <1>3, <2>1 DEF Inv, Typed, Outcomes, owned, rest
<1>6. Place(w)'
    BY <1>2, <1>4 DEF Worker, Place
<1>7. InRun(w)' /\ AsOwner(w)'
    BY <1>2, <1>3, <1>4 DEF Inv, Rows, Worker, Place, InRun, AsOwner, OwnsClaim, Loaded, Suspended, Held, owned
<1>8. AsActive(w)' /\ Tied(w)' /\ ~Open(w)' /\ ~Late(w)' /\ ~Active(w)' /\ at'[w] \notin Held
    BY <1>4 DEF AsActive, Active, Tied, Open, Turn, Sending, Late, Held
<1>9. \A v \in Workers \ {w} : Apart(v, w)' /\ Apart(w, v)'
    BY <1>8 DEF Apart
<1> QED BY <1>2, <1>4, <1>5, <1>6, <1>7, <1>8, <1>9, LocalOK DEF Worker, rest

LEMMA LoadCheckpointOK == ASSUME Inv, NEW w \in Workers, LoadCheckpoint(w) PROVE Inv'
<1> DEFINE suspended == {c \in Call : approval[c] # "none"}
           latest == {c \in suspended : \A d \in suspended : d <= c}
<1>1. PICK c \in IF cur[w] = "awaiting_approval" THEN latest ELSE {0} :
         /\ seen' = [seen EXCEPT ![w].stage = checkpoint, ![w].data = data, ![w].retry = retry, ![w].approved = c]
         /\ CASE c # 0 /\ approval[c] = "pending" -> Return(w, "waiting_for_user")
              [] c # 0 /\ approval[c] = "refused" -> Return(w, "blocked")
              [] OTHER -> Goto(w, "leasing")
    BY DEF LoadCheckpoint
<1>2. PICK p \in {"leasing", "returned"} : Moves(w, p)
    BY <1>1 DEF Return, Goto, Moves, Outcomes, Verdicts
<1>3. UNCHANGED <<run, run_lease, owned, rest, lease, effect, mode, cur, item>> /\ at[w] = "reading" /\ Worker(w)
    BY DEF LoadCheckpoint, Inv, row, input, records, world, owned, rest
<1>4. /\ c \in 0..MaxCalls /\ c <= calls
      /\ c # 0 => cur[w] = "awaiting_approval" /\ c \in Call /\ \A d \in Call : approval[d] # "none" => d <= c
    <2>1. CASE cur[w] = "awaiting_approval"
        <3>1. c \in Call /\ approval[c] # "none" /\ \A d \in Call : approval[d] # "none" => d <= c
            BY <1>1, <2>1
        <3>2. c <= calls
            BY <3>1 DEF Inv, CallRows
        <3>3. c \in 0..MaxCalls
            BY <3>1, ExecutionAssumption, SMTT(30) DEF Call
        <3> QED BY <2>1, <3>1, <3>2, <3>3
    <2>2. CASE cur[w] # "awaiting_approval"
        <3>1. c = 0
            BY <1>1, <2>2
        <3> QED BY <3>1, Counts, ExecutionAssumption, SMTT(30) DEF Inv
    <2> QED BY <2>1, <2>2
<1> HIDE DEF suspended, latest
<1>5. OwnsClaim(w) /\ c # 0 => Suspended /\ c = calls
    <2>1. ASSUME OwnsClaim(w), c # 0 PROVE Suspended /\ c = calls
        <3>1. Suspended
            BY <1>3, <1>4, <2>1 DEF Worker, AsOwner
        <3>2. calls > 0 /\ approval[calls] # "none" /\ calls \in 0..MaxCalls
            BY <3>1 DEF Inv, Typed, Rows
        <3>3. calls \in Call
            BY <3>2, ExecutionAssumption, SMTT(30) DEF Call
        <3>4. calls <= c /\ c <= calls /\ c \in Nat /\ calls \in Nat
            BY <1>4, <2>1, <3>2, <3>3, Counts, SMTT(30) DEF Inv, Call
        <3> QED BY <3>1, <3>4, SMTT(30)
    <2> QED BY <2>1
<1>6. seen[w] \in [linked : BOOLEAN, tries : Nat, recorded : BOOLEAN, stage : Stages \cup {""},
                   data : Nat, retry : {"none", "claimed", "started"}, approved : 0..MaxCalls]
    BY DEF Inv, Typed
<1>7. /\ seen'[w].stage = checkpoint /\ seen'[w].data = data /\ seen'[w].retry = retry /\ seen'[w].approved = c
      /\ seen'[w].linked = seen[w].linked /\ seen'[w].tries = seen[w].tries
      /\ \A v \in Workers \ {w} : seen'[v] = seen[v]
    BY <1>1, <1>6 DEF Inv, Typed
<1>8. Typed'
    <2>1. at' \in [Workers -> Places] /\ outcome' \in [Workers -> Outcomes]
        BY <1>2, MovesOK, PlaceNames DEF Inv
    <2>2. seen' \in [Workers -> [linked : BOOLEAN, tries : Nat, recorded : BOOLEAN, stage : Stages \cup {""},
                             data : Nat, retry : {"none", "claimed", "started"}, approved : 0..MaxCalls]]
        <3> DEFINE R == [linked : BOOLEAN, tries : Nat, recorded : BOOLEAN, stage : Stages \cup {""},
                         data : Nat, retry : {"none", "claimed", "started"}, approved : 0..MaxCalls]
        <3>1. checkpoint \in Stages /\ data \in Nat /\ retry \in {"none", "claimed", "started"} /\ seen \in [Workers -> R]
            BY DEF Inv, Typed
        <3>2. seen'[w] \in R
            BY <1>1, <1>4, <1>6, <3>1
        <3> HIDE DEF R
        <3>3. seen' \in [Workers -> R]
            BY <1>1, <3>1, <3>2
        <3> QED BY <3>3 DEF R
    <2> QED BY <1>3, <2>1, <2>2 DEF Inv, Typed, Outcomes, owned, rest
<1>9. Alone(w) /\ at'[w] = p
    BY <1>2, <1>3, <1>7, MovesOK, PlaceNames DEF Inv, Alone
<1>10. Place(w)'
    BY <1>3, <1>7, <1>9 DEF Inv, Rows, Worker, Place
<1>11. InRun(w)'
    BY <1>3, <1>4, <1>7, <1>9 DEF Worker, InRun, Held, owned
<1>12. AsOwner(w)'
    BY <1>3, <1>5, <1>7, <1>9 DEF Worker, AsOwner, OwnsClaim, Loaded, Suspended, Held, owned
<1>13. ~Open(w)' /\ ~Late(w)' /\ ~Active(w)' /\ at'[w] \notin Held
    BY <1>3, <1>9 DEF Worker, Place, Active, Loaded, Exits, Open, Turn, Sending, Late, Held
<1>14. AsActive(w)' /\ Tied(w)' /\ \A v \in Workers \ {w} : Apart(v, w)' /\ Apart(w, v)'
    BY <1>9, <1>13 DEF AsActive, Tied, Open, Apart
<1> QED BY <1>3, <1>8, <1>9, <1>10, <1>11, <1>12, <1>14, LocalOK DEF Worker, rest

LEMMA RefreshExecutionLeaseOK == ASSUME Inv, NEW w \in Workers, RefreshExecutionLease(w) PROVE Inv'
<1>1. CASE UNCHANGED <<run_lease, cur>> /\ Leave(w, "error")
    BY <1>1, QuitStep DEF RefreshExecutionLease, Quits, Verdicts, others, records
<1>2. CASE Fenced(w) /\ run \notin RunEnded /\ run_lease' = TRUE /\ cur' = [cur EXCEPT ![w] = run] /\ Goto(w, "routing")
    <2>1. Moves(w, "routing") /\ "routing" \in Places
        BY <1>2, PlaceNames DEF Goto, Moves
    <2>2. UNCHANGED <<run, owned, rest, lease, effect, mode, item, seen>> /\ at[w] = "refreshing" /\ Worker(w)
        BY DEF RefreshExecutionLease, Inv, input, records, world, owned, rest
    <2>3. cur' \in [Workers -> States \cup {"none"}] /\ cur'[w] = run /\ \A v \in Workers \ {w} : cur'[v] = cur[v]
        BY <1>2 DEF Inv, Typed
    <2>4. Alone(w) /\ at'[w] = "routing"
        BY <2>1, <2>2, <2>3, MovesOK DEF Inv, Alone
    <2>5. Typed'
        <3>1. at' \in [Workers -> Places] /\ outcome' \in [Workers -> Outcomes]
            BY <2>1, MovesOK DEF Inv
        <3> QED BY <1>2, <2>2, <2>3, <3>1 DEF Inv, Typed, Outcomes, owned, rest
    <2>6. Place(w)'
        BY <2>2, <2>3, <2>4 DEF Worker, Place, InRun
    <2>7. InRun(w)'
        BY <2>2, <2>3, <2>4 DEF Inv, Rows, Worker, InRun, owned
    <2>8. AsOwner(w)'
        BY <1>2, <2>2, <2>3, <2>4 DEF Worker, AsOwner, OwnsClaim, Loaded, Suspended, RunEnded, owned
    <2>9. AsActive(w)' /\ Tied(w)' /\ ~Open(w)' /\ ~Late(w)' /\ ~Active(w)'
        BY <2>4 DEF AsActive, Active, Loaded, Tied, Open, Turn, Sending, Late
    <2>10. \A v \in Workers \ {w} : Apart(v, w)' /\ Apart(w, v)'
        BY <2>4, <2>9 DEF Apart
    <2> QED BY <2>2, <2>4, <2>5, <2>6, <2>7, <2>8, <2>9, <2>10, LocalOK DEF Worker, rest
<1> QED BY <1>1, <1>2 DEF RefreshExecutionLease

\* How Resume goes on: with the claimed retry, with the saved answer, with the
\* approved call, or after a recorded result.
Routes(w, p, x) ==
    \/ /\ p = "admitting" /\ x = 0 /\ cur[w] \in Inference
       /\ ValidateModelRetry(w) /\ seen[w].retry = "claimed"
    \/ p = "save_finalizing" /\ x = seen[w].data /\ seen[w].stage = "finalizing" /\ cur[w] = "finalizing"
    \/ p = "authorizing" /\ x = seen[w].approved /\ x # 0 /\ approval[x] = "approved" /\ cur[w] = "awaiting_approval"
    \/ /\ p = (IF cur[w] = "tool_running" THEN "to_resume" ELSE "admitting") /\ cur[w] \in {"tool_running"} \cup Inference
       /\ x = seen[w].data /\ seen[w].stage \in {"tool_dispatching", "tool_result_recorded"} /\ transcript[x] = "known"

LEMMA ContinueOK ==
    ASSUME Inv, NEW w \in Workers
    PROVE  /\ Continue(w)[1] \in {"blocked", "error"} \/ Routes(w, Continue(w)[1], Continue(w)[2])
           /\ Continue(w)[2] \in Nat
<1>1. seen[w].data \in Nat /\ seen[w].approved \in Nat
    BY SeenOK DEF Inv
<1>2. Continue(w) \in {<<"blocked", 0>>, <<"error", 0>>} \/ \E p, x : Continue(w) = <<p, x>> /\ x \in Nat /\ Routes(w, p, x)
    <2>1. CASE seen[w].stage = "model_retry_pending" /\ seen[w].retry = "claimed"
        BY <2>1 DEF Continue, Routes
    <2>2. CASE seen[w].stage = "finalizing" /\ cur[w] = "finalizing"
        BY <1>1, <2>2 DEF Continue, Routes
    <2>3. CASE ~(seen[w].stage = "model_retry_pending" /\ seen[w].retry = "claimed") /\ cur[w] = "awaiting_approval"
        BY <1>1, <2>3 DEF Continue, Routes, Inference
    <2>4. CASE seen[w].stage \in {"tool_dispatching", "tool_result_recorded"} /\ cur[w] \in {"tool_running"} \cup Inference
        BY <1>1, <2>4 DEF Continue, Routes, Inference
    <2>5. CASE /\ ~(seen[w].stage = "model_retry_pending" /\ seen[w].retry = "claimed")
               /\ ~(seen[w].stage = "finalizing" /\ cur[w] = "finalizing") /\ cur[w] # "awaiting_approval"
               /\ ~(seen[w].stage \in {"tool_dispatching", "tool_result_recorded"} /\ cur[w] \in {"tool_running"} \cup Inference)
        BY <2>5 DEF Continue
    <2> QED BY <2>1, <2>2, <2>3, <2>4, <2>5
<1> QED BY <1>2, SMTT(30)

\* What the owner of the claim finds where it goes on.
LEMMA RoutesOK ==
    ASSUME Inv, NEW w \in Workers, at[w] = "routing", OwnsClaim(w), NEW p, NEW x, Routes(w, p, x)
    PROVE  /\ checkpoint \notin {"awaiting_approval", "run_created", "model_budget_reserved"}
           /\ p = "save_finalizing" => x = data
           /\ checkpoint = "finalizing" => p = "save_finalizing"
           /\ Settled /\ (retry = "none" <=> seen[w].retry = "none")
           /\ checkpoint = "tool_dispatching" => transcript[data] = "known"
           /\ p = "authorizing" => x = calls /\ calls > 0 /\ asked[calls] = 0 /\ approval[calls] = "approved" /\ x = seen[w].approved
           /\ p = "authorizing" /\ retry # "none" => NoTwin(calls)
<1>1. /\ seen[w].stage = checkpoint \/ (checkpoint = "approval_ready" /\ seen[w].stage = "awaiting_approval")
      /\ seen[w].data = data /\ seen[w].retry = retry
      /\ seen[w].approved # 0 => Suspended /\ seen[w].approved = calls
    BY DEF Inv, Worker, AsOwner, Loaded
<1>2. CASE p = "admitting" /\ x = 0 /\ ValidateModelRetry(w) /\ seen[w].retry = "claimed"
    <2>1. checkpoint = "model_retry_pending"
        BY <1>2 DEF ValidateModelRetry
    <2> QED BY <1>1, <1>2, <2>1 DEF Inv, CallRows, Settled
<1>3. CASE p = "save_finalizing" /\ x = seen[w].data /\ seen[w].stage = "finalizing"
    BY <1>1, <1>3 DEF Inv, CallRows, Settled
<1>4. CASE p = "authorizing" /\ x = seen[w].approved /\ x # 0 /\ approval[x] = "approved"
    <2>1. Suspended /\ x = calls /\ calls > 0 /\ asked[calls] = 0 /\ checkpoint # "awaiting_approval"
          /\ (retry # "none" => NoTwin(calls))
        BY <1>1, <1>4 DEF Inv, Rows
    <2>2. Settled
        BY <2>1 DEF Inv, CallRows, Settled, Suspended
    <2> QED BY <1>1, <1>4, <2>1, <2>2 DEF Suspended
<1>5. CASE /\ p \in {"to_resume", "admitting"} /\ x = seen[w].data
           /\ seen[w].stage \in {"tool_dispatching", "tool_result_recorded"} /\ transcript[x] = "known"
    <2>1. checkpoint \in {"tool_dispatching", "tool_result_recorded"} /\ transcript[data] = "known"
        BY <1>1, <1>5
    <2>2. Settled
        BY <2>1 DEF Inv, CallRows, Settled
    <2> QED BY <1>1, <1>5, <2>1, <2>2
<1> QED BY <1>2, <1>3, <1>4, <1>5 DEF Routes

LEMMA RouteOK == ASSUME Inv, NEW w \in Workers, Route(w) PROVE Inv'
<1> DEFINE next == Continue(w)
<1>1. /\ UNCHANGED <<run, run_lease, owned, rest, lease, effect, mode, cur, seen>> /\ at[w] = "routing" /\ Worker(w)
      /\ item' = [item EXCEPT ![w] = next[2]]
    BY DEF Route, Inv, row, input, records, world, owned, rest
<1>2. next[2] \in Nat /\ (next[1] \in {"blocked", "error"} \/ Routes(w, next[1], next[2]))
    BY ContinueOK
<1>3. Moves(w, "returning") \/ (Moves(w, next[1]) /\ Routes(w, next[1], next[2]))
    BY <1>2 DEF Route, Leave, Goto, Moves, Outcomes, Verdicts
<1> HIDE DEF next
<1>4. item' \in [Workers -> Nat] /\ item'[w] = next[2] /\ \A v \in Workers \ {w} : item'[v] = item[v]
    BY <1>1, <1>2 DEF Inv, Typed
<1>5. ASSUME NEW p \in Places, Moves(w, p) PROVE Typed' /\ Alone(w) /\ at'[w] = p
    <2>1. /\ at' \in [Workers -> Places] /\ outcome' \in [Workers -> Outcomes] /\ at'[w] = p
          /\ \A v \in Workers \ {w} : at'[v] = at[v] /\ outcome'[v] = outcome[v]
        BY <1>5, MovesOK DEF Inv
    <2>2. Typed'
        BY <1>1, <1>4, <2>1 DEF Inv, Typed, Outcomes, owned, rest
    <2>3. Alone(w)
        BY <1>1, <1>4, <2>1 DEF Alone
    <2> QED BY <2>1, <2>2, <2>3
<1>6. CASE Moves(w, "returning")
    <2>1. Typed' /\ Alone(w) /\ at'[w] = "returning"
        BY <1>5, <1>6, PlaceNames
    <2> QED BY <1>1, <2>1, QuitOK
<1>7. CASE Moves(w, next[1]) /\ Routes(w, next[1], next[2])
    <2> DEFINE p == next[1]
               x == next[2]
    <2>1. /\ Routes(w, p, x) /\ p \in {"admitting", "save_finalizing", "authorizing", "to_resume"} /\ item'[w] = x
          /\ Typed' /\ Alone(w) /\ at'[w] = p
        <3>1. p \in {"admitting", "save_finalizing", "authorizing", "to_resume"}
            BY <1>7 DEF Routes
        <3> QED BY <1>4, <1>5, <1>7, <3>1, PlaceNames
    <2> HIDE DEF p, x
    <2>2. Place(w)'
        BY <1>1, <2>1 DEF Worker, Place, Routes, Inference
    <2>3. InRun(w)'
        BY <1>1, <2>1 DEF Worker, InRun, Held, owned, rest
    <2>4. AsOwner(w)'
        <3>1. OwnsClaim(w) => checkpoint # "run_created"
            BY <1>1, <2>1, RoutesOK
        <3> QED BY <1>1, <2>1, <3>1 DEF Worker, AsOwner, OwnsClaim, Loaded, Held, owned
    <2>5. AsActive(w)'
        <3>1. SUFFICES ASSUME OwnsClaim(w) PROVE AsActive(w)'
            BY <1>1 DEF AsActive, OwnsClaim, owned
        <3>2. /\ checkpoint # "awaiting_approval" /\ Settled /\ (retry = "none" <=> seen[w].retry = "none")
              /\ p = "save_finalizing" => x = data
              /\ checkpoint = "finalizing" => p = "save_finalizing"
              /\ p = "authorizing" => x = calls /\ calls > 0 /\ asked[calls] = 0 /\ approval[calls] = "approved" /\ x = seen[w].approved
              /\ p = "authorizing" /\ retry # "none" => NoTwin(calls)
            BY <1>1, <2>1, <3>1, RoutesOK
        <3> QED BY <1>1, <2>1, <3>2 DEF AsActive, Settled, Proposed, Approved, NoTwin, owned
    <2>6. Tied(w)' /\ ~Open(w)' /\ ~Late(w)'
        BY <1>1, <2>1 DEF Worker, Place, Tied, Open, Turn, Sending, Late
    <2>7. ASSUME NEW v \in Workers \ {w} PROVE Apart(v, w)' /\ Apart(w, v)'
        <3>1. (Open(v)' <=> Open(v)) /\ (Late(v)' <=> Late(v)) /\ (OwnsClaim(w)' <=> OwnsClaim(w))
            BY <1>1, <2>1 DEF Alone, Open, Turn, Sending, Late, OwnsClaim, owned
        <3>2. OwnsClaim(w) => /\ checkpoint \notin {"run_created", "model_budget_reserved"}
                              /\ checkpoint = "tool_dispatching" => transcript[data] = "known"
            BY <1>1, <2>1, RoutesOK
        <3>3. OwnsClaim(w) => ~Open(v) /\ ~Late(v)
            BY <3>2 DEF Inv, Worker, Tied, Open
        <3> QED BY <2>6, <3>1, <3>3 DEF Apart
    <2> QED BY <1>1, <2>1, <2>2, <2>3, <2>4, <2>5, <2>6, <2>7, LocalOK DEF Worker, rest
<1> QED BY <1>3, <1>6, <1>7

-----------------------------------------------------------------------------
(* Claims and leases come and go *)

Stays(v) ==
    /\ at'[v] = at[v] /\ mode'[v] = mode[v] /\ cur'[v] = cur[v]
    /\ item'[v] = item[v] /\ outcome'[v] = outcome[v] /\ seen'[v] = seen[v]
    /\ OwnsClaim(v)' => OwnsClaim(v) /\ attempts' = attempts
    /\ lease' = v => lease = v

Away(v) == at[v] \in {"idle", "claimed"}

\* Everybody stays where it was, except for those that start or stop.
LEMMA TurnoverOK ==
    ASSUME Inv, Typed', Rows', UNCHANGED <<run, checkpoint, data, retry, approval, turns, calls, intent, asked,
                                           transcript, messages, result>>,
           \A v \in Workers : Stays(v) \/ (Worker(v)' /\ Away(v)')
    PROVE  Inv'
<1>1. CallRows'
    BY DEF Inv, CallRows
<1>2. ASSUME NEW v \in Workers, Stays(v) PROVE Worker(v)'
    <2>1. Worker(v)
        BY DEF Inv
    <2>2. Place(v)' /\ InRun(v)'
        <3>1. Place(v)'
            BY <1>2, <2>1, PlaceKept DEF Stays, Worker
        <3>2. InRun(v)'
            BY <1>2, <2>1 DEF Stays, Worker, InRun
        <3> QED BY <3>1, <3>2
    <2>3. AsOwner(v)'
        BY <1>2, <2>1 DEF Stays, Worker, AsOwner, Loaded, Suspended
    <2>4. AsActive(v)'
        <3> SUFFICES ASSUME OwnsClaim(v)', Active(v)' PROVE AsActive(v)'
            BY DEF AsActive
        <3>1. OwnsClaim(v) /\ Active(v) /\ AsActive(v)
            BY <1>2, <2>1 DEF Stays, Worker, Active, Loaded
        <3>2. Approved(v)' = Approved(v) /\ Settled' = Settled /\ NoTwin(calls)' = NoTwin(calls)
            BY <1>2 DEF Stays, Approved, Settled, NoTwin
        <3> QED BY <1>2, <3>1, <3>2 DEF Stays, AsActive
    <2>5. Tied(v)'
        BY <1>2, <2>1 DEF Stays, Worker, Tied, Late, Open, Turn, Sending, NoTwin
    <2> QED BY <2>2, <2>3, <2>4, <2>5 DEF Worker
<1>3. ASSUME NEW u \in Workers, NEW v \in Workers, u # v PROVE Apart(u, v)'
    <2>1. ASSUME NEW x \in Workers, Away(x)' PROVE ~Open(x)' /\ ~Late(x)' /\ ~Active(x)' /\ at'[x] \notin Held
        BY <2>1 DEF Away, Open, Turn, Sending, Late, Active, Held
    <2>2. CASE Away(u)' \/ Away(v)'
        BY <2>1, <2>2 DEF Apart
    <2>3. CASE Stays(u) /\ Stays(v)
        BY <1>3, <2>3 DEF Inv, Stays, Apart, Open, Turn, Sending, Active, Loaded, Late
    <2> QED BY <2>2, <2>3
<1> QED BY <1>1, <1>2, <1>3 DEF Inv

LEMMA ClaimOK == ASSUME Inv, NEW w \in Workers, Claim(w) PROVE Inv'
<1>1. /\ at[w] = "idle" /\ status \in {"queued", "running"} /\ claim = Nobody /\ Worker(w)
      /\ UNCHANGED <<run, run_lease, checkpoint, data, retry, lease, approval, turns, calls, intent, asked,
                     transcript, messages, result, effect, mode, cur, item, faults>>
      /\ status' = "running" /\ claim' = w
    BY DEF Claim, Inv, row, records, world
<1>2. Moves(w, "claimed") /\ "claimed" \in Places
    BY PlaceNames DEF Claim, Goto, Moves
<1>3. attempts' \in Nat /\ attempts' <= MaxAttempts + faults + 1
    <2>1. attempts <= MaxAttempts + faults /\ attempts \in Nat /\ faults \in Nat
        BY <1>1, Counts, WorkerNames DEF Inv, Rows
    <2>2. attempts' \in {attempts, attempts + 1}
        BY DEF Claim
    <2> QED BY <2>1, <2>2, ExecutionAssumption, SMTT(30)
<1>4. Rows'
    BY <1>1, <1>3 DEF Inv, Rows, Suspended, NoTwin
<1>5. /\ seen'[w].linked = (checkpoint # "accepted") /\ seen'[w].tries = attempts' /\ seen'[w].stage = seen[w].stage
      /\ seen'[w].data = seen[w].data /\ seen'[w].retry = seen[w].retry /\ seen'[w].approved = seen[w].approved
      /\ seen' \in [Workers -> [linked : BOOLEAN, tries : Nat, recorded : BOOLEAN, stage : Stages \cup {""},
                             data : Nat, retry : {"none", "claimed", "started"}, approved : 0..MaxCalls]]
      /\ \A v \in Workers \ {w} : seen'[v] = seen[v]
    <2> DEFINE R == [linked : BOOLEAN, tries : Nat, recorded : BOOLEAN, stage : Stages \cup {""},
                     data : Nat, retry : {"none", "claimed", "started"}, approved : 0..MaxCalls]
    <2>1. seen \in [Workers -> R] /\ seen[w] \in R
        BY DEF Inv, Typed
    <2>2. seen' = [seen EXCEPT ![w] = [seen[w] EXCEPT !.linked = checkpoint # "accepted", !.tries = attempts']]
        BY <2>1 DEF Claim
    <2>3. (checkpoint # "accepted") \in BOOLEAN
        OBVIOUS
    <2>4. seen'[w] = [seen[w] EXCEPT !.linked = checkpoint # "accepted", !.tries = attempts']
        BY <2>1, <2>2
    <2>5. seen'[w] \in R
        BY <1>3, <2>1, <2>3, <2>4
    <2>6. /\ seen'[w].linked = (checkpoint # "accepted") /\ seen'[w].tries = attempts' /\ seen'[w].stage = seen[w].stage
          /\ seen'[w].data = seen[w].data /\ seen'[w].retry = seen[w].retry /\ seen'[w].approved = seen[w].approved
        BY <2>1, <2>4
    <2> HIDE DEF R
    <2>7. seen' \in [Workers -> R] /\ \A v \in Workers \ {w} : seen'[v] = seen[v]
        BY <2>1, <2>2, <2>4, <2>5
    <2> QED BY <2>6, <2>7 DEF R
<1>6. Typed'
    BY <1>1, <1>2, <1>3, <1>5, MovesOK DEF Inv, Typed, Outcomes
<1>7. at'[w] = "claimed" /\ \A v \in Workers \ {w} : at'[v] = at[v] /\ outcome'[v] = outcome[v]
    BY <1>2, MovesOK DEF Inv
<1>8. Place(w)'
    BY <1>1, <1>5, <1>7 DEF Worker, Place
<1>9. InRun(w)' /\ AsOwner(w)'
    BY <1>1, <1>5, <1>7 DEF Inv, Rows, Worker, InRun, AsOwner, Loaded, Held
<1>10. AsActive(w)' /\ Tied(w)'
    BY <1>7 DEF AsActive, Active, Tied, Late, Open, Turn, Sending
<1>11. \A v \in Workers \ {w} : Stays(v)
    BY <1>1, <1>5, <1>7 DEF Stays, OwnsClaim
<1> QED BY <1>1, <1>4, <1>6, <1>7, <1>8, <1>9, <1>10, <1>11, TurnoverOK DEF Worker, Away

\* A worker that stops keeps nothing.
Stops(w) ==
    /\ at' = [at EXCEPT ![w] = "idle"] /\ mode' = [mode EXCEPT ![w] = "execute"]
    /\ cur' = [cur EXCEPT ![w] = "none"] /\ item' = [item EXCEPT ![w] = 0]
    /\ outcome' = [outcome EXCEPT ![w] = "none"] /\ seen' = [seen EXCEPT ![w] = Nothing]

LEMMA StopsOK ==
    ASSUME Inv, NEW w \in Workers, Stops(w), ~OwnsClaim(w)', lease' \in Workers \cup {Nobody, Orphan},
           claim' \in Workers \cup {Nobody, Orphan}, faults' \in 0..MaxFaults, attempts' \in Nat,
           status' \in {"queued", "running", "waiting_for_user", "blocked", "completed", "failed", "cancelled"},
           UNCHANGED <<run, run_lease, checkpoint, data, retry, approval, turns, calls, intent, asked,
                       transcript, messages, result, effect>>,
           Rows', \A v \in Workers \ {w} : (OwnsClaim(v)' => OwnsClaim(v) /\ attempts' = attempts) /\ (lease' = v => lease = v)
    PROVE  Inv'
<1>1. at' \in [Workers -> Places] /\ outcome' \in [Workers -> Outcomes]
    BY PlaceNames DEF Stops, Inv, Typed, Outcomes
<1>2. /\ mode' \in [Workers -> {"execute", "resume"}] /\ cur' \in [Workers -> States \cup {"none"}]
      /\ item' \in [Workers -> Nat]
    BY DEF Stops, Inv, Typed
<1>3. seen' \in [Workers -> [linked : BOOLEAN, tries : Nat, recorded : BOOLEAN, stage : Stages \cup {""},
                             data : Nat, retry : {"none", "claimed", "started"}, approved : 0..MaxCalls]]
    <2> DEFINE R == [linked : BOOLEAN, tries : Nat, recorded : BOOLEAN, stage : Stages \cup {""},
                     data : Nat, retry : {"none", "claimed", "started"}, approved : 0..MaxCalls]
    <2>1. Nothing \in R
        BY ExecutionAssumption, SMTT(30) DEF Nothing
    <2>2. seen \in [Workers -> R]
        BY DEF Inv, Typed
    <2> HIDE DEF R
    <2>3. seen' \in [Workers -> R]
        BY <2>1, <2>2 DEF Stops
    <2> QED BY <2>3 DEF R
<1>4. Typed'
    BY <1>1, <1>2, <1>3 DEF Inv, Typed, Outcomes
<1>5. at'[w] = "idle" /\ mode'[w] = "execute" /\ cur'[w] = "none" /\ seen'[w] = Nothing
    BY DEF Stops, Inv, Typed
<1>6. ~seen'[w].linked /\ seen'[w].retry = "none" /\ seen'[w].approved = 0 /\ seen'[w].stage = "" /\ seen'[w].tries = 0
    <2>1. /\ Nothing.linked = FALSE /\ Nothing.retry = "none" /\ Nothing.approved = 0
          /\ Nothing.stage = "" /\ Nothing.tries = 0
        BY DEF Nothing
    <2> QED BY <1>5, <2>1
<1>7. Place(w)'
    BY <1>5, <1>6 DEF Place
<1>8. InRun(w)'
    <2>1. 0 <= calls
        BY Counts, SMTT(30) DEF Inv
    <2> QED BY <1>5, <1>6, <2>1 DEF InRun, Held, Begun, Unstarted
<1>9. AsOwner(w)' /\ AsActive(w)' /\ Tied(w)'
    BY <1>5 DEF AsOwner, AsActive, Tied, Late, Open, Turn, Sending
<1>10. \A v \in Workers \ {w} : Stays(v)
    BY DEF Stays, Stops, Inv, Typed
<1> QED BY <1>4, <1>5, <1>7, <1>8, <1>9, <1>10, TurnoverOK DEF Worker, Away

LEMMA FinishOK == ASSUME Inv, NEW w \in Workers, Finish(w) PROVE Inv'
<1>1. /\ at[w] = "returned" /\ Worker(w) /\ Stops(w)
      /\ UNCHANGED <<run, run_lease, checkpoint, data, retry, approval, turns, calls, intent, asked,
                     transcript, messages, result, effect, lease, faults>>
    BY DEF Finish, Inv, Stops, row, records, world
<1>2. CASE ~OwnsClaim(w)
    <2>1. UNCHANGED <<status, attempts, claim>>
        BY <1>2 DEF Finish
    <2>2. Rows'
        BY <1>1, <2>1 DEF Inv, Rows, Suspended, NoTwin
    <2> QED BY <1>1, <1>2, <2>1, <2>2, StopsOK DEF OwnsClaim, Inv, Typed
<1>3. CASE OwnsClaim(w)
    <2>1. /\ claim' = Nobody /\ attempts' = Refunded(outcome[w])
          /\ status' \in {"completed", "queued", "waiting_for_user", "failed", "blocked"}
          /\ outcome[w] = "retry_exhausted" => status' = "failed"
        BY <1>3 DEF Finish
    <2>2. attempts' \in Nat /\ attempts' <= attempts
        BY <2>1, Counts, SMTT(30) DEF Inv, Refunded
    <2>3. attempts <= MaxAttempts \/ outcome[w] = "retry_exhausted"
        <3>1. seen[w].tries = attempts /\ seen[w].tries \in Nat
            BY <1>1, <1>3, SeenOK DEF Inv, Worker, AsOwner
        <3>2. seen[w].tries > MaxAttempts => outcome[w] = "retry_exhausted"
            BY <1>1 DEF Worker, Place
        <3> QED BY <3>1, <3>2, ExecutionAssumption, SMTT(30)
    <2>4. /\ attempts' <= MaxAttempts + faults' + 1
          /\ claim' \notin Workers /\ status' \notin {"completed", "failed", "cancelled"} => attempts' <= MaxAttempts + faults'
        <3>1. attempts <= MaxAttempts + faults + 1 /\ attempts \in Nat /\ faults \in Nat /\ MaxAttempts \in Nat /\ faults' = faults
            BY <1>1, Counts, ExecutionAssumption DEF Inv, Rows
        <3>2. attempts' <= MaxAttempts + faults' + 1
            BY <2>2, <3>1, SMTT(30)
        <3>3. attempts <= MaxAttempts => attempts' <= MaxAttempts + faults'
            BY <2>2, <3>1, SMTT(30)
        <3> QED BY <2>1, <2>3, <3>2, <3>3
    <2>5. Rows'
        BY <1>1, <2>1, <2>4 DEF Inv, Rows, Suspended, NoTwin
    <2>6. \A v \in Workers : ~OwnsClaim(v)'
        BY <2>1, WorkerNames DEF OwnsClaim
    <2> QED BY <1>1, <2>1, <2>2, <2>5, <2>6, StopsOK DEF Inv, Typed
<1> QED BY <1>2, <1>3

LEMMA CrashOK == ASSUME Inv, NEW w \in Workers, Crash(w) PROVE Inv'
<1>1. /\ Stops(w) /\ faults < MaxFaults /\ faults' = faults + 1
      /\ claim' = (IF claim = w THEN Orphan ELSE claim) /\ lease' = (IF lease = w THEN Orphan ELSE lease)
      /\ UNCHANGED <<run, run_lease, status, attempts, checkpoint, data, retry, approval, turns, calls, intent, asked,
                     transcript, messages, result, effect>>
    BY DEF Crash, Stops, row, records, world
<1>2. faults' \in 0..MaxFaults
    BY <1>1, Counts, ExecutionAssumption, SMTT(30) DEF Inv
<1>3. /\ attempts' <= MaxAttempts + faults' + 1
      /\ claim' \notin Workers /\ status' \notin {"completed", "failed", "cancelled"} => attempts' <= MaxAttempts + faults'
    BY <1>1, Counts, ExecutionAssumption, SMTT(30) DEF Inv, Rows
<1>4. Rows'
    BY <1>1, <1>3, WorkerNames DEF Inv, Rows, Suspended, NoTwin
<1>5. ~OwnsClaim(w)' /\ \A v \in Workers \ {w} : (OwnsClaim(v)' => OwnsClaim(v)) /\ (lease' = v => lease = v)
    BY <1>1, WorkerNames DEF OwnsClaim
<1>6. attempts' \in Nat /\ claim' \in Workers \cup {Nobody, Orphan} /\ lease' \in Workers \cup {Nobody, Orphan}
    BY <1>1 DEF Inv, Typed
<1> QED BY <1>1, <1>2, <1>4, <1>5, <1>6, StopsOK DEF Inv, Typed

\* Nobody moves.
LEMMA ExpiresOK ==
    ASSUME Inv, NEW holder, Expires(holder)
    PROVE  faults' \in 0..MaxFaults /\ (faults' = faults \/ faults' = faults + 1)
<1>1. faults \in Nat /\ faults \in 0..MaxFaults /\ MaxFaults \in Nat
    BY Counts, ExecutionAssumption DEF Inv, Typed
<1> QED BY <1>1, SMTT(30) DEF Expires

LEMMA ClaimExpiresOK == ASSUME Inv, ClaimExpires PROVE Inv'
<1>1. /\ claim # Nobody /\ claim' = Nobody
      /\ UNCHANGED <<run, run_lease, status, attempts, checkpoint, data, retry, lease, approval, turns, calls, intent, asked,
                     transcript, messages, result, effect, at, mode, cur, item, outcome, seen>>
    BY DEF ClaimExpires, row, records, world, worker
<1>2. faults' \in 0..MaxFaults /\ (faults' = faults \/ faults' = faults + 1)
    BY ExpiresOK DEF ClaimExpires
<1>3. Typed'
    BY <1>1, <1>2 DEF Inv, Typed
<1>4. /\ attempts' <= MaxAttempts + faults' + 1
      /\ status' \notin {"completed", "failed", "cancelled"} => attempts' <= MaxAttempts + faults'
    <2>1. attempts \in Nat /\ faults \in Nat /\ MaxAttempts \in Nat /\ attempts <= MaxAttempts + faults + 1
        BY Counts, ExecutionAssumption DEF Inv, Rows
    <2>2. CASE claim = Orphan
        <3>1. attempts <= MaxAttempts + faults
            BY <1>1, <2>2, WorkerNames DEF Inv, Rows
        <3>2. attempts' = attempts /\ faults' = faults
            BY <1>1, <2>2 DEF ClaimExpires, Expires
        <3> QED BY <2>1, <3>1, <3>2
    <2>3. CASE claim # Orphan
        <3>1. faults' = faults + 1
            BY <2>3 DEF ClaimExpires, Expires
        <3> QED BY <1>1, <2>1, <3>1, SMTT(30)
    <2> QED BY <2>2, <2>3
<1>5. Rows'
    BY <1>1, <1>4 DEF Inv, Rows, Suspended, NoTwin
<1>6. \A v \in Workers : Stays(v)
    BY <1>1, WorkerNames DEF Stays, OwnsClaim
<1> QED BY <1>1, <1>3, <1>5, <1>6, TurnoverOK

LEMMA LeaseExpiresOK == ASSUME Inv, LeaseExpires PROVE Inv'
<1>1. /\ lease' = Nobody
      /\ UNCHANGED <<run, run_lease, status, attempts, claim, checkpoint, data, retry, approval, turns, calls, intent, asked,
                     transcript, messages, result, effect, at, mode, cur, item, outcome, seen>>
    BY DEF LeaseExpires, row, input, records, world, worker
<1>2. faults' \in 0..MaxFaults /\ (faults' = faults \/ faults' = faults + 1)
    BY ExpiresOK DEF LeaseExpires
<1>3. Typed'
    BY <1>1, <1>2 DEF Inv, Typed
<1>4. /\ attempts' <= MaxAttempts + faults' + 1
      /\ claim' \notin Workers /\ status' \notin {"completed", "failed", "cancelled"} => attempts' <= MaxAttempts + faults'
    BY <1>1, <1>2, Counts, ExecutionAssumption, SMTT(30) DEF Inv, Rows
<1>5. Rows'
    BY <1>1, <1>4 DEF Inv, Rows, Suspended, NoTwin
<1>6. \A v \in Workers : Stays(v)
    BY <1>1, WorkerNames DEF Stays, OwnsClaim
<1> QED BY <1>1, <1>3, <1>5, <1>6, TurnoverOK

LEMMA ControlOK == ASSUME Inv, Control PROVE Inv'
<1>1. /\ lease' = Nobody /\ status' = "cancelled" /\ claim' = Nobody
      /\ run' = IF run \in RunEnded \cup {"none"} THEN run ELSE "cancelled"
      /\ UNCHANGED <<run_lease, attempts, checkpoint, data, retry, turns, calls, intent, asked, transcript, messages,
                     result, effect, at, mode, cur, item, outcome, seen, faults>>
    BY DEF Control, world, worker
<1>2. /\ approval' \in [Call -> {"none", "pending", "approved", "refused"}]
      /\ \A c \in Call : approval'[c] = IF approval[c] = "pending" THEN "refused" ELSE approval[c]
    BY DEF Control, Inv, Typed
<1>3. Typed'
    BY <1>1, <1>2 DEF Inv, Typed, States, RunEnded
<1>4. \A v \in Workers : ~OwnsClaim(v)' /\ lease' # v
    BY <1>1, WorkerNames DEF OwnsClaim
<1>5. Suspended => calls \in Call
    <2>1. Suspended => calls > 0 /\ calls \in 0..MaxCalls
        BY DEF Inv, Typed, Rows
    <2> QED BY <2>1, ExecutionAssumption, SMTT(30) DEF Call
<1>6. Rows'
    <2>1. run' \notin Begun => turns > 0
        BY <1>1 DEF Inv, Rows, Begun
    <2>2. /\ run' \in Unstarted => run \in Unstarted
          /\ run' = "none" <=> run = "none"
          /\ run' = "completed" <=> run = "completed"
          /\ run' # "awaiting_approval"
          /\ run' \notin Unstarted \cup {"failed", "cancelled"} => run' = run
        BY <1>1 DEF RunEnded, Unstarted, Early
    <2> QED BY <1>1, <1>2, <1>5, <2>1, <2>2 DEF Inv, Rows, Suspended, NoTwin
<1>7. CallRows'
    BY <1>1, <1>2 DEF Inv, CallRows
<1>8. ASSUME NEW v \in Workers PROVE Worker(v)'
    <2>1. run' \in Unstarted => run \in Unstarted
        BY <1>1 DEF RunEnded, Unstarted, Early
    <2>2. Place(v)' /\ InRun(v)'
        BY <1>1, <1>4, <2>1 DEF Inv, Worker, Place, InRun
    <2>3. AsOwner(v)' /\ AsActive(v)'
        BY <1>4 DEF AsOwner, AsActive
    <2>4. Sending(v) => calls \in Call
        <3>1. Sending(v) => calls > 0 /\ calls \in 0..MaxCalls
            BY DEF Inv, Typed, Worker, Tied
        <3> QED BY <3>1, ExecutionAssumption, SMTT(30) DEF Call
    <2>5. Tied(v)'
        BY <1>1, <1>2, <2>4 DEF Inv, Worker, Tied, Late, Open, Turn, Sending, NoTwin
    <2> QED BY <2>2, <2>3, <2>5 DEF Worker
<1>9. \A u, v \in Workers : u # v => Apart(u, v)'
    BY <1>1, <1>4 DEF Inv, Apart, Open, Turn, Sending
<1> QED BY <1>3, <1>6, <1>7, <1>8, <1>9 DEF Inv

LEMMA ResolveOK ==
    ASSUME Inv, NEW c \in Call, NEW decision \in {"approved", "refused"}, Resolve(c, decision)
    PROVE  Inv'
<1>1. /\ approval[c] = "pending" /\ run \notin RunEnded /\ status \in {"running", "waiting_for_user", "blocked"}
      /\ checkpoint' = "approval_ready" /\ approval' = [approval EXCEPT ![c] = decision]
      /\ status' = IF status = "running" THEN status ELSE "queued"
      /\ UNCHANGED <<run, run_lease, attempts, claim, data, retry, lease, turns, calls, intent, asked, transcript, messages,
                     result, effect, at, mode, cur, item, outcome, seen, faults>>
    BY DEF Resolve, row, world, worker
<1>2. checkpoint = "awaiting_approval" /\ c = calls /\ asked[calls] = 0 /\ Suspended /\ turns > 0
    BY <1>1 DEF Inv, CallRows, Rows, Suspended, Ready
<1>3. /\ approval' \in [Call -> {"none", "pending", "approved", "refused"}] /\ approval'[c] = decision
      /\ \A d \in Call \ {c} : approval'[d] = approval[d]
    BY <1>1 DEF Inv, Typed
<1>4. Typed'
    BY <1>1, <1>3, StageNames DEF Inv, Typed
<1>5. Rows'
    BY <1>1, <1>2, <1>3 DEF Inv, Rows, Suspended, NoTwin, RunEnded
<1>6. CallRows'
    <2>1. ~(asked[c] > 0)
        BY <1>2, SMTT(30)
    <2> QED BY <1>1, <1>2, <1>3, <2>1 DEF Inv, CallRows
<1>7. ASSUME NEW v \in Workers
      PROVE  /\ ~Open(v) /\ ~Late(v) /\ at[v] # "saving" /\ ~(OwnsClaim(v) /\ Active(v))
             /\ OwnsClaim(v)' => OwnsClaim(v)
    BY <1>1, <1>2 DEF Inv, Worker, Tied, Open, AsActive, OwnsClaim
<1>8. ASSUME NEW v \in Workers PROVE Worker(v)'
    <2>1. Worker(v)
        BY DEF Inv
    <2>2. Place(v)' /\ InRun(v)'
        <3>1. Place(v)'
            BY <1>1, <2>1, PlaceKept DEF Worker
        <3>2. InRun(v)'
            BY <1>1, <2>1 DEF Worker, InRun
        <3> QED BY <3>1, <3>2
    <2>3. AsOwner(v)'
        BY <1>1, <1>2, <1>7, <2>1 DEF Worker, AsOwner, Loaded, Suspended, RunEnded
    <2>4. AsActive(v)' /\ Tied(v)'
        BY <1>1, <1>7 DEF AsActive, Active, Loaded, Tied, Late, Open, Turn, Sending
    <2> QED BY <2>2, <2>3, <2>4 DEF Worker
<1>9. \A u, v \in Workers : u # v => Apart(u, v)'
    BY <1>1, <1>7 DEF Apart, Open, Turn, Sending, Late
<1> QED BY <1>4, <1>5, <1>6, <1>8, <1>9 DEF Inv

-----------------------------------------------------------------------------
(* Theorems *)

LEMMA InitOK == Init => Inv
<1> SUFFICES ASSUME Init PROVE Inv
    OBVIOUS
<1>1. Typed
    <2> DEFINE R == [linked : BOOLEAN, tries : Nat, recorded : BOOLEAN, stage : Stages \cup {""},
                     data : Nat, retry : {"none", "claimed", "started"}, approved : 0..MaxCalls]
    <2>1. Nothing \in R
        BY ExecutionAssumption, SMTT(30) DEF Nothing
    <2> HIDE DEF R
    <2>2. seen \in [Workers -> R]
        BY <2>1 DEF Init
    <2>3. at \in [Workers -> Places] /\ checkpoint \in Stages
        BY PlaceNames, StageNames DEF Init
    <2>4. /\ transcript \in [Call -> {"none", "known", "effect_unknown"}]
          /\ approval \in [Call -> {"none", "pending", "approved", "refused"}]
          /\ intent \in [Call -> Intents \cup {0}] /\ asked \in [Call -> Nat]
          /\ effect \in [Call -> {"none", "known", "unknown"}]
        BY DEF Init
    <2>5. /\ mode \in [Workers -> {"execute", "resume"}] /\ cur \in [Workers -> States \cup {"none"}]
          /\ item \in [Workers -> Nat] /\ outcome \in [Workers -> Verdicts \cup {"none", "known", "stopped", "effect_unknown"}]
        BY DEF Init
    <2>6. calls \in 0..MaxCalls /\ faults \in 0..MaxFaults
        BY ExecutionAssumption, SMTT(30) DEF Init
    <2>7. /\ run \in States \cup {"none"} /\ run_lease \in BOOLEAN
          /\ status \in {"queued", "running", "waiting_for_user", "blocked", "completed", "failed", "cancelled"}
          /\ attempts \in Nat /\ claim \in Workers \cup {Nobody, Orphan} /\ lease \in Workers \cup {Nobody, Orphan}
          /\ data \in Nat /\ retry \in {"none", "claimed", "started"}
          /\ messages \in Nat /\ result \in Nat /\ turns \in Nat
        BY DEF Init
    <2> QED BY <2>2, <2>3, <2>4, <2>5, <2>6, <2>7 DEF Typed, R
<1>2. Rows /\ CallRows
    <2>1. 0 <= MaxAttempts + 0 + 1 /\ 0 <= MaxAttempts + 0
        BY ExecutionAssumption, SMTT(30)
    <2> QED BY <2>1, SMTT(30) DEF Init, Rows, CallRows, Begun, Unstarted, Ready, Suspended
<1>3. ASSUME NEW w \in Workers PROVE at[w] = "idle" /\ Worker(w)
    <2>1. at[w] = "idle" /\ mode[w] = "execute" /\ cur[w] = "none" /\ seen[w] = Nothing /\ ~OwnsClaim(w) /\ lease # w /\ calls = 0
        BY WorkerNames DEF Init, OwnsClaim
    <2>2. /\ Nothing.linked = FALSE /\ Nothing.retry = "none" /\ Nothing.approved = 0
          /\ Nothing.stage = "" /\ Nothing.tries = 0
        BY DEF Nothing
    <2>3. Place(w) /\ InRun(w)
        <3>1. ~seen[w].linked /\ seen[w].retry = "none" /\ seen[w].approved = 0 /\ seen[w].stage = ""
            BY <2>1, <2>2
        <3>2. Place(w)
            BY <2>1, <3>1 DEF Place
        <3>3. seen[w].approved <= calls
            <4>1. seen[w].approved = 0 /\ calls = 0
                BY <2>1, <2>2
            <4> QED BY <4>1, SMTT(30)
        <3> QED BY <2>1, <3>1, <3>2, <3>3 DEF InRun, Unstarted, Begun
    <2>4. AsOwner(w) /\ AsActive(w) /\ Tied(w)
        BY <2>1 DEF AsOwner, AsActive, Tied, Late, Open, Turn, Sending
    <2> QED BY <2>1, <2>3, <2>4 DEF Worker
<1>4. \A v, w \in Workers : v # w => Apart(v, w)
    BY <1>3 DEF Apart, Open, Turn, Sending, Late
<1> QED BY <1>1, <1>2, <1>3, <1>4 DEF Inv

LEMMA NextOK == Inv /\ [Next]_vars => Inv'
<1> SUFFICES ASSUME Inv, [Next]_vars PROVE Inv'
    OBVIOUS
<1>1. ASSUME NEW w \in Workers, Work(w) PROVE Inv'
    BY <1>1, ClaimOK, ProcessOK, TransitionOK, CheckpointOK, FailRunOK, SaveOK, ReleaseLeaseOK, FinishOK DEF Work
<1>2. ASSUME NEW w \in Workers, Executing(w) PROVE Inv'
    BY <1>2, CreateRunOK, AcquireLeaseOK, RecoverPreparationOK, PrepareRunOK, AppendMessageOK DEF Executing
<1>3. ASSUME NEW w \in Workers, Inferring(w) PROVE Inv'
    BY <1>3, AdmitOK, ModelStreamOK, ModelFailsOK, ScheduleRetryOK, FinalMessageOK, ToolCallRequestedOK DEF Inferring
<1>4. ASSUME NEW w \in Workers, Calling(w) PROVE Inv'
    BY <1>4, SuspendApprovalOK, AuthorizeActionOK, ExecuteToolCallOK, AppendToolCallOK DEF Calling
<1>5. ASSUME NEW w \in Workers, Resuming(w) PROVE Inv'
    BY <1>5, GetRunOK, LoadCheckpointOK, RefreshExecutionLeaseOK, RouteOK DEF Resuming
<1>6. CASE UNCHANGED vars
    <2>1. UNCHANGED <<run, run_lease, status, attempts, claim, checkpoint, data, retry, lease, approval, turns, calls, intent,
                      asked, transcript, messages, result, effect, at, mode, cur, item, outcome, seen, faults>>
        BY <1>6 DEF vars, row, input, records, world, worker
    <2>2. Typed' /\ Rows'
        <3>1. Typed'
            BY <2>1 DEF Inv, Typed
        <3>2. Rows'
            BY <2>1 DEF Inv, Rows, Suspended, NoTwin
        <3> QED BY <3>1, <3>2
    <2>3. \A v \in Workers : Stays(v)
        BY <2>1 DEF Stays, OwnsClaim
    <2> QED BY <2>1, <2>2, <2>3, TurnoverOK
<1> QED BY <1>1, <1>2, <1>3, <1>4, <1>5, <1>6, CrashOK, ResolveOK, ControlOK, ClaimExpiresOK, LeaseExpiresOK DEF Next

\* The invariant holds in every state.
THEOREM Invariance == Spec => []Inv
BY InitOK, NextOK, PTL DEF Spec

\* A tool call is sent to the broker at most once, however the workers that
\* execute and resume the run interleave, lose their claims and leases, or crash.
THEOREM CallsAreSentOnce == Spec => []AskedAtMostOnce
<1>1. Inv => AskedAtMostOnce
    BY DEF Inv, CallRows, AskedAtMostOnce
<1> QED BY <1>1, Invariance, PTL

\* No call goes out before its approval was given, and while one is pending the
\* input stays at its continuation, with no answer saved.
THEOREM ApprovalComesFirst == Spec => []ApprovalPrecedesCall
<1>1. Inv => ApprovalPrecedesCall
    BY DEF Inv, Rows, CallRows, ApprovalPrecedesCall
<1> QED BY <1>1, Invariance, PTL

\* A completed run has its checkpointed answer, every result in the transcript
\* and the user's message exactly once; attempts stay within their bound.
THEOREM CompletionIsAccounted == Spec => []CompletedIsAccounted
<1>1. Inv => CompletedIsAccounted
    <2> SUFFICES ASSUME Inv PROVE CompletedIsAccounted
        OBVIOUS
    <2>1. attempts \in 0..(MaxAttempts + MaxFaults + 1)
        <3>1. attempts <= MaxAttempts + faults + 1 /\ attempts \in Nat /\ faults \in 0..MaxFaults
            BY DEF Inv, Typed, Rows
        <3> QED BY <3>1, ExecutionAssumption, SMTT(30)
    <2>2. TypeOK
        BY <2>1 DEF Inv, Typed, TypeOK
    <2>3. run = "completed" => /\ result # 0 /\ checkpoint = "finalizing" /\ data = result /\ messages = 1
                               /\ \A c \in Call : asked[c] > 0 => transcript[c] = "known"
        BY DEF Inv, Rows, CallRows, Unstarted, Early
    <2> QED BY <2>2, <2>3 DEF CompletedIsAccounted
<1> QED BY <1>1, Invariance, PTL

-----------------------------------------------------------------------------
(* What a step may do *)

\* Who writes what the action properties are about.
written == <<run, result, transcript, turns, calls, asked, effect, checkpoint, data, retry>>

LEMMA Idlers ==
    ASSUME NEW w \in Workers,
           \/ Claim(w) \/ Process(w) \/ ReleaseLease(w) \/ Finish(w)
           \/ AcquireLease(w) \/ PrepareRun(w) \/ AppendMessage(w)
           \/ ModelStream(w) \/ ModelFails(w) \/ FinalMessage(w) \/ AuthorizeAction(w)
           \/ Resuming(w) \/ Crash(w)
    PROVE  UNCHANGED written
<1>1. CASE Claim(w) \/ Process(w) \/ ReleaseLease(w) \/ Finish(w)
    BY <1>1 DEF Claim, Process, ReleaseLease, Finish, written, row, input, records, world
<1>2. CASE AcquireLease(w) \/ PrepareRun(w) \/ AppendMessage(w)
    BY <1>2 DEF AcquireLease, PrepareRun, AppendMessage, written, row, input, records, world
<1>3. CASE ModelStream(w) \/ ModelFails(w) \/ FinalMessage(w) \/ AuthorizeAction(w)
    BY <1>3 DEF ModelStream, ModelFails, FinalMessage, AuthorizeAction, written, row, input, records, world
<1>4. CASE Resuming(w) \/ Crash(w)
    BY <1>4 DEF Resuming, GetRun, LoadCheckpoint, RefreshExecutionLease, Route, Crash, written, row, input, records, world
<1> QED BY <1>1, <1>2, <1>3, <1>4

\* The steps that write.
Writes ==
    \/ \E w \in Workers :
          \/ Checkpoint(w) \/ Transition(w) \/ FailRun(w) \/ Save(w) \/ CreateRun(w) \/ RecoverPreparation(w)
          \/ Admit(w) \/ ScheduleRetry(w) \/ SuspendApproval(w) \/ ExecuteToolCall(w) \/ AppendToolCall(w)
          \/ \E i \in Intents : ToolCallRequested(w, i)
    \/ \E c \in Call, decision \in {"approved", "refused"} : Resolve(c, decision)
    \/ Control

LEMMA Writers == ASSUME [Next]_vars PROVE Writes \/ UNCHANGED written
<1>1. CASE UNCHANGED vars \/ ClaimExpires \/ LeaseExpires
    BY <1>1 DEF vars, ClaimExpires, LeaseExpires, written, row, input, records, world
<1>2. ASSUME NEW w \in Workers, Work(w) \/ Executing(w) \/ Inferring(w) \/ Calling(w) \/ Resuming(w) \/ Crash(w)
      PROVE  Writes \/ UNCHANGED written
    BY <1>2, Idlers DEF Work, Executing, Inferring, Calling, Writes
<1> QED BY <1>1, <1>2 DEF Next, Writes

\* A turn is reserved only when every result is known: only the owner of the
\* claim reserves one, and it comes there with nothing outstanding.
THEOREM TurnsFollowResults == Spec => TurnsSeeAllResults
<1>1. Inv /\ [Next]_vars => [SeesAllResults]_vars
    <2> SUFFICES ASSUME Inv, Next, turns' # turns PROVE \A c \in Call : asked[c] > 0 => transcript[c] = "known"
        BY DEF SeesAllResults
    <2>1. PICK w \in Workers : Checkpoint(w) /\ at[w] = "save_reserved" /\ OwnsClaim(w)
        <3>1. PICK w \in Workers : Checkpoint(w)
            <4>1. Writes
                BY Writers DEF written
            <4> QED BY <4>1 DEF Writes, Transition, FailRun, Save, CreateRun, RecoverPreparation, Admit, ScheduleRetry,
                            SuspendApproval, ExecuteToolCall, AppendToolCall, ToolCallRequested, Resolve, Control, world
        <3> QED BY <3>1 DEF Checkpoint, SaveCheckpoint
    <2>2. AsActive(w) /\ Active(w)
        BY <2>1 DEF Inv, Worker, Active, Loaded, Exits
    <2> QED BY <2>1, <2>2 DEF AsActive, Settled
<1> QED BY <1>1, Invariance, PTL DEF Spec, TurnsSeeAllResults

\* After the finalizing checkpoint the run is completed with that answer or not
\* at all: whoever could still write the boundary is the one that wrote it.
THEOREM AnswersAreFinal == Spec => AnswerIsFinal
<1>1. Inv /\ [Next]_vars => [KeepsAnswer]_vars
    <2> SUFFICES ASSUME Inv, [Next]_vars, checkpoint = "finalizing"
                 PROVE  checkpoint' = checkpoint /\ UNCHANGED <<data, turns, calls, asked>>
        BY DEF KeepsAnswer
    <2>1. CASE UNCHANGED written
        BY <2>1 DEF written
    <2>2. ASSUME NEW w \in Workers, Checkpoint(w) PROVE checkpoint' = checkpoint /\ UNCHANGED <<data, turns, calls, asked>>
        <3>1. CASE UNCHANGED <<checkpoint, data, turns>>
            BY <2>2, <3>1 DEF Checkpoint
        <3>2. CASE SaveCheckpoint(w)
            <4>1. at[w] \in DOMAIN Stage /\ OwnsClaim(w) /\ Active(w)
                BY <2>2, <3>2 DEF Checkpoint, SaveCheckpoint, Active, Loaded, Exits, Stage
            <4>2. at[w] = "save_finalizing" /\ item[w] = data
                BY <4>1 DEF Inv, Worker, AsActive, Stage
            <4> QED BY <2>2, <4>2, SMTT(30) DEF Checkpoint, Stage
        <3> QED BY <2>2, <3>1, <3>2 DEF Checkpoint
    <2>3. ASSUME NEW w \in Workers,
                 \/ Transition(w) \/ FailRun(w) \/ Save(w) \/ CreateRun(w) \/ RecoverPreparation(w)
                 \/ Admit(w) \/ AppendToolCall(w) \/ Control
          PROVE  checkpoint' = checkpoint /\ UNCHANGED <<data, turns, calls, asked>>
        BY <2>3 DEF Transition, FailRun, Save, CreateRun, RecoverPreparation, Admit, AppendToolCall, Control, input, world
    <2>4. ASSUME NEW w \in Workers, ScheduleRetry(w) PROVE checkpoint' = checkpoint /\ UNCHANGED <<data, turns, calls, asked>>
        BY <2>4 DEF ScheduleRetry, claimModelRetry, world
    <2>5. ASSUME NEW w \in Workers, SuspendApproval(w) PROVE checkpoint' = checkpoint /\ UNCHANGED <<data, turns, calls, asked>>
        <3>1. at[w] = "authorizing" /\ Active(w)
            BY <2>5 DEF SuspendApproval, Active, Loaded, Exits
        <3>2. ~OwnsClaim(w)
            BY <3>1 DEF Inv, Worker, AsActive
        <3> QED BY <2>5, <3>2 DEF SuspendApproval, world
    <2>6. ASSUME NEW w \in Workers PROVE ~ExecuteToolCall(w) /\ \A i \in Intents : ~ToolCallRequested(w, i)
        <3>1. ~Open(w)
            BY DEF Inv, Worker, Tied, Open
        <3> QED BY <3>1 DEF ExecuteToolCall, ToolCallRequested, Open, Turn, Sending
    <2>7. ASSUME NEW c \in Call, NEW decision \in {"approved", "refused"} PROVE ~Resolve(c, decision)
        BY DEF Inv, CallRows, Resolve
    <2>8. CASE Control
        BY <2>8 DEF Control, world
    <2> QED BY <2>1, <2>2, <2>3, <2>4, <2>5, <2>6, <2>7, <2>8, Writers DEF Writes
<1> QED BY <1>1, Invariance, PTL DEF Spec, AnswerIsFinal

\* Every write of the run's row follows the table, whoever makes it, and what
\* ended stays as it is.
THEOREM RunsFollowTheTable == Spec => RunFollowsTable
<1>1. Inv /\ [Next]_vars => [FollowsTable]_vars
    <2> SUFFICES ASSUME Inv, [Next]_vars PROVE FollowsTable
        OBVIOUS
    <2>1. CASE UNCHANGED written
        BY <2>1 DEF written, FollowsTable
    <2>2. ASSUME NEW s, ValidateRunStateTransition(run, s) PROVE run \notin RunEnded
        BY <2>2 DEF ValidateRunStateTransition, allowedTransitions, RunEnded
    <2>3. ASSUME NEW w \in Workers, Checkpoint(w) PROVE FollowsTable
        <3>1. UNCHANGED <<run, result, transcript, effect>>
            BY <2>3 DEF Checkpoint, row, records
        <3>2. ASSUME turns' # turns PROVE run \notin RunEnded
            <4>1. at[w] = "save_reserved" /\ lease = w /\ OwnsClaim(w) /\ Worker(w)
                BY <2>3, <3>2 DEF Checkpoint, SaveCheckpoint, Fenced, Inv
            <4>2. cur[w] \in Inference /\ (run = cur[w] \/ (run = "failed" /\ cur[w] = "model_running"))
                BY <4>1 DEF Worker, Place, InRun, Held, Early, Inference
            <4>3. run # "failed"
                BY <4>1, <4>2 DEF Worker, AsOwner, Held, Inference
            <4> QED BY <4>2, <4>3 DEF Inference, RunEnded
        <3> QED BY <3>1, <3>2 DEF FollowsTable
    <2>4. ASSUME NEW w \in Workers, Transition(w) PROVE FollowsTable
        <3>1. UNCHANGED <<result, transcript, turns, effect>>
            BY <2>4 DEF Transition, records, world
        <3>2. run' = run \/ ValidateRunStateTransition(run, run')
            BY <2>4 DEF Transition, UpdateRun, row
        <3> QED BY <2>2, <3>1, <3>2 DEF FollowsTable
    <2>5. ASSUME NEW w \in Workers, FailRun(w) PROVE FollowsTable
        <3>1. UNCHANGED <<result, transcript, turns, effect>>
            BY <2>5 DEF FailRun, records, world
        <3>2. run' = run \/ ValidateRunStateTransition(run, run')
            BY <2>5 DEF FailRun, row
        <3> QED BY <2>2, <3>1, <3>2 DEF FollowsTable
    <2>6. ASSUME NEW w \in Workers, Save(w) PROVE FollowsTable
        <3>1. UNCHANGED <<transcript, turns, effect>>
            BY <2>6 DEF Save, world
        <3>2. UNCHANGED <<run, result>> \/ (run = "finalizing" /\ run' = "completed")
            BY <2>6 DEF Save
        <3>3. ValidateRunStateTransition("finalizing", "completed")
            BY DEF ValidateRunStateTransition, allowedTransitions
        <3> QED BY <3>1, <3>2, <3>3 DEF FollowsTable, RunEnded
    <2>7. ASSUME NEW w \in Workers, CreateRun(w) PROVE FollowsTable
        BY <2>7 DEF CreateRun, records, world, FollowsTable, RunEnded
    <2>8. ASSUME NEW w \in Workers, RecoverPreparation(w) PROVE FollowsTable
        <3>1. run \in {"acquired", "preparing"} => turns = 0
            BY DEF Inv, Rows, Unstarted, Early
        <3> QED BY <2>8, <3>1 DEF RecoverPreparation, row, records, world, FollowsTable, RunEnded
    <2>9. ASSUME NEW w \in Workers, Admit(w) \/ ScheduleRetry(w) PROVE FollowsTable
        BY <2>9 DEF Admit, ScheduleRetry, row, records, world, FollowsTable
    <2>10. ASSUME NEW w \in Workers, SuspendApproval(w) PROVE FollowsTable
        <3>1. UNCHANGED <<result, transcript, turns, effect>>
            BY <2>10 DEF SuspendApproval, world
        <3>2. run' = run \/ (run = "tool_pending" /\ run' = "awaiting_approval")
            BY <2>10 DEF SuspendApproval
        <3>3. ValidateRunStateTransition("tool_pending", "awaiting_approval")
            BY DEF ValidateRunStateTransition, allowedTransitions
        <3> QED BY <3>1, <3>2, <3>3 DEF FollowsTable, RunEnded
    <2>11. ASSUME NEW w \in Workers, ExecuteToolCall(w) PROVE FollowsTable
        <3>1. UNCHANGED <<run, result, transcript, turns>>
            BY <2>11 DEF ExecuteToolCall, row, records
        <3>2. PICK r \in Replies : /\ r[1] # "none" => run = "tool_running"
                                  /\ effect' = [effect EXCEPT ![item[w]] = IF r[1] = "none" THEN @ ELSE r[1]]
            BY <2>11 DEF ExecuteToolCall
        <3>3. CASE r[1] = "none"
            <4>1. effect' = [effect EXCEPT ![item[w]] = effect[item[w]]] /\ effect \in [Call -> {"none", "known", "unknown"}]
                BY <3>2, <3>3 DEF Inv, Typed
            <4>2. effect' = effect
                BY <4>1
            <4> QED BY <3>1, <4>2 DEF FollowsTable
        <3>4. CASE r[1] # "none"
            BY <3>1, <3>2, <3>4 DEF FollowsTable, RunEnded
        <3> QED BY <3>3, <3>4
    <2>12. ASSUME NEW w \in Workers, AppendToolCall(w) PROVE FollowsTable
        <3>1. UNCHANGED <<run, result, turns, effect>>
            BY <2>12 DEF AppendToolCall, row, world
        <3>2. ASSUME transcript' # transcript PROVE run = "tool_running"
            <4>1. at[w] = "recording" /\ lease = w
                BY <2>12, <3>2 DEF AppendToolCall, Fenced
            <4> QED BY <4>1 DEF Inv, Worker, Place, InRun, Held, Early
        <3> QED BY <3>1, <3>2 DEF FollowsTable, RunEnded
    <2>13. ASSUME NEW w \in Workers, NEW i \in Intents, ToolCallRequested(w, i) PROVE FollowsTable
        BY <2>13 DEF ToolCallRequested, row, records, FollowsTable
    <2>14. ASSUME NEW c \in Call, NEW decision \in {"approved", "refused"}, Resolve(c, decision) PROVE FollowsTable
        BY <2>14 DEF Resolve, row, world, FollowsTable
    <2>15. CASE Control
        <3>1. UNCHANGED <<result, transcript, turns, effect>>
            BY <2>15 DEF Control, world
        <3>2. run' = run \/ (run \in States \ RunEnded /\ run' = "cancelled")
            BY <2>15 DEF Control, Inv, Typed
        <3>3. ASSUME run \in States \ RunEnded PROVE ValidateRunStateTransition(run, "cancelled")
            BY <3>3 DEF ValidateRunStateTransition, allowedTransitions, States, Early, Inference, RunEnded
        <3> QED BY <3>1, <3>2, <3>3 DEF FollowsTable
    <2> QED BY <2>1, <2>3, <2>4, <2>5, <2>6, <2>7, <2>8, <2>9, <2>10, <2>11, <2>12, <2>13, <2>14, <2>15, Writers DEF Writes
<1> QED BY <1>1, Invariance, PTL DEF Spec, RunFollowsTable

\* After the retry was claimed no call is sent whose equivalent went out before,
\* and a started retry is never claimed again.
THEOREM RetriesRepeatNothing == Spec => RetryRepeatsNothing
<1>1. Inv /\ [Next]_vars => [RepeatsNothing]_vars
    <2> SUFFICES ASSUME Inv, [Next]_vars PROVE RepeatsNothing
        OBVIOUS
    <2>1. CASE UNCHANGED <<asked, retry>>
        BY <2>1 DEF RepeatsNothing
    <2>2. ASSUME NEW w \in Workers, Admit(w) \/ ScheduleRetry(w) PROVE RepeatsNothing
        BY <2>2 DEF Admit, ScheduleRetry, claimModelRetry, world, RepeatsNothing
    <2>3. ASSUME NEW w \in Workers, ExecuteToolCall(w) PROVE RepeatsNothing
        <3>1. UNCHANGED retry /\ asked' = [asked EXCEPT ![item[w]] = @ + 1] /\ at[w] = "executing"
            BY <2>3 DEF ExecuteToolCall, input
        <3>2. item[w] = calls /\ (retry # "none" => NoTwin(calls))
            BY <3>1 DEF Inv, Worker, Tied, Sending
        <3>3. \A c \in Call : asked'[c] # asked[c] => c = calls
            BY <3>1, <3>2 DEF Inv, Typed
        <3> QED BY <3>1, <3>2, <3>3 DEF RepeatsNothing, NoTwin
    <2>4. ASSUME NEW w \in Workers,
                 \/ Checkpoint(w) \/ Transition(w) \/ FailRun(w) \/ Save(w) \/ CreateRun(w) \/ RecoverPreparation(w)
                 \/ SuspendApproval(w) \/ AppendToolCall(w) \/ \E i \in Intents : ToolCallRequested(w, i)
          PROVE  UNCHANGED <<asked, retry>>
        BY <2>4 DEF Checkpoint, Transition, FailRun, Save, CreateRun, RecoverPreparation, SuspendApproval, AppendToolCall,
                    ToolCallRequested, input, world
    <2>5. ASSUME Control \/ \E c \in Call, decision \in {"approved", "refused"} : Resolve(c, decision)
          PROVE  UNCHANGED <<asked, retry>>
        BY <2>5 DEF Control, Resolve, world
    <2>6. CASE UNCHANGED written
        BY <2>1, <2>6 DEF written
    <2> QED BY <2>1, <2>2, <2>3, <2>4, <2>5, <2>6, Writers DEF Writes
<1> QED BY <1>1, Invariance, PTL DEF Spec, RetryRepeatsNothing
=============================================================================
