------------------------------ MODULE Schedules ------------------------------
(***************************************************************************)
(* One scheduled job: the owner's controls, the sweepers that turn due     *)
(* slots into occurrences, the inputs and reminders these become, and the  *)
(* revision that fences them.                                              *)
(*                                                                         *)
(* Time is PostgreSQL's clock in coarse units.  A sweeper's transaction    *)
(* holds the job row from its first read to its commit and may wait at the *)
(* authority, source and budget checks; time passes meanwhile.  Source and *)
(* mandate rows are share-locked by the first check.                       *)
(***************************************************************************)
EXTENDS Naturals, Sequences, FiniteSets

CONSTANTS
    Sweepers,       \* maintenance loops, of one orchestrator or several
    Modes,          \* job.mode, with job.monitor; updates choose among them
    Channels,       \* channels of the session
    Timings,        \* [kind, n]: timing of the job; updates choose among them
    Grace,          \* grace_seconds
    Day,            \* length of the UTC day of the budgets
    Maximum,        \* max_occurrences a repeated job is created with
    Expiry,         \* expires_at of the new job
    Horizon,        \* bound: the clock stops
    MaxRevision,    \* bound: controls
    MaxFaults       \* bound: failed transactions, outages and changes of the source

Times == 1..Horizon
Never == 0

ASSUME SchedulesAssumption ==
    /\ Modes \subseteq {"agent_task", "monitor", "reminder"} /\ Channels \subseteq {"telegram", "web"}
    /\ Timings \subseteq [kind : {"once", "daily", "interval"}, n : Nat \ {0}, policy : {"coalesce", "skip"}]
    /\ Grace \in Nat /\ Day \in Nat \ {0} /\ Maximum \in Nat \ {0} /\ Expiry \in Nat \ {0}
    /\ Horizon \in Nat \ {0} /\ MaxRevision \in Nat \ {0} /\ MaxFaults \in Nat
    /\ "none" \notin Sweepers

VARIABLES
    now,
    channel, maximum,       \* the session's channel and the job's own maximum never change
    mode,
    state, revision, next_at, expires_at, timing, max_occurrences, occurrence_count,   \* the job row
    occurrences,    \* scheduled_occurrences, with the input or notice of each
    allowed,        \* source and authority checks pass
    holder,         \* the sweeper whose transaction holds the job row
    pc,             \* pc[w]: where the sweeper is
    tick,           \* what the holder computed from its first clock reading
    faults

job == <<state, revision, next_at, expires_at, timing, max_occurrences, occurrence_count>>
fixed == <<channel, maximum>>
sweeping == <<holder, pc, tick>>
vars == <<now, fixed, mode, job, occurrences, allowed, sweeping, faults>>

None == "none"
NoTick == [slot |-> Never, next |-> Never, observe |-> FALSE, day |-> 0]
Terminal == {"completed", "failed", "expired", "cancelled"}
InputStates == Terminal \cup {"queued", "running", "blocked", "outage"}
NoticeStates == {"pending", "sending", "cleared", "sent", "result_ready", "delivery_unknown", "undeliverable"}
Agent == mode \in {"agent_task", "monitor"}

TypeOK ==
    /\ now \in Times /\ channel \in Channels /\ maximum \in 1..Maximum /\ mode \in Modes
    /\ allowed \in BOOLEAN /\ faults \in 0..MaxFaults
    /\ state \in {"active", "paused", "blocked", "cancelled", "finished"}
    /\ revision \in 1..MaxRevision /\ next_at \in Nat /\ expires_at \in 1..Expiry
    /\ timing \in Timings /\ max_occurrences \in 1..maximum /\ occurrence_count \in 0..max_occurrences
    /\ holder \in Sweepers \cup {None}
    /\ pc \in [Sweepers -> {"idle", "listed", "checked", "admitting"}]
    /\ \A i \in DOMAIN occurrences :
        /\ occurrences[i].revision \in 1..revision
        /\ occurrences[i].state \in {"admitted", "notified", "skipped", "blocked"}
        /\ occurrences[i].work \in CASE occurrences[i].state = "admitted" -> InputStates
                                     [] occurrences[i].state = "notified" -> NoticeStates
                                     [] OTHER -> {None}

-----------------------------------------------------------------------------
(* The calendar (internal/scheduling) *)

\* Schedule.NextAfter.  Daily slots lie at the multiples of n.
NextAfter(t, at) ==
    CASE t.kind = "interval" -> at + t.n
      [] t.kind = "daily" -> (at \div t.n + 1) * t.n
      [] t.kind = "once" -> IF t.n > at THEN t.n ELSE Never

\* Schedule.Due: the latest slot that has come, the others being missed.
Latest(t, due, at) ==
    CASE t.kind = "interval" -> due + ((at - due) \div t.n) * t.n
      [] t.kind = "daily" -> (at \div t.n) * t.n
      [] t.kind = "once" -> due

InGrace(t, slot, at) == t.policy = "coalesce" \/ at - slot <= Grace

\* Mutant: the interval is forgotten.
Due_SameSlot(t, due, at) ==
    [slot |-> Latest(t, due, at), next |-> Latest(t, due, at), observe |-> TRUE, day |-> 0]

Due(t, due, at) ==
    LET latest == Latest(t, due, at)
    IN [slot |-> latest,
        next |-> IF t.kind = "interval" THEN latest + t.n ELSE NextAfter(t, at),
        observe |-> InGrace(t, latest, at),
        day |-> 0]

-----------------------------------------------------------------------------
(* The owner's controls *)

\* createTx
Init ==
    /\ now = 1 /\ channel \in Channels /\ mode \in Modes /\ allowed = TRUE /\ faults = 0
    /\ timing \in {t \in Timings : NextAfter(t, 1) # Never /\ NextAfter(t, 1) < Expiry}
    /\ next_at = NextAfter(timing, 1)
    /\ maximum = (IF timing.kind = "once" THEN 1 ELSE Maximum) /\ max_occurrences = maximum
    /\ state \in {"active", "paused"} /\ revision = 1 /\ expires_at = Expiry /\ occurrence_count = 0
    /\ occurrences = << >>
    /\ holder = None /\ pc = [w \in Sweepers |-> "idle"] /\ tick = NoTick

\* Mutant: only what has not started is retired.
Retired_Queued(work) == IF work = "queued" THEN "cancelled" ELSE work

\* InvalidateForScheduleTx
Retired(work) == IF work \in InputStates \ Terminal THEN "cancelled" ELSE work

\* invalidateInputsTx: the inputs of every other revision.
Invalidated == [i \in DOMAIN occurrences |-> [occurrences[i] EXCEPT !.work = Retired(@)]]

\* Mutant: the new timing starts at once.
Resumed_Now(t) == now

\* The due time of an updated job: unchanged timing keeps the saved one.
Resumed(t) == IF t = timing /\ next_at # Never THEN next_at ELSE NextAfter(t, now)

\* ApplyTx with changeTx waits for the job row.  A stale expected revision and a
\* repeated effect leave no trace.
Change ==
    /\ holder = None /\ revision < MaxRevision /\ state # "cancelled"
    /\ revision' = revision + 1
    /\ occurrences' = Invalidated
    /\ UNCHANGED <<now, fixed, occurrence_count, allowed, sweeping, faults>>

Cancel ==
    /\ Change
    /\ state' = "cancelled" /\ next_at' = Never
    /\ UNCHANGED <<mode, expires_at, timing, max_occurrences>>

\* Mutant: the replacement is only checked against the original maximum.
Enough_Maximum(m) == TRUE

Enough(m) == m > occurrence_count

\* The whole specification is replaced, the job's own maximum stays.
Update ==
    /\ Change /\ state # "finished"
    /\ mode' \in Modes
    /\ \E t \in Timings, m \in 1..maximum, e \in {expires_at, expires_at - 1}, s \in {"active", "paused"} :
        /\ Enough(m) /\ (t.kind = "once" => m = 1) /\ e > now
        /\ Resumed(t) # Never /\ Resumed(t) < e
        /\ timing' = t /\ max_occurrences' = m /\ expires_at' = e
        /\ state' = s /\ next_at' = Resumed(t)

-----------------------------------------------------------------------------
(* The sweepers *)

\* The query of Sweep, and the hint advance reads before it locks anything.
List(w) ==
    /\ pc[w] = "idle" /\ state = "active" /\ (next_at <= now \/ expires_at <= now)
    /\ pc' = [pc EXCEPT ![w] = "listed"]
    /\ UNCHANGED <<now, fixed, mode, job, occurrences, allowed, holder, tick, faults>>

\* The transaction ends, by commit or rollback.
Leave(w) ==
    /\ holder' = None /\ tick' = NoTick
    /\ pc' = [pc EXCEPT ![w] = "idle"]

Expired == expires_at <= now

\* record: one row per revision and slot.
Record(s, work) ==
    LET slot == IF tick = NoTick THEN Latest(timing, next_at, now) ELSE tick.slot
    IN
    /\ \A i \in DOMAIN occurrences : occurrences[i].revision = revision => occurrences[i].slot # slot
    /\ occurrences' = Append(occurrences, [revision |-> revision, slot |-> slot, state |-> s, work |-> work,
                                           made |-> now, expires |-> expires_at, arrived |-> 0])

\* block: the slot stays due, the job waits for an update.
Block(w) ==
    /\ Record("blocked", None)
    /\ state' = "blocked"
    /\ Leave(w)
    /\ UNCHANGED <<revision, next_at, expires_at, timing, max_occurrences, occurrence_count>>

FinishExpired(w) ==
    /\ state' = "finished" /\ next_at' = Never
    /\ Leave(w)
    /\ UNCHANGED <<revision, expires_at, timing, max_occurrences, occurrence_count, occurrences>>

\* advance up to the first source and authority checks.  That the session is
\* another owner's or the timing invalid, which the checks on creation exclude,
\* is an error like those of Rollback.
Lock(w) ==
    /\ pc[w] = "listed" /\ holder = None
    /\ \/ /\ state # "active" \/ (~Expired /\ (next_at = Never \/ next_at > now))
          /\ Leave(w) /\ UNCHANGED <<job, occurrences>>
       \/ /\ state = "active" /\ Expired /\ FinishExpired(w)
       \/ /\ state = "active" /\ ~Expired /\ next_at # Never /\ next_at <= now
          /\ \/ /\ ~allowed /\ Block(w)
             \/ /\ allowed
                /\ holder' = w /\ pc' = [pc EXCEPT ![w] = "checked"]
                /\ tick' = Due(timing, next_at, now)
                /\ UNCHANGED <<job, occurrences>>
    /\ UNCHANGED <<now, fixed, mode, allowed, faults>>

\* An unfinished input of this schedule; a monitor passes over an outage.
Busy ==
    \E i \in DOMAIN occurrences :
        occurrences[i].work \in InputStates \ (Terminal \cup IF mode = "monitor" THEN {"outage"} ELSE {})

LastOne == occurrence_count + 1 >= max_occurrences

\* The end of advance: the slot is consumed.
Consume(w) ==
    LET over == tick.next = Never \/ tick.next >= expires_at \/ LastOne
    IN
    /\ state' = IF over THEN "finished" ELSE "active"
    /\ next_at' = IF over THEN Never ELSE tick.next
    /\ occurrence_count' = occurrence_count + 1
    /\ Leave(w)
    /\ UNCHANGED <<revision, expires_at, timing, max_occurrences>>

\* After the authority locks: the clock again, then skip, remind, or go on.
Recheck(w) ==
    /\ pc[w] = "checked"
    /\ \/ Expired /\ FinishExpired(w)
       \/ /\ ~Expired
          /\ LET observe == tick.observe /\ InGrace(timing, tick.slot, now) IN
             \/ /\ ~observe \/ Busy
                /\ Record("skipped", None) /\ Consume(w)
             \/ /\ observe /\ ~Busy /\ ~Agent
                /\ Record("notified", IF channel = "telegram" THEN "pending" ELSE "result_ready") /\ Consume(w)
             \/ /\ observe /\ ~Busy /\ Agent
                /\ pc' = [pc EXCEPT ![w] = "admitting"]
                /\ tick' = [tick EXCEPT !.day = now \div Day]
                /\ UNCHANGED <<job, holder, occurrences>>
    /\ UNCHANGED <<now, fixed, mode, allowed, faults>>

\* The authority at the new time, an unknown effect of an earlier occurrence, or
\* the prospective budget (external).
Refuse(w) ==
    /\ faults < MaxFaults /\ faults' = faults + 1
    /\ \/ pc[w] = "admitting"
       \/ pc[w] = "checked" /\ ~Expired
    /\ Block(w)
    /\ UNCHANGED <<now, fixed, mode, allowed>>

\* Mutant: the grace is not looked at again.
Late_Unchecked == FALSE

\* A wait has crossed the grace of a slot that is not to be made up for.
Late == ~InGrace(timing, tick.slot, now)

\* After the budget locks: the clock once more, and the admission.
Admit(w) ==
    /\ pc[w] = "admitting"
    /\ \/ /\ now \div Day # tick.day
          /\ Leave(w) /\ UNCHANGED <<job, occurrences>>
       \/ /\ now \div Day = tick.day /\ Expired /\ Block(w)
       \/ /\ now \div Day = tick.day /\ ~Expired
          /\ IF Late THEN Record("skipped", None) ELSE Record("admitted", "queued")
          /\ Consume(w)
    /\ UNCHANGED <<now, fixed, mode, allowed, faults>>

\* A statement fails or the process dies: the transaction is rolled back.
Rollback(w) ==
    /\ pc[w] # "idle" /\ faults < MaxFaults
    /\ faults' = faults + 1
    /\ pc' = [pc EXCEPT ![w] = "idle"]
    /\ IF holder = w THEN holder' = None /\ tick' = NoTick ELSE UNCHANGED <<holder, tick>>
    /\ UNCHANGED <<now, fixed, mode, job, occurrences, allowed>>

-----------------------------------------------------------------------------
(* What becomes of an occurrence *)

Work(i, from, to) ==
    /\ occurrences[i].work \in from
    /\ occurrences' = [occurrences EXCEPT ![i].work = to]
    /\ UNCHANGED <<now, fixed, mode, job, allowed, sweeping>>

\* The head of the session is claimed.
Claim(i) ==
    /\ \A k \in 1..(i - 1) : occurrences[k].work \notin InputStates \ Terminal
    /\ Work(i, {"queued"}, "running") /\ UNCHANGED faults

\* butler_task_check_schedule, under a share lock of the job.
TaskCheck(i) ==
    /\ holder = None
    /\ occurrences[i].revision = revision /\ state \notin {"paused", "blocked", "cancelled"}
    /\ ~Expired /\ allowed

\* The answer is published, or the attempt ends otherwise.
Finish(i) ==
    \/ TaskCheck(i) /\ Work(i, {"running"}, "completed") /\ UNCHANGED faults
    \/ \E s \in {"failed", "blocked"} : Work(i, {"running"}, s) /\ UNCHANGED faults

\* The provider cannot be reached: the input is blocked with the code of an outage.
Outage(i) ==
    /\ faults < MaxFaults /\ faults' = faults + 1
    /\ Work(i, {"running"}, "outage")

\* ExpireQueued
ExpireInput(i) == Work(i, {"queued"}, "expired") /\ UNCHANGED faults

\* The owner resolves what is blocked.
Resolve(i) == Work(i, {"blocked", "outage"}, "cancelled") /\ UNCHANGED faults

\* ReminderStore.Claim first fails what the job has moved away from.
ClaimNotice(i) ==
    LET changed == occurrences[i].revision # revision \/ state \in {"paused", "blocked", "cancelled"} \/ Expired
    IN Work(i, {"pending"}, IF changed THEN "undeliverable" ELSE "sending") /\ UNCHANGED faults

\* ReminderStore.AuthorizeSend, under a share lock of the job, too.
AuthorizeSend(i) ==
    /\ TaskCheck(i)
    /\ Work(i, {"sending"}, "cleared") /\ UNCHANGED faults

Abandoned == "delivery_unknown"

\* SendStored and Finish.  The message arrives with or without a receipt, or not.
Send(i) ==
    /\ occurrences[i].work = "cleared"
    /\ \E o \in {[arrived |-> 1, work |-> "sent"], [arrived |-> 1, work |-> Abandoned],
                 [arrived |-> 0, work |-> Abandoned], [arrived |-> 0, work |-> "pending"],
                 [arrived |-> 0, work |-> "undeliverable"]} :
        occurrences' = [occurrences EXCEPT ![i].work = o.work, ![i].arrived = @ + o.arrived]
    /\ UNCHANGED <<now, fixed, mode, job, allowed, sweeping, faults>>

\* The claim runs out before the message is handed over.
ClaimExpires(i) == Work(i, {"sending"}, Abandoned) /\ UNCHANGED faults

-----------------------------------------------------------------------------
\* Nobody changes rows a sweeper has share-locked.
SourceChanges ==
    /\ holder = None /\ faults < MaxFaults
    /\ faults' = faults + 1
    /\ allowed' = ~allowed
    /\ UNCHANGED <<now, fixed, mode, job, occurrences, sweeping>>

Clock ==
    /\ now < Horizon
    /\ now' = now + 1
    /\ UNCHANGED <<fixed, mode, job, occurrences, allowed, sweeping, faults>>

Sweep(w) == List(w) \/ Lock(w) \/ Recheck(w) \/ Admit(w)

\* The input workers and the delivery worker.
Progress(i) == Claim(i) \/ Finish(i) \/ ClaimNotice(i) \/ AuthorizeSend(i) \/ Send(i)

Next ==
    \/ Cancel \/ Update \/ SourceChanges \/ Clock
    \/ \E w \in Sweepers : Sweep(w) \/ Refuse(w) \/ Rollback(w)
    \/ \E i \in DOMAIN occurrences : Progress(i) \/ Outage(i) \/ ExpireInput(i) \/ Resolve(i) \/ ClaimExpires(i)

Spec == Init /\ [][Next]_vars

\* Maintenance runs every second and inputs and reminders have their workers;
\* owners need not act.
FairSpec ==
    /\ Spec
    /\ \A w \in Sweepers : WF_vars(Sweep(w))
    /\ WF_vars(\E i \in DOMAIN occurrences : Progress(i))

-----------------------------------------------------------------------------
(* Properties *)

Consumed == {i \in DOMAIN occurrences : occurrences[i].state # "blocked"}

\* No slot is served twice, by whichever sweeper and revision: the slots consumed
\* lie in order of time, none in the future, and a reminder arrives at most once
\* (worker.go:134-149, store.go:348-356).
SlotsServedOnce ==
    /\ \A i, k \in Consumed : i < k => occurrences[i].slot < occurrences[k].slot
    /\ \A i \in DOMAIN occurrences : occurrences[i].slot <= occurrences[i].made /\ occurrences[i].arrived <= 1

\* "Each consumed slot, including a skip, counts toward the finite maximum" and an
\* update neither resets the count nor raises it over the original maximum
\* (agent-schedules.md): across all revisions.
UsageBounded ==
    /\ TypeOK
    /\ occurrence_count = Cardinality(Consumed) /\ occurrence_count <= max_occurrences
    /\ max_occurrences <= maximum
    /\ state \in {"active", "paused", "blocked"} => occurrence_count < max_occurrences /\ next_at # Never

\* "One unfinished input per schedule prevents overlap", and of an earlier
\* revision there is none: a control retires them in its own transaction.
OneUnfinished ==
    LET open == {i \in DOMAIN occurrences : occurrences[i].work \in InputStates \ Terminal}
    IN /\ Cardinality({i \in open : mode = "monitor" => occurrences[i].work # "outage"}) <= 1
       /\ \A i \in open : occurrences[i].revision = revision

\* "Fresh PostgreSQL time is checked after authority/budget waits": no wait carries
\* an admission past the expiry or the grace of its slot.
AdmittedInTime ==
    \A i \in DOMAIN occurrences :
        LET o == occurrences[i] IN
        o.state \in {"admitted", "notified"} =>
            /\ o.made < o.expires
            /\ o.revision = revision => InGrace(timing, o.slot, o.made)

\* A due or expired job does not stay that way, whatever failed before: it is
\* served, blocked, finished, or taken out by a control.
DueIsServed == (state = "active" /\ (next_at <= now \/ Expired)) ~> (state # "active" \/ (next_at > now /\ ~Expired))

\* "A monitor may attempt a later finite slot after a known provider outage when
\* the old claim/lease has ended" (research-followups.md:106): no input of the same
\* schedule stands before an admitted one, where Claim never passes it.
LaterSlotCanStart ==
    \A i, k \in DOMAIN occurrences :
        k < i /\ occurrences[i].work = "queued" => occurrences[k].work \notin InputStates \ Terminal
=============================================================================
