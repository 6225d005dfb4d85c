-------------------------- MODULE InputQueueProofs --------------------------
(***************************************************************************)
(* Proofs about InputQueue for every number of inputs, sessions, workers   *)
(* and attempts: inputs of a session run in their order, what is closed    *)
(* stays closed, a completed receipt is true, and a decision and Finish    *)
(* do not miss each other.                                                 *)
(***************************************************************************)
EXTENDS InputQueue, TLAPS

USE SMTT(30), ZenonT(30)

Executing == {"starting", "resuming", "leasing", "leased", "finalizing"}
Leaving == {"returning", "returned"}
GivenUp == {"expired", "retry_exhausted"}

\* A worker away from its poll works on an input, and leaves with a result.
WorkersBound ==
    \A w \in Workers :
        /\ worker[w].at # "idle" => worker[w].input \in Input
        /\ worker[w].at \in Leaving => worker[w].result \in Results

\* A live claim is that of a running input, held by the worker that works on it
\* with the attempt number it was given, or by nobody any more.
ClaimsHeld ==
    \A i \in Input : claim_live[i] =>
        /\ status[i] = "running" /\ claim_id[i] \in Workers \cup {Orphan}
        /\ claim_id[i] \in Workers =>
              /\ worker[claim_id[i]].at # "idle" /\ worker[claim_id[i]].input = i
              /\ worker[claim_id[i]].attempts = attempts[i]

\* Nobody has worked on an input that is not accepted or waits for its target.
Untouched ==
    \A i \in Input : status[i] = "none" \/ ambiguous[i] =>
        /\ status[i] \in {"none", "waiting_for_user", "cancelled"}
        /\ run[i] = "none" /\ approval[i] = "none"
        /\ \A w \in Workers : worker[w].at # "idle" => worker[w].input # i

\* A run that an owner's control left unfinished cannot get to work any more.
CancelledRuns ==
    \A i \in Input : status[i] = "cancelled" => run[i] \in {"none", "early"} \cup RunEnded

\* What a worker is about to report of its input.
Reported(w) ==
    /\ worker[w].result = "completed" => run[worker[w].input] = "completed"
    /\ worker[w].result = "waiting_for_user" /\ OwnsClaim(w) =>
          approval[worker[w].input] = "pending" \/ checkpoint[worker[w].input] = "approval_ready"

ReportsHold == \A w \in Workers : worker[w].at \in Leaving => Reported(w)

\* Only a worker that is about to give an input up holds an attempt beyond
\* max_attempts.
AttemptsInHand ==
    \A w \in Workers :
        /\ worker[w].at \in Executing => worker[w].attempts <= MaxAttempts
        /\ worker[w].at \in Leaving => worker[w].attempts <= MaxAttempts \/ worker[w].result \in GivenUp

\* A claim is in the hands of a worker that can still finish it.
InHands(i) == claim_live[i] /\ claim_id[i] \in Workers

\* Each crash and each stall costs at most one attempt beyond max_attempts.
AttemptsSpent ==
    \A i \in Input :
        /\ attempts[i] <= MaxAttempts + 1 + crashes + stalls
        /\ status[i] \notin Terminal /\ ~InHands(i) => attempts[i] <= MaxAttempts + crashes + stalls

WorkerRecords ==
    [at : Places, input : 0..Inputs, attempts : Nat, counted : BOOLEAN, result : Results \cup {"none"}]

\* TypeOK without the bound on attempts, which AttemptsSpent gives.
Typed ==
    /\ status \in [Input -> {"none", "queued", "running"} \cup Parked \cup Terminal]
    /\ checkpoint \in [Input -> {"accepted", "progress", "awaiting_approval", "approval_ready"}]
    /\ ambiguous \in [Input -> BOOLEAN]
    /\ attempts \in [Input -> Nat]
    /\ claim_id \in [Input -> Workers \cup {Nobody, Orphan}]
    /\ claim_live \in [Input -> BOOLEAN]
    /\ overdue \in [Input -> BOOLEAN]
    /\ run \in [Input -> {"none", "early", "active", "awaiting_approval"} \cup RunEnded]
    /\ approval \in [Input -> {"none", "pending", "approved", "refused"}]
    /\ approval_due \in [Input -> BOOLEAN]
    /\ lease \in [Sessions -> Workers \cup {Nobody, Orphan}]
    /\ worker \in [Workers -> WorkerRecords]
    /\ sweep \subseteq Input
    /\ suspends \in [Input -> 0..MaxSuspends]
    /\ crashes \in 0..MaxCrashes /\ stalls \in 0..MaxStalls
    /\ executions \in [Input -> 0..(MaxAttempts + 1)]

Parking ==
    \A i \in Input : status[i] = "waiting_for_user" => ambiguous[i] \/ approval[i] = "pending"

\* The inductive invariant.
Inv ==
    /\ Typed /\ WorkersBound /\ ClaimsHeld /\ Untouched /\ CancelledRuns /\ ReportsHold
    /\ AttemptsInHand /\ AttemptsSpent /\ HeadOnly /\ ReceiptsAreTrue /\ Parking

-----------------------------------------------------------------------------
LEMMA InputFacts ==
    /\ Input \subseteq 0..Inputs /\ Input \subseteq Nat /\ MaxAttempts \in Nat
    /\ MaxCrashes \in Nat /\ MaxStalls \in Nat /\ MaxSuspends \in Nat
    /\ \A i \in Input : Session[i] \in Sessions /\ Earlier(i) \subseteq Input
BY QueueAssumption DEF Input, Sessions, Earlier

-----------------------------------------------------------------------------
(* The steps of a worker on its input *)

\* Worker w has moved to place a with result r; everything else of it is kept.
Moved(w, a, r) ==
    /\ worker' \in [Workers -> WorkerRecords]
    /\ worker'[w].at = a /\ worker'[w].result = r
    /\ worker'[w].input = worker[w].input /\ worker'[w].attempts = worker[w].attempts
    /\ \A v \in Workers \ {w} : worker'[v] = worker[v]

\* What all steps of process between the claim and Finish have in common: they
\* touch one input, and of it only the run, the checkpoint and the approval.
OwnMove(w, a, r) ==
    LET i == worker[w].input IN
    /\ worker[w].at # "idle" /\ Moved(w, a, r) /\ a \in Executing \cup Leaving
    /\ UNCHANGED <<status, ambiguous, attempts, claim_id, claim_live, stalls>>
    /\ crashes' \in Nat /\ crashes <= crashes'
    /\ \A k \in Input \ {i} : run'[k] = run[k] /\ approval'[k] = approval[k] /\ checkpoint'[k] = checkpoint[k]
    /\ run[i] \in RunEnded => run'[i] = run[i]
    /\ run[i] \in {"none", "early"} => run'[i] \in {"none", "early"} \cup RunEnded \/ OwnsClaim(w)
    /\ approval[i] = "pending" => approval'[i] = "pending"
    /\ checkpoint'[i] # checkpoint[i] => OwnsClaim(w)
    /\ worker[w].attempts <= MaxAttempts \/ (a \in Leaving /\ r \in GivenUp)
    /\ a \in Leaving =>
          /\ r \in Results
          /\ r = "completed" => run'[i] = "completed"
          /\ r = "waiting_for_user" /\ OwnsClaim(w) => approval'[i] = "pending" \/ checkpoint'[i] = "approval_ready"

LEMMA MoveRecord ==
    ASSUME Typed, NEW w \in Workers, NEW a \in Places, NEW r \in Results \cup {"none"}
    PROVE  /\ worker' = [worker EXCEPT ![w].at = a, ![w].result = r] => Moved(w, a, r)
           /\ worker' = [worker EXCEPT ![w].at = a] => Moved(w, a, worker[w].result)
BY DEF Typed, WorkerRecords, Moved

\* Such a step keeps everything the invariant says beyond types.
LEMMA OwnMoveOK ==
    ASSUME Inv, NEW w \in Workers, NEW a, NEW r, OwnMove(w, a, r), Typed' PROVE Inv'
<1> DEFINE i == worker[w].input
<1>1. i \in Input /\ worker[w].at # "idle"
    BY DEF Inv, WorkersBound, OwnMove
<1>2. /\ worker'[w].at = a /\ worker'[w].result = r /\ worker'[w].input = i
      /\ worker'[w].attempts = worker[w].attempts /\ \A v \in Workers \ {w} : worker'[v] = worker[v]
    BY DEF OwnMove, Moved
<1>3. a \in Executing \cup Leaving /\ a # "idle" /\ (a \in Leaving => r \in Results)
    BY DEF OwnMove, Executing, Leaving
<1>4. /\ UNCHANGED <<status, ambiguous, attempts, claim_id, claim_live, stalls>>
      /\ crashes' \in Nat /\ crashes <= crashes'
    BY DEF OwnMove
<1>5. \A k \in Input \ {i} : run'[k] = run[k] /\ approval'[k] = approval[k] /\ checkpoint'[k] = checkpoint[k]
    BY DEF OwnMove
<1>6. WorkersBound'
    BY <1>1, <1>2, <1>3 DEF Inv, WorkersBound
<1>7. ClaimsHeld'
    <2> SUFFICES ASSUME NEW k \in Input, claim_live[k], claim_id[k] \in Workers
                 PROVE  /\ worker'[claim_id[k]].at # "idle" /\ worker'[claim_id[k]].input = k
                        /\ worker'[claim_id[k]].attempts = attempts[k]
        BY <1>4 DEF Inv, ClaimsHeld
    <2> QED BY <1>1, <1>2, <1>3 DEF Inv, ClaimsHeld
<1>8. Untouched'
    <2> SUFFICES ASSUME NEW k \in Input, status[k] = "none" \/ ambiguous[k]
                 PROVE  /\ status[k] \in {"none", "waiting_for_user", "cancelled"}
                        /\ run'[k] = "none" /\ approval'[k] = "none"
                        /\ \A v \in Workers : worker'[v].at # "idle" => worker'[v].input # k
        BY <1>4 DEF Untouched
    <2>1. k # i
        BY <1>1 DEF Inv, Untouched
    <2> QED BY <2>1, <1>1, <1>2, <1>5 DEF Inv, Untouched
<1>9. CancelledRuns'
    <2> SUFFICES ASSUME NEW k \in Input, status[k] = "cancelled"
                 PROVE  run'[k] \in {"none", "early"} \cup RunEnded
        BY <1>4 DEF CancelledRuns
    <2>1. run[k] \in {"none", "early"} \cup RunEnded
        BY DEF Inv, CancelledRuns
    <2>2. CASE k # i
        BY <2>1, <2>2, <1>5
    <2>3. CASE k = i
        BY <2>1, <2>3 DEF OwnMove, OwnsClaim
    <2> QED BY <2>2, <2>3
<1>10. ReportsHold'
    <2> SUFFICES ASSUME NEW v \in Workers, worker'[v].at \in Leaving PROVE Reported(v)'
        BY DEF ReportsHold
    <2>1. CASE v = w
        <3>1. /\ r = "completed" => run'[i] = "completed"
              /\ r = "waiting_for_user" /\ OwnsClaim(w) => approval'[i] = "pending" \/ checkpoint'[i] = "approval_ready"
            BY <2>1, <1>2 DEF OwnMove
        <3>2. OwnsClaim(w)' <=> OwnsClaim(w)
            BY <1>2, <1>4 DEF OwnsClaim
        <3> QED BY <2>1, <3>1, <3>2, <1>2 DEF Reported
    <2>2. CASE v # w
        <3> DEFINE k == worker[v].input
        <3>1. worker'[v] = worker[v] /\ worker[v].at \in Leaving /\ k \in Input /\ Reported(v)
            BY <2>2, <1>2 DEF Inv, ReportsHold, WorkersBound, Leaving
        <3>2. OwnsClaim(v)' <=> OwnsClaim(v)
            BY <3>1, <1>4 DEF OwnsClaim
        <3>3. run[k] = "completed" => run'[k] = "completed"
            BY <3>1, <1>5 DEF OwnMove, RunEnded
        <3>4. approval[k] = "pending" => approval'[k] = "pending"
            BY <3>1, <1>5 DEF OwnMove
        <3>5. OwnsClaim(v) => checkpoint'[k] = checkpoint[k]
            BY <3>1, <1>5, <2>2 DEF OwnMove, OwnsClaim
        <3> QED BY <3>1, <3>2, <3>3, <3>4, <3>5 DEF Reported
    <2> QED BY <2>1, <2>2
<1>11. AttemptsInHand'
    <2>1. worker[w].attempts <= MaxAttempts \/ (a \in Leaving /\ r \in GivenUp)
        BY DEF OwnMove
    <2> QED BY <2>1, <1>2 DEF Inv, AttemptsInHand, Executing, Leaving
<1>12. AttemptsSpent'
    <2>1. attempts \in [Input -> Nat] /\ crashes \in Nat /\ stalls \in Nat
        BY InputFacts DEF Inv, Typed
    <2> QED BY <2>1, <1>4, InputFacts DEF Inv, AttemptsSpent, InHands
<1>13. (HeadOnly /\ ReceiptsAreTrue /\ Parking)'
    BY <1>1, <1>4, <1>5 DEF Inv, OwnMove, HeadOnly, ReceiptsAreTrue, Parking, RunEnded
<1> QED BY <1>6, <1>7, <1>8, <1>9, <1>10, <1>11, <1>12, <1>13 DEF Inv

\* The facts every worker step starts from.
LEMMA AtWork ==
    ASSUME Inv, NEW w \in Workers, worker[w].at # "idle"
    PROVE  /\ worker[w].input \in Input /\ Session[worker[w].input] \in Sessions
           /\ worker[w].attempts \in Nat /\ worker[w].result \in Results \cup {"none"}
           /\ worker[w].at \in Executing => worker[w].attempts <= MaxAttempts
           /\ crashes \in Nat /\ Typed
<1>1. worker[w] \in WorkerRecords /\ crashes \in Nat
    BY InputFacts DEF Inv, Typed
<1> QED BY <1>1, InputFacts DEF Inv, WorkersBound, AttemptsInHand, WorkerRecords

\* Moves that change nothing but the worker, the lease and the counters.
LEMMA QuietMove ==
    ASSUME Inv, NEW w \in Workers, worker[w].at # "idle", NEW a \in Executing \cup Leaving, NEW r, Moved(w, a, r),
           UNCHANGED <<columns, run, approval, stalls>>, crashes' \in Nat, crashes <= crashes',
           worker[w].attempts <= MaxAttempts \/ (a \in Leaving /\ r \in GivenUp),
           a \in Leaving => r \in Results,
           a \in Leaving /\ r = "completed" => run[worker[w].input] = "completed",
           a \in Leaving /\ r = "waiting_for_user" /\ OwnsClaim(w) =>
               approval[worker[w].input] = "pending" \/ checkpoint[worker[w].input] = "approval_ready"
    PROVE  OwnMove(w, a, r)
BY DEF OwnMove, columns

LEMMA PlaceNames ==
    /\ Executing \cup Leaving \subseteq Places /\ Executing \cap Leaving = {}
    /\ "returned" \in Leaving /\ "returning" \in Leaving /\ "idle" \notin Executing \cup Leaving
    /\ \A a \in {"starting", "resuming", "leasing", "leased", "finalizing"} : a \in Executing
    /\ GivenUp \subseteq Results
BY DEF Executing, Leaving, Places, GivenUp, Results

LEMMA ProcessOK ==
    ASSUME Inv, NEW w \in Workers, Process(w) PROVE Inv'
<1> DEFINE i == worker[w].input
<1>1. /\ worker[w].at # "idle"
      /\ UNCHANGED <<columns, run, approval, approval_due, lease, sweep, suspends, crashes, stalls, executions>>
    BY DEF Process
<1>2. UNCHANGED <<columns, run, approval, stalls>> /\ crashes' \in Nat /\ crashes <= crashes'
    BY <1>1, AtWork
<1>3. ASSUME NEW a \in Executing, worker[w].attempts <= MaxAttempts, worker' = [worker EXCEPT ![w].at = a]
      PROVE  \E b, r : OwnMove(w, b, r)
    <2>1. Moved(w, a, worker[w].result)
        BY ZenonT(30), <1>1, <1>3, AtWork, MoveRecord, PlaceNames
    <2> QED BY <2>1, <1>1, <1>2, <1>3, QuietMove, PlaceNames
<1>4. ASSUME NEW r \in Results \ {"waiting_for_user"}, worker' = Return(w, r),
             worker[w].attempts <= MaxAttempts \/ r \in GivenUp, r = "completed" => run[i] = "completed"
      PROVE  \E b, q : OwnMove(w, b, q)
    <2>1. Moved(w, "returned", r)
        BY ZenonT(30), <1>1, <1>4, AtWork, MoveRecord, PlaceNames DEF Return
    <2> QED BY <2>1, <1>1, <1>2, <1>4, QuietMove, PlaceNames
<1>5. PICK a, r : OwnMove(w, a, r)
    <2>0. CASE worker' = Return(w, "blocked") /\ worker[w].attempts <= MaxAttempts
        BY <2>0, <1>4 DEF Results
    <2>1. CASE overdue[i]
        <3>1. worker' = Return(w, "expired")
            BY <2>1 DEF Process
        <3> QED BY <3>1, <1>4 DEF Results, GivenUp
    <2>2. CASE ~overdue[i] /\ worker[w].attempts > MaxAttempts
        <3>1. worker' = Return(w, "retry_exhausted")
            BY <2>2, <1>1, AtWork, InputFacts DEF Process
        <3> QED BY <3>1, <1>4 DEF Results, GivenUp
    <2>3. CASE /\ ~overdue[i] /\ ~(worker[w].attempts > MaxAttempts)
               /\ ~(worker' = Return(w, "blocked") /\ worker[w].attempts <= MaxAttempts)
        <3>1. worker[w].attempts <= MaxAttempts
            BY <1>1, <2>3, AtWork, InputFacts
        <3>2. CASE run[i] = "completed"
            <4>1. worker' = Return(w, "completed")
                BY <2>3, <3>2 DEF Process
            <4> QED BY <4>1, <3>1, <3>2, <1>4 DEF Results
        <3>3. CASE run[i] \in {"failed", "cancelled"}
            <4>1. worker' = Return(w, "prior_attempt_terminal")
                BY <2>3, <3>3 DEF Process
            <4> QED BY <4>1, <3>1, <1>4 DEF Results
        <3>4. CASE run[i] \notin {"completed", "failed", "cancelled"}
            <4>1. worker' = [worker EXCEPT ![w].at = "starting"] \/ worker' = [worker EXCEPT ![w].at = "resuming"]
                BY <2>3, <3>4 DEF Process
            <4> QED BY <4>1, <3>1, <1>3, PlaceNames
        <3> QED BY <3>2, <3>3, <3>4
    <2> QED BY <2>0, <2>1, <2>2, <2>3
<1>6. Typed'
    BY <1>1, <1>5 DEF Inv, Typed, OwnMove, Moved, columns
<1> QED BY <1>5, <1>6, OwnMoveOK

LEMMA StartOK ==
    ASSUME Inv, NEW w \in Workers, Start(w) PROVE Inv'
<1> DEFINE i == worker[w].input
<1>1. worker[w].at # "idle" /\ worker[w].at \in Executing
    BY DEF Start, Executing
<1>2. run' = [run EXCEPT ![i] = IF @ = "none" THEN "early" ELSE @]
    BY DEF Start
<1>3. UNCHANGED <<status, ambiguous, attempts, claim_id, claim_live, overdue, approval, approval_due,
                  lease, sweep, suspends, crashes, stalls, executions>>
    BY DEF Start
<1>4. (checkpoint' = [checkpoint EXCEPT ![i] = "progress"] /\ OwnsClaim(w)) \/ checkpoint' = checkpoint
    BY DEF Start
<1>5. Moved(w, "leasing", worker[w].result) \/ Moved(w, "returned", "error")
    BY ZenonT(30), <1>1, AtWork, MoveRecord DEF Start, Return, Places, Results
<1>6. run \in [Input -> {"none", "early", "active", "awaiting_approval"} \cup RunEnded]
    BY DEF Inv, Typed
<1>9. /\ \A k \in Input \ {i} : run'[k] = run[k] /\ checkpoint'[k] = checkpoint[k]
      /\ run[i] \in RunEnded => run'[i] = run[i]
      /\ run[i] \in {"none", "early"} => run'[i] \in {"none", "early"}
      /\ checkpoint'[i] # checkpoint[i] => OwnsClaim(w)
    BY <1>1, <1>2, <1>4, <1>6, AtWork DEF RunEnded, Inv, Typed
<1>7. PICK a, r : OwnMove(w, a, r)
    <2>1. CASE Moved(w, "leasing", worker[w].result)
        <3>1. OwnMove(w, "leasing", worker[w].result)
            BY <1>1, <1>3, <1>9, <2>1, AtWork, PlaceNames DEF OwnMove
        <3> QED BY <3>1
    <2>2. CASE Moved(w, "returned", "error")
        <3>1. OwnMove(w, "returned", "error")
            BY <1>1, <1>3, <1>9, <2>2, AtWork, PlaceNames DEF OwnMove, Results
        <3> QED BY <3>1
    <2> QED BY <1>5, <2>1, <2>2
<1>8. Typed'
    BY <1>1, <1>2, <1>3, <1>4, <1>7, AtWork DEF Inv, Typed, OwnMove, Moved
<1> QED BY <1>7, <1>8, OwnMoveOK

LEMMA ReadDecisionOK ==
    ASSUME Inv, NEW w \in Workers, ReadDecision(w) PROVE Inv'
<1> DEFINE i == worker[w].input
<1>1. worker[w].at # "idle" /\ worker[w].at \in Executing
    BY DEF ReadDecision, Executing
<1>2. UNCHANGED <<columns, run, approval, approval_due, lease, sweep, suspends, crashes, stalls, executions>>
    BY DEF ReadDecision
<1>3. \/ approval[i] = "pending" /\ worker' = Return(w, "waiting_for_user")
      \/ worker' = Return(w, "blocked")
      \/ worker' = [worker EXCEPT ![w].at = "leasing"]
    BY DEF ReadDecision
<1>4. \/ approval[i] = "pending" /\ Moved(w, "returned", "waiting_for_user")
      \/ Moved(w, "returned", "blocked")
      \/ Moved(w, "leasing", worker[w].result)
    BY ZenonT(30), <1>1, <1>3, AtWork, MoveRecord DEF Return, Places, Results
<1>5. PICK a, r : OwnMove(w, a, r)
    BY <1>1, <1>2, <1>4, AtWork, QuietMove DEF Executing, Leaving, Results
<1>6. Typed'
    BY <1>2, <1>5 DEF Inv, Typed, OwnMove, Moved, columns
<1> QED BY <1>5, <1>6, OwnMoveOK

LEMMA AcquireLeaseOK ==
    ASSUME Inv, NEW w \in Workers, AcquireLease(w) PROVE Inv'
<1> DEFINE i == worker[w].input
<1>1. worker[w].at # "idle" /\ worker[w].at \in Executing
    BY DEF AcquireLease, Executing
<1>2. UNCHANGED <<columns, run, approval, approval_due, sweep, suspends, crashes, stalls>>
    BY DEF AcquireLease
<1>3. Moved(w, "leased", worker[w].result) \/ Moved(w, "returned", "session_busy")
    BY ZenonT(30), <1>1, AtWork, MoveRecord DEF AcquireLease, Return, Places, Results
<1>4. PICK a, r : OwnMove(w, a, r)
    BY <1>1, <1>2, <1>3, AtWork, QuietMove DEF Executing, Leaving, Results
<1>5. lease' \in [Sessions -> Workers \cup {Nobody, Orphan}]
    BY <1>1, AtWork DEF AcquireLease, Inv, Typed
<1>6. executions' \in [Input -> 0..(MaxAttempts + 1)]
    <2>1. executions \in [Input -> 0..(MaxAttempts + 1)] /\ i \in Input
        BY <1>1, AtWork DEF Inv, Typed
    <2>2. executions[i] <= MaxAttempts => executions[i] + 1 \in 0..(MaxAttempts + 1)
        BY <2>1, InputFacts
    <2> QED BY <2>1, <2>2 DEF AcquireLease
<1>7. Typed'
    BY <1>2, <1>4, <1>5, <1>6 DEF Inv, Typed, OwnMove, Moved, columns
<1> QED BY <1>4, <1>7, OwnMoveOK

LEMMA ContinueApprovedOK ==
    ASSUME Inv, NEW w \in Workers, ContinueApproved(w) PROVE Inv'
<1> DEFINE i == worker[w].input
<1>1. worker[w].at # "idle" /\ worker[w].at \in Executing /\ run[i] = "awaiting_approval"
    BY DEF ContinueApproved, Executing
<1>2. UNCHANGED <<status, ambiguous, attempts, claim_id, claim_live, overdue, approval, approval_due,
                  lease, sweep, suspends, crashes, stalls, executions>>
    BY DEF ContinueApproved
<1>3. run' = run \/ run' = [run EXCEPT ![i] = "active"]
    BY DEF ContinueApproved
<1>4. (checkpoint' = [checkpoint EXCEPT ![i] = "progress"] /\ OwnsClaim(w)) \/ checkpoint' = checkpoint
    BY DEF ContinueApproved
<1>5. Moved(w, "returning", "blocked") \/ Moved(w, "returning", "error") \/ UNCHANGED worker
    BY ZenonT(30), <1>1, AtWork, MoveRecord DEF ContinueApproved, Leave, Places, Results
<1>6. UNCHANGED worker => Moved(w, worker[w].at, worker[w].result)
    BY DEF Moved, Inv, Typed
<1>7. run \in [Input -> {"none", "early", "active", "awaiting_approval"} \cup RunEnded]
    BY DEF Inv, Typed
<1>8. PICK a, r : OwnMove(w, a, r)
    <2>1. ASSUME NEW a, NEW r, Moved(w, a, r), a \in Executing \/ (a \in Leaving /\ r \in {"blocked", "error"})
          PROVE  OwnMove(w, a, r)
        <3>1. /\ \A k \in Input \ {i} : run'[k] = run[k] /\ checkpoint'[k] = checkpoint[k]
              /\ run[i] \notin RunEnded \cup {"none", "early"}
              /\ checkpoint'[i] # checkpoint[i] => OwnsClaim(w)
            BY <1>1, <1>3, <1>4, <1>7, AtWork DEF RunEnded, Inv, Typed
        <3>2. a \in Leaving => r \in Results /\ r # "completed" /\ r # "waiting_for_user"
            BY <2>1, PlaceNames DEF Results
        <3> QED BY <1>1, <1>2, <2>1, <3>1, <3>2, AtWork, PlaceNames DEF OwnMove
    <2> QED BY <1>1, <1>5, <1>6, <2>1, PlaceNames
<1>9. Typed'
    BY <1>1, <1>2, <1>3, <1>4, <1>8, AtWork DEF Inv, Typed, OwnMove, Moved
<1> QED BY <1>8, <1>9, OwnMoveOK

LEMMA SuspendOK ==
    ASSUME Inv, NEW w \in Workers, Suspend(w) PROVE Inv'
<1> DEFINE i == worker[w].input
<1>1. worker[w].at # "idle" /\ worker[w].at \in Executing /\ run[i] = "active" /\ OwnsClaim(w)
    BY DEF Suspend, Executing
<1>2. UNCHANGED <<status, ambiguous, attempts, claim_id, claim_live, overdue, lease, sweep, crashes,
                  stalls, executions>>
    BY DEF Suspend
<1>3. /\ run' = [run EXCEPT ![i] = "awaiting_approval"] /\ approval' = [approval EXCEPT ![i] = "pending"]
      /\ checkpoint' = [checkpoint EXCEPT ![i] = "awaiting_approval"]
      /\ approval_due' = [approval_due EXCEPT ![i] = FALSE]
    BY DEF Suspend
<1>4. Moved(w, "returning", "waiting_for_user")
    BY ZenonT(30), <1>1, AtWork, MoveRecord DEF Suspend, Leave, Places, Results
<1>5. /\ run \in [Input -> {"none", "early", "active", "awaiting_approval"} \cup RunEnded]
      /\ approval \in [Input -> {"none", "pending", "approved", "refused"}] /\ i \in Input
    BY <1>1, AtWork DEF Inv, Typed
<1>6. OwnMove(w, "returning", "waiting_for_user")
    BY <1>1, <1>2, <1>3, <1>4, <1>5, AtWork DEF OwnMove, Executing, Leaving, Results, RunEnded
<1>7. suspends' \in [Input -> 0..MaxSuspends]
    <2>1. suspends \in [Input -> 0..MaxSuspends] /\ suspends[i] \in 0..MaxSuspends /\ suspends[i] < MaxSuspends
        BY <1>5 DEF Inv, Typed, Suspend
    <2>2. suspends[i] + 1 \in 0..MaxSuspends
        BY <2>1, QueueAssumption
    <2> QED BY <2>1, <2>2, <1>5 DEF Suspend
<1>8. Typed'
    BY <1>2, <1>3, <1>5, <1>6, <1>7 DEF Inv, Typed, OwnMove, Moved
<1> QED BY <1>6, <1>8, OwnMoveOK

LEMMA FinalizeOK ==
    ASSUME Inv, NEW w \in Workers, Finalize(w) PROVE Inv'
<1> DEFINE i == worker[w].input
<1>1. worker[w].at # "idle" /\ worker[w].at \in Executing /\ OwnsClaim(w)
    BY DEF Finalize, Executing
<1>2. UNCHANGED <<status, ambiguous, attempts, claim_id, claim_live, overdue, run, approval, approval_due,
                  lease, sweep, suspends, crashes, stalls, executions>>
    BY DEF Finalize
<1>3. checkpoint' = [checkpoint EXCEPT ![i] = "progress"] /\ i \in Input
    BY <1>1, AtWork DEF Finalize
<1>4. Moved(w, "finalizing", worker[w].result)
    BY ZenonT(30), <1>1, AtWork, MoveRecord DEF Finalize, Places
<1>5. OwnMove(w, "finalizing", worker[w].result)
    BY <1>1, <1>2, <1>3, <1>4, AtWork DEF OwnMove, Executing, Leaving, Inv, Typed
<1>6. Typed'
    BY <1>2, <1>3, <1>5 DEF Inv, Typed, OwnMove, Moved
<1> QED BY <1>5, <1>6, OwnMoveOK

LEMMA SaveOK ==
    ASSUME Inv, NEW w \in Workers, Save(w) PROVE Inv'
<1> DEFINE i == worker[w].input
<1>1. worker[w].at # "idle" /\ worker[w].at \in Executing /\ run[i] \in {"early", "active"}
    BY DEF Save, Executing
<1>2. UNCHANGED <<columns, approval, approval_due, lease, sweep, suspends, crashes, stalls, executions>>
    BY DEF Save
<1>3. run' = [run EXCEPT ![i] = "completed"] /\ i \in Input
    BY <1>1, AtWork DEF Save
<1>4. Moved(w, "returning", "completed")
    BY ZenonT(30), <1>1, AtWork, MoveRecord DEF Save, Leave, Places, Results
<1>5. OwnMove(w, "returning", "completed")
    BY <1>1, <1>2, <1>3, <1>4, AtWork DEF OwnMove, Executing, Leaving, Results, RunEnded, Inv, Typed, columns
<1>6. Typed'
    BY <1>2, <1>3, <1>5 DEF Inv, Typed, OwnMove, Moved, RunEnded, columns
<1> QED BY <1>5, <1>6, OwnMoveOK

LEMMA FailRunOK ==
    ASSUME Inv, NEW w \in Workers, FailRun(w) PROVE Inv'
<1> DEFINE i == worker[w].input
<1>1. worker[w].at # "idle" /\ worker[w].at \in Executing /\ run[i] \in {"early", "active"}
    BY DEF FailRun, Executing
<1>2. UNCHANGED <<columns, approval, approval_due, lease, sweep, suspends, crashes, stalls, executions>>
    BY DEF FailRun
<1>3. run' = [run EXCEPT ![i] = "failed"] /\ i \in Input
    BY <1>1, AtWork DEF FailRun
<1>4. Moved(w, "returning", "error")
    BY ZenonT(30), <1>1, AtWork, MoveRecord DEF FailRun, Leave, Places, Results
<1>5. OwnMove(w, "returning", "error")
    BY <1>1, <1>2, <1>3, <1>4, AtWork DEF OwnMove, Executing, Leaving, Results, RunEnded, Inv, Typed, columns
<1>6. Typed'
    BY <1>2, <1>3, <1>5 DEF Inv, Typed, OwnMove, Moved, RunEnded, columns
<1> QED BY <1>5, <1>6, OwnMoveOK

LEMMA StopOK ==
    ASSUME Inv, NEW w \in Workers, Stop(w) PROVE Inv'
<1>1. worker[w].at # "idle" /\ worker[w].at \in Executing
    BY DEF Stop, Executing
<1>2. UNCHANGED <<columns, run, approval, approval_due, lease, sweep, suspends, crashes, stalls, executions>>
    BY DEF Stop
<1>3. PICK r \in {"error", "blocked", "retry_pending"} : worker' = Leave(w, r)
    BY DEF Stop
<1>4. Moved(w, "returning", r)
    BY ZenonT(30), <1>1, <1>3, AtWork, MoveRecord DEF Leave, Places, Results
<1>5. OwnMove(w, "returning", r)
    <2>1. r \in Results /\ r # "completed" /\ r # "waiting_for_user" /\ "returning" \in Executing \cup Leaving
        BY <1>3 DEF Results, Leaving
    <2>2. UNCHANGED <<columns, run, approval, stalls>> /\ crashes' \in Nat /\ crashes <= crashes'
        BY <1>1, <1>2, AtWork
    <2> QED BY <1>1, <1>4, <2>1, <2>2, AtWork, QuietMove
<1>6. Typed'
    BY <1>2, <1>5 DEF Inv, Typed, OwnMove, Moved, columns
<1> QED BY <1>5, <1>6, OwnMoveOK

LEMMA ReleaseLeaseOK ==
    ASSUME Inv, NEW w \in Workers, ReleaseLease(w) PROVE Inv'
<1>1. worker[w].at # "idle" /\ worker[w].at \in Leaving
    BY DEF ReleaseLease, Leaving
<1>2. UNCHANGED <<columns, run, approval, approval_due, sweep, suspends, stalls, executions>>
    BY DEF ReleaseLease
<1>3. Moved(w, "returned", worker[w].result)
    BY ZenonT(30), <1>1, AtWork, MoveRecord DEF ReleaseLease, Places
<1>4. crashes' \in 0..MaxCrashes /\ crashes' \in Nat /\ crashes <= crashes'
    <2>1. crashes \in 0..MaxCrashes
        BY DEF Inv, Typed
    <2> QED BY <2>1, InputFacts DEF ReleaseLease
<1>5. /\ Reported(w) /\ worker[w].result \in Results
      /\ worker[w].attempts <= MaxAttempts \/ worker[w].result \in GivenUp
    BY <1>1 DEF Inv, WorkersBound, ReportsHold, AttemptsInHand
<1>6. OwnMove(w, "returned", worker[w].result)
    BY <1>1, <1>2, <1>3, <1>4, <1>5, QuietMove, PlaceNames DEF Reported
<1>7. lease' \in [Sessions -> Workers \cup {Nobody, Orphan}]
    BY <1>1, AtWork DEF ReleaseLease, Inv, Typed
<1>8. Typed'
    BY <1>2, <1>4, <1>6, <1>7 DEF Inv, Typed, OwnMove, Moved, columns
<1> QED BY <1>6, <1>8, OwnMoveOK

-----------------------------------------------------------------------------
(* The end of a worker's step: the claim is given back, lost or left behind *)

\* Nobody else's claim depends on a worker that forgets its input.
Forgotten(w) ==
    /\ worker' \in [Workers -> WorkerRecords] /\ worker'[w].at = "idle"
    /\ \A v \in Workers \ {w} : worker'[v] = worker[v]

LEMMA ForgetRecord ==
    ASSUME Typed, NEW w \in Workers, worker' = [worker EXCEPT ![w] = Idle] PROVE Forgotten(w)
<1>1. Idle \in WorkerRecords
    BY QueueAssumption DEF Idle, WorkerRecords, Places
<1> QED BY <1>1 DEF Typed, Forgotten, Idle

LEMMA ForgottenOK ==
    ASSUME Inv, NEW w \in Workers, Forgotten(w), UNCHANGED <<run, approval, ambiguous>>,
           \A k \in Input : status'[k] = "none" \/ ambiguous[k] => status'[k] = status[k]
    PROVE  (WorkersBound /\ Untouched /\ AttemptsInHand)'
<1>1. WorkersBound'
    BY DEF Inv, Forgotten, WorkersBound, Leaving
<1>2. Untouched'
    BY DEF Inv, Forgotten, Untouched
<1>3. AttemptsInHand'
    BY DEF Inv, Forgotten, AttemptsInHand, Executing, Leaving
<1> QED BY <1>1, <1>2, <1>3

LEMMA FinishOK ==
    ASSUME Inv, NEW w \in Workers, Finish(w) PROVE Inv'
<1> DEFINE i == worker[w].input
<1>1. worker[w].at # "idle" /\ worker[w].at \in Leaving /\ i \in Input
    BY AtWork DEF Finish, Leaving
<1>2. Forgotten(w)
    BY ZenonT(30), ForgetRecord DEF Finish, Inv
<1>3. UNCHANGED <<checkpoint, ambiguous, overdue, run, approval, approval_due, lease, sweep,
                  suspends, crashes, stalls, executions>>
    BY DEF Finish
<1>4. CASE ~OwnsClaim(w)
    <2>1. UNCHANGED <<status, attempts, claim_id, claim_live>>
        BY <1>4 DEF Finish
    <2>2. Typed'
        BY <1>2, <1>3, <2>1 DEF Inv, Typed, Forgotten
    <2>3. (WorkersBound /\ Untouched /\ AttemptsInHand)'
        BY <1>2, <1>3, <2>1, ForgottenOK
    <2>4. ClaimsHeld'
        <3> SUFFICES ASSUME NEW k \in Input, claim_live[k], claim_id[k] \in Workers PROVE claim_id[k] # w
            BY <1>2, <2>1 DEF Inv, ClaimsHeld, Forgotten
        <3> QED BY <1>4 DEF Inv, ClaimsHeld, OwnsClaim
    <2>5. ReportsHold'
        <3> SUFFICES ASSUME NEW v \in Workers, v # w, worker[v].at \in Leaving PROVE Reported(v)'
            BY <1>2 DEF ReportsHold, Forgotten, Leaving
        <3> QED BY <1>2, <1>3, <2>1 DEF Inv, ReportsHold, Reported, OwnsClaim, Forgotten
    <2>6. (CancelledRuns /\ AttemptsSpent /\ HeadOnly /\ ReceiptsAreTrue /\ Parking)'
        BY ZenonT(30), <1>3, <2>1 DEF Inv, CancelledRuns, AttemptsSpent, InHands, HeadOnly, ReceiptsAreTrue, Parking
    <2> QED BY <2>2, <2>3, <2>4, <2>5, <2>6 DEF Inv
<1>5. CASE OwnsClaim(w)
    <2>1. /\ status' = [status EXCEPT ![i] = Finished(w)]
          /\ attempts' = [attempts EXCEPT ![i] = IF worker[w].result = "session_busy" THEN Refunded(@) ELSE @]
          /\ claim_id' = [claim_id EXCEPT ![i] = Nobody]
          /\ claim_live' = [claim_live EXCEPT ![i] = FALSE]
        BY <1>5 DEF Finish
    <2>2. /\ claim_id[i] = w /\ claim_live[i] /\ status[i] = "running"
          /\ worker[w].attempts = attempts[i]
        BY <1>1, <1>5 DEF Inv, ClaimsHeld, OwnsClaim
    <2>3. /\ worker[w].result \in Results /\ Reported(w)
          /\ attempts[i] <= MaxAttempts \/ worker[w].result \in GivenUp
        BY <1>1, <2>2 DEF Inv, WorkersBound, ReportsHold, AttemptsInHand
    <2>4. Finished(w) \in {"queued", "waiting_for_user", "blocked", "completed", "failed", "expired"}
        BY <2>3 DEF Finished, Receipt, Results
    <2>5. /\ Finished(w) = "completed" => run[i] = "completed"
          /\ Finished(w) = "waiting_for_user" => approval[i] = "pending"
        BY <2>3, <1>5 DEF Finished, Receipt, Results, Reported
    <2>6. Finished(w) \notin Terminal => attempts[i] <= MaxAttempts
        BY <2>3 DEF Finished, Receipt, GivenUp, Terminal
    <2>7. attempts \in [Input -> Nat] /\ Refunded(attempts[i]) \in Nat /\ Refunded(attempts[i]) <= attempts[i]
        BY <1>1 DEF Inv, Typed, Refunded
    <2>8. /\ attempts' \in [Input -> Nat] /\ attempts'[i] <= attempts[i]
          /\ \A k \in Input \ {i} : attempts'[k] = attempts[k]
        BY <1>1, <2>1, <2>7
    <2>9. /\ status \in [Input -> {"none", "queued", "running"} \cup Parked \cup Terminal]
          /\ claim_id \in [Input -> Workers \cup {Nobody, Orphan}] /\ claim_live \in [Input -> BOOLEAN]
        BY DEF Inv, Typed
    <2>10. /\ status'[i] = Finished(w) /\ ~claim_live'[i] /\ claim_id'[i] = Nobody
           /\ \A k \in Input \ {i} : status'[k] = status[k] /\ claim_live'[k] = claim_live[k] /\ claim_id'[k] = claim_id[k]
        BY ZenonT(30), <1>1, <2>1, <2>9
    <2>11. Typed'
        BY <1>1, <1>2, <1>3, <2>1, <2>4, <2>8, <2>9 DEF Inv, Typed, Forgotten, Parked, Terminal
    <2>12. (WorkersBound /\ Untouched /\ AttemptsInHand)'
        <3>1. ~ambiguous[i]
            BY <1>1, <2>2 DEF Inv, Untouched
        <3> QED BY ZenonT(30), <1>1, <1>2, <1>3, <2>4, <2>10, <3>1, ForgottenOK
    <2>13. ClaimsHeld'
        <3> SUFFICES ASSUME NEW k \in Input, k # i, claim_live[k] PROVE claim_id[k] # w
            BY <1>2, <2>8, <2>10 DEF Inv, ClaimsHeld, Forgotten
        <3> QED BY <1>1 DEF Inv, ClaimsHeld
    <2>14. ReportsHold'
        <3> SUFFICES ASSUME NEW v \in Workers, v # w, worker[v].at \in Leaving, worker'[v] = worker[v]
                     PROVE  Reported(v)'
            BY <1>2 DEF ReportsHold, Forgotten, Leaving
        <3>1. Reported(v) /\ worker[v].input \in Input
            BY DEF Inv, ReportsHold, WorkersBound, Leaving
        <3>2. OwnsClaim(v)' => OwnsClaim(v)
            BY <3>1, <2>10 DEF OwnsClaim
        <3> QED BY <1>3, <3>1, <3>2 DEF Reported
    <2>15. AttemptsSpent'
        <3>1. crashes \in Nat /\ stalls \in Nat
            BY InputFacts DEF Inv, Typed
        <3>2. attempts[i] \in Nat /\ attempts'[i] \in Nat
            BY <1>1, <2>7, <2>8
        <3>3. attempts'[i] <= MaxAttempts + 1 + crashes + stalls
            <4>1. attempts[i] <= MaxAttempts + 1 + crashes + stalls
                BY <1>1 DEF Inv, AttemptsSpent
            <4> QED BY <2>8, <3>1, <3>2, <4>1, InputFacts
        <3>4. status'[i] \notin Terminal => attempts'[i] <= MaxAttempts + crashes + stalls
            BY <2>6, <2>8, <2>10, <3>1, <3>2, InputFacts
        <3>5. \A k \in Input \ {i} : InHands(k)' <=> InHands(k)
            BY <2>10 DEF InHands
        <3> QED BY <1>3, <2>8, <2>10, <3>3, <3>4, <3>5 DEF Inv, AttemptsSpent
    <2>16. (CancelledRuns /\ ReceiptsAreTrue /\ Parking)'
        BY <1>1, <1>3, <2>4, <2>5, <2>10 DEF Inv, CancelledRuns, ReceiptsAreTrue, Parking
    <2>17. HeadOnly'
        <3> SUFFICES ASSUME NEW k \in Input, status'[k] = "running", NEW h \in Earlier(k)
                     PROVE  status'[h] \in Terminal
            BY DEF HeadOnly
        <3>1. h \in Input /\ k # i /\ status[k] = "running"
            BY <2>4, <2>10, InputFacts
        <3>2. status[h] \in Terminal
            BY <3>1 DEF Inv, HeadOnly
        <3> QED BY <1>1, <2>2, <2>10, <3>1, <3>2 DEF Terminal
    <2> QED BY <2>11, <2>12, <2>13, <2>14, <2>15, <2>16, <2>17 DEF Inv
<1> QED BY <1>4, <1>5

LEMMA AbandonOK ==
    ASSUME Inv, NEW w \in Workers, NEW l \in {Nobody, Orphan}, Abandon(w, l) PROVE Inv'
<1> DEFINE i == worker[w].input
<1>1. worker[w].at # "idle" /\ i \in Input /\ Session[i] \in Sessions
    BY AtWork DEF Abandon
<1>2. Forgotten(w)
    BY ZenonT(30), ForgetRecord DEF Abandon, Inv
<1>3. UNCHANGED <<status, checkpoint, ambiguous, attempts, claim_live, overdue, run, approval, approval_due,
                  sweep, suspends, stalls, executions>>
    BY DEF Abandon
<1>4. crashes \in 0..MaxCrashes /\ crashes' \in 0..MaxCrashes /\ crashes' = crashes + 1
    BY InputFacts DEF Abandon, Inv, Typed
<1>5. claim_id \in [Input -> Workers \cup {Nobody, Orphan}] /\ lease \in [Sessions -> Workers \cup {Nobody, Orphan}]
    BY DEF Inv, Typed
<1>6. /\ claim_id'[i] = IF claim_id[i] = w THEN Orphan ELSE claim_id[i]
      /\ \A k \in Input \ {i} : claim_id'[k] = claim_id[k]
    BY <1>1, <1>5 DEF Abandon
<1>7. Typed'
    BY <1>1, <1>2, <1>3, <1>4, <1>5 DEF Inv, Typed, Forgotten, Abandon
<1>8. (WorkersBound /\ Untouched /\ AttemptsInHand)'
    BY <1>2, <1>3, ForgottenOK
<1>9. ClaimsHeld'
    <2> SUFFICES ASSUME NEW k \in Input, claim_live[k]
                 PROVE  /\ claim_id'[k] \in Workers \cup {Orphan}
                        /\ claim_id'[k] \in Workers => claim_id'[k] = claim_id[k] /\ claim_id[k] # w
        BY <1>2, <1>3 DEF Inv, ClaimsHeld, Forgotten
    <2> QED BY <1>1, <1>6, WorkerNames DEF Inv, ClaimsHeld
<1>10. ReportsHold'
    <2> SUFFICES ASSUME NEW v \in Workers, v # w, worker[v].at \in Leaving, worker'[v] = worker[v]
                 PROVE  Reported(v)'
        BY <1>2 DEF ReportsHold, Forgotten, Leaving
    <2>1. Reported(v) /\ worker[v].input \in Input
        BY DEF Inv, ReportsHold, WorkersBound, Leaving
    <2>2. OwnsClaim(v)' => OwnsClaim(v)
        BY <1>3, <1>6, <2>1, WorkerNames DEF OwnsClaim
    <2> QED BY <1>3, <2>1, <2>2 DEF Reported
<1>11. AttemptsSpent'
    <2> SUFFICES ASSUME NEW k \in Input PROVE attempts[k] <= MaxAttempts + crashes' + stalls
        BY <1>3, <1>4, InputFacts DEF AttemptsSpent, Inv, Typed
    <2>1. attempts[k] \in Nat /\ stalls \in Nat /\ crashes \in Nat /\ attempts[k] <= MaxAttempts + 1 + crashes + stalls
        BY <1>4, InputFacts DEF Inv, Typed, AttemptsSpent
    <2> QED BY <1>4, <2>1, InputFacts
<1>12. (CancelledRuns /\ HeadOnly /\ ReceiptsAreTrue /\ Parking)'
    BY <1>3 DEF Inv, CancelledRuns, HeadOnly, ReceiptsAreTrue, Parking
<1> QED BY <1>7, <1>8, <1>9, <1>10, <1>11, <1>12 DEF Inv

-----------------------------------------------------------------------------
(* Admission, clocks, decisions and sweeps *)

\* Some queued inputs expire, or some that wait for their target are cancelled.
LEMMA ClosingOK ==
    ASSUME Inv, UNCHANGED <<checkpoint, ambiguous, attempts, claim_id, claim_live, overdue, run, approval,
                            approval_due, lease, worker, sweep, suspends, crashes, stalls, executions>>,
           status' \in [Input -> {"none", "queued", "running"} \cup Parked \cup Terminal],
           \A k \in Input : \/ status'[k] = status[k]
                            \/ status[k] = "queued" /\ status'[k] = "expired"
                            \/ status[k] = "waiting_for_user" /\ ambiguous[k] /\ status'[k] = "cancelled"
    PROVE  Inv'
<1>1. Typed'
    BY DEF Inv, Typed
<1>2. (WorkersBound /\ AttemptsInHand)'
    BY ZenonT(30) DEF Inv, WorkersBound, AttemptsInHand
<1>3. ClaimsHeld'
    BY ZenonT(30) DEF Inv, ClaimsHeld
<1>4. Untouched'
    BY DEF Inv, Untouched
<1>5. CancelledRuns'
    BY DEF Inv, CancelledRuns, Untouched
<1>6. ReportsHold'
    <2> SUFFICES ASSUME NEW w \in Workers, worker[w].at \in Leaving PROVE Reported(w)'
        BY DEF ReportsHold
    <2>1. worker[w].input \in Input /\ Reported(w)
        BY DEF Inv, WorkersBound, ReportsHold, Leaving
    <2>2. OwnsClaim(w)' => OwnsClaim(w)
        BY ZenonT(30), <2>1 DEF OwnsClaim
    <2> QED BY <2>1, <2>2 DEF Reported
<1>7. AttemptsSpent'
    BY ZenonT(30) DEF Inv, AttemptsSpent, InHands, Terminal
<1>8. HeadOnly'
    BY ZenonT(30), InputFacts DEF Inv, HeadOnly, Terminal
<1>9. (ReceiptsAreTrue /\ Parking)'
    BY DEF Inv, ReceiptsAreTrue, Parking
<1> QED BY <1>1, <1>2, <1>3, <1>4, <1>5, <1>6, <1>7, <1>8, <1>9 DEF Inv

LEMMA ResolveAmbiguousOK ==
    ASSUME Inv, NEW s \in Sessions, ResolveAmbiguous(s) PROVE Inv'
BY ClosingOK DEF ResolveAmbiguous, Inv, Typed, Parked, Terminal

LEMMA ExpireQueuedOK ==
    ASSUME Inv, ExpireQueued PROVE Inv'
BY ClosingOK DEF ExpireQueued, Inv, Typed, Parked, Terminal

\* Steps that leave inputs, claims, runs, approvals and workers alone.
LEMMA QuietOK ==
    ASSUME Inv, Typed', stalls <= stalls',
           UNCHANGED <<status, checkpoint, ambiguous, attempts, claim_id, claim_live, run, approval, worker, crashes>>
    PROVE  Inv'
<1>1. (WorkersBound /\ ClaimsHeld /\ Untouched /\ CancelledRuns /\ AttemptsInHand)'
    BY DEF Inv, WorkersBound, ClaimsHeld, Untouched, CancelledRuns, AttemptsInHand
<1>2. ReportsHold'
    BY ZenonT(30) DEF Inv, ReportsHold, Reported, OwnsClaim
<1>3. AttemptsSpent'
    BY InputFacts DEF Inv, Typed, AttemptsSpent, InHands
<1>4. (HeadOnly /\ ReceiptsAreTrue /\ Parking)'
    BY DEF Inv, HeadOnly, ReceiptsAreTrue, Parking
<1> QED BY <1>1, <1>2, <1>3, <1>4 DEF Inv

LEMMA DeadlineOK ==
    ASSUME Inv, NEW i \in Input, Deadline(i) PROVE Inv'
<1>1. Typed' /\ stalls <= stalls'
    BY InputFacts DEF Inv, Typed, Deadline
<1> QED BY <1>1, QuietOK DEF Deadline

LEMMA ApprovalDeadlineOK ==
    ASSUME Inv, NEW i \in Input, ApprovalDeadline(i) PROVE Inv'
<1>1. Typed' /\ stalls <= stalls'
    BY InputFacts DEF Inv, Typed, ApprovalDeadline, columns
<1> QED BY <1>1, QuietOK DEF ApprovalDeadline, columns

LEMMA LeaseExpiresOK ==
    ASSUME Inv, NEW s \in Sessions, LeaseExpires(s) PROVE Inv'
<1>1. Typed' /\ stalls <= stalls'
    BY InputFacts DEF Inv, Typed, LeaseExpires, columns
<1> QED BY <1>1, QuietOK DEF LeaseExpires, columns

LEMMA SweepOK ==
    ASSUME Inv, sweep' \subseteq Input,
           UNCHANGED <<columns, run, approval, approval_due, lease, worker, suspends, crashes, stalls, executions>>
    PROVE  Inv'
<1>1. Typed' /\ stalls <= stalls'
    BY InputFacts DEF Inv, Typed, columns
<1> QED BY <1>1, QuietOK DEF columns

LEMMA AcceptOK ==
    ASSUME Inv, NEW i \in Input, Accept(i) PROVE Inv'
<1>1. Typed'
    BY WorkerNames DEF Inv, Typed, Accept, columns, Parked, Terminal, RunEnded
<1>2. ClaimsHeld'
    BY DEF Inv, ClaimsHeld, Accept
<1>3. Untouched'
    BY DEF Inv, Typed, Untouched, Accept
<1>4. CancelledRuns'
    BY DEF Inv, CancelledRuns, Accept
<1>5. ReportsHold'
    BY DEF Inv, Typed, ReportsHold, Reported, OwnsClaim, Leaving, Accept, Terminal, RunEnded
<1>6. AttemptsSpent'
    BY DEF Inv, Typed, AttemptsSpent, InHands, Terminal, Accept, RunEnded
<1>7. HeadOnly'
    BY DEF Inv, Typed, HeadOnly, Terminal, Accept, RunEnded
<1>8. ReceiptsAreTrue'
    BY DEF Inv, ReceiptsAreTrue, Accept
<1>9. Parking'
    BY DEF Inv, Typed, Parking, Accept
<1>10. (WorkersBound /\ AttemptsInHand)'
    BY DEF Inv, Accept, WorkersBound, AttemptsInHand
<1> QED BY <1>1, <1>2, <1>3, <1>4, <1>5, <1>6, <1>7, <1>8, <1>9, <1>10 DEF Inv

LEMMA ClaimExpiresOK ==
    ASSUME Inv, NEW i \in Input, ClaimExpires(i) PROVE Inv'
<1>1. Typed'
    BY InputFacts DEF Inv, Typed, ClaimExpires, columns, Terminal, RunEnded
<1>2. ClaimsHeld'
    <2>1. \A k \in Input : claim_live'[k] => claim_live[k]
        BY DEF Inv, Typed, ClaimExpires
    <2>2. UNCHANGED <<status, claim_id, worker, attempts>>
        BY DEF ClaimExpires
    <2> QED BY <2>1, <2>2 DEF Inv, ClaimsHeld
<1>3. ReportsHold'
    BY DEF Inv, Typed, ReportsHold, Reported, OwnsClaim, Leaving, ClaimExpires, Terminal, RunEnded
<1>4. AttemptsSpent'
    BY InputFacts, WorkerNames DEF Inv, Typed, AttemptsSpent, InHands, Terminal, ClaimExpires, columns,
       WorkerRecords, Places, Parked, RunEnded
<1>5. (WorkersBound /\ Untouched /\ CancelledRuns /\ AttemptsInHand /\ HeadOnly /\ ReceiptsAreTrue /\ Parking)'
    BY DEF Inv, ClaimExpires, WorkersBound, Untouched, CancelledRuns, AttemptsInHand, HeadOnly,
       ReceiptsAreTrue, Parking
<1> QED BY <1>1, <1>2, <1>3, <1>4, <1>5 DEF Inv

LEMMA ClaimOK ==
    ASSUME Inv, NEW w \in Workers, NEW i \in Input, Claim(w, i) PROVE Inv'
<1>1. Typed'
    BY InputFacts, WorkerNames DEF Inv, Typed, Claim, Candidate, Continuation, columns, WorkerRecords,
       Places, Parked, Terminal, RunEnded
<1>2. WorkersBound'
    BY DEF Inv, Typed, WorkersBound, Leaving, Claim, Candidate, Continuation, Terminal, RunEnded
<1>3. ClaimsHeld'
    BY DEF Inv, Typed, ClaimsHeld, Claim, Candidate, Continuation
<1>4. Untouched'
    BY DEF Inv, Untouched, Claim, Candidate, Continuation
<1>5. CancelledRuns'
    BY DEF Inv, CancelledRuns, Claim, Candidate, Continuation
<1>6. ReportsHold'
    BY DEF Inv, Typed, ReportsHold, Reported, OwnsClaim, Leaving, Claim, Candidate, Continuation, Terminal,
       RunEnded
<1>7. AttemptsInHand'
    BY DEF Inv, Typed, AttemptsInHand, Executing, Leaving, GivenUp, Claim, Candidate, Continuation,
       Terminal, RunEnded
<1>8. AttemptsSpent'
    BY InputFacts DEF Inv, Typed, AttemptsSpent, InHands, Terminal, Claim, Candidate, Continuation, columns,
       RunEnded
<1>9. HeadOnly'
    BY DEF Inv, Typed, HeadOnly, Terminal, Claim, Candidate, Continuation, RunEnded
<1>10. ReceiptsAreTrue'
    BY DEF Inv, ReceiptsAreTrue, Claim, Candidate, Continuation
<1>11. Parking'
    BY DEF Inv, Parking, Claim, Candidate, Continuation
<1> QED BY <1>1, <1>2, <1>3, <1>4, <1>5, <1>6, <1>7, <1>8, <1>9, <1>10, <1>11 DEF Inv

LEMMA PrepareOK ==
    ASSUME Inv, NEW w \in Workers, Prepare(w) PROVE Inv'
<1>1. worker[w].input \in Input
    BY DEF Inv, WorkersBound, Prepare
<1>2. Typed'
    BY <1>1 DEF Inv, Typed, Prepare
<1>3. Untouched'
    BY <1>1 DEF Inv, Typed, Untouched, Prepare
<1>4. CancelledRuns'
    BY <1>1 DEF Inv, Typed, CancelledRuns, RunEnded, Prepare, OwnsClaim
<1>5. ReportsHold'
    BY <1>1 DEF Inv, Typed, ReportsHold, Reported, OwnsClaim, Leaving, Prepare, Terminal, RunEnded
<1>6. ReceiptsAreTrue'
    <2>1. \A k \in Input : run[k] = "completed" => run'[k] = "completed"
        BY <1>1 DEF Inv, Typed, Prepare
    <2> QED BY <2>1 DEF Inv, ReceiptsAreTrue, Prepare
<1>7. (WorkersBound /\ ClaimsHeld /\ AttemptsInHand /\ AttemptsSpent /\ HeadOnly /\ Parking)'
    BY ZenonT(30) DEF Inv, Prepare, WorkersBound, ClaimsHeld, AttemptsInHand, AttemptsSpent, InHands, HeadOnly, Parking
<1> QED BY <1>1, <1>2, <1>3, <1>4, <1>5, <1>6, <1>7 DEF Inv

LEMMA ResolveDurableOK ==
    ASSUME Inv, NEW i \in Input, NEW b \in BOOLEAN, ResolveDurable(i, b), sweep' \subseteq Input PROVE Inv'
<1>1. Typed'
    BY DEF Inv, Typed, ResolveDurable, ReadyApproval, Resumable
<1>2. ClaimsHeld'
    BY DEF Inv, ClaimsHeld, ResolveDurable, ReadyApproval, Resumable
<1>3. Untouched'
    BY DEF Inv, Untouched, ResolveDurable, ReadyApproval, Resumable
<1>4. CancelledRuns'
    BY DEF Inv, CancelledRuns, ResolveDurable, ReadyApproval, Resumable
<1>5. ReportsHold'
    BY DEF Inv, Typed, ReportsHold, Reported, OwnsClaim, Leaving, ResolveDurable, ReadyApproval, Resumable,
       Terminal, RunEnded
<1>6. AttemptsSpent'
    BY DEF Inv, Typed, AttemptsSpent, InHands, Terminal, ResolveDurable, ReadyApproval, Resumable, RunEnded
<1>7. HeadOnly'
    BY DEF Inv, Typed, HeadOnly, Terminal, ResolveDurable, ReadyApproval, Resumable, RunEnded
<1>8. ReceiptsAreTrue'
    BY DEF Inv, ReceiptsAreTrue, ResolveDurable, ReadyApproval, Resumable
<1>9. Parking'
    BY DEF Inv, Typed, Parking, ResolveDurable, ReadyApproval, Resumable
<1>10. (WorkersBound /\ AttemptsInHand)'
    BY DEF Inv, ResolveDurable, WorkersBound, AttemptsInHand
<1> QED BY <1>1, <1>2, <1>3, <1>4, <1>5, <1>6, <1>7, <1>8, <1>9, <1>10 DEF Inv

LEMMA OwnerControlOK ==
    ASSUME Inv, NEW i \in Input, OwnerControl(i) PROVE Inv'
<1>1. Typed'
    BY InputFacts DEF Inv, Typed, OwnerControl, columns, Terminal, RunEnded
<1>2. ClaimsHeld'
    BY DEF Inv, Typed, ClaimsHeld, OwnerControl
<1>3. Untouched'
    BY DEF Inv, Untouched, OwnerControl
<1>4. CancelledRuns'
    BY DEF Inv, Typed, CancelledRuns, RunEnded, OwnerControl
<1>5. ReportsHold'
    <2>1. \A k \in Input \ {i} : run'[k] = run[k] /\ approval'[k] = approval[k]
        BY ZenonT(30) DEF Inv, Typed, OwnerControl
    <2>2. run[i] = "completed" => run'[i] = "completed"
        BY ZenonT(30) DEF Inv, Typed, OwnerControl, RunEnded
    <2>3. worker' = worker /\ checkpoint' = checkpoint
        BY DEF OwnerControl
    <2>4. \A w \in Workers : OwnsClaim(w)' => OwnsClaim(w) /\ worker[w].input # i
        BY DEF Inv, Typed, OwnsClaim, OwnerControl
    <2>5. \A w \in Workers : worker[w].at \in Leaving => worker[w].input \in Input
        BY DEF Inv, WorkersBound, Leaving
    <2>6. ASSUME NEW w \in Workers, worker[w].at \in Leaving PROVE Reported(w)'
        <3>1. worker[w].input \in Input /\ Reported(w)
            BY <2>5, <2>6 DEF Inv, ReportsHold
        <3> QED BY <2>1, <2>2, <2>3, <2>4, <3>1 DEF Reported
    <2> QED BY <2>3, <2>6 DEF ReportsHold
<1>6. AttemptsSpent'
    BY DEF Inv, Typed, AttemptsSpent, InHands, Terminal, OwnerControl, RunEnded
<1>7. HeadOnly'
    BY DEF Inv, HeadOnly, OwnerControl
<1>8. ReceiptsAreTrue'
    BY DEF Inv, Typed, ReceiptsAreTrue, OwnerControl
<1>9. Parking'
    BY DEF Inv, Typed, Parking, OwnerControl
<1>10. (WorkersBound /\ AttemptsInHand)'
    BY DEF Inv, OwnerControl, WorkersBound, AttemptsInHand
<1> QED BY <1>1, <1>2, <1>3, <1>4, <1>5, <1>6, <1>7, <1>8, <1>9, <1>10 DEF Inv

LEMMA FinalizeStoppedOK ==
    ASSUME Inv, NEW i \in Input, FinalizeStopped(i) PROVE Inv'
<1>1. Typed'
    BY DEF Inv, Typed, FinalizeStopped, StoppedAttempt, Terminal, RunEnded
<1>2. ClaimsHeld'
    BY DEF Inv, ClaimsHeld, FinalizeStopped, StoppedAttempt
<1>3. Untouched'
    BY DEF Inv, Untouched, FinalizeStopped, StoppedAttempt
<1>4. CancelledRuns'
    BY DEF Inv, CancelledRuns, FinalizeStopped, StoppedAttempt
<1>5. ReportsHold'
    <2>1. \A k \in Input : run[k] = "completed" => run'[k] = "completed"
        BY DEF Inv, Typed, FinalizeStopped, RunEnded
    <2>2. worker' = worker /\ checkpoint' = checkpoint /\ approval' = approval /\ claim_live' = claim_live
        BY DEF FinalizeStopped
    <2>3. \A w \in Workers : OwnsClaim(w)' => OwnsClaim(w)
        BY <2>2 DEF Inv, Typed, OwnsClaim, FinalizeStopped, StoppedAttempt
    <2>4. \A w \in Workers : worker[w].at \in Leaving => worker[w].input \in Input
        BY DEF Inv, WorkersBound, Leaving
    <2> QED BY <2>1, <2>2, <2>3, <2>4 DEF Inv, ReportsHold, Reported
<1>6. AttemptsSpent'
    BY DEF Inv, Typed, AttemptsSpent, InHands, Terminal, FinalizeStopped, StoppedAttempt, RunEnded
<1>7. HeadOnly'
    BY DEF Inv, Typed, HeadOnly, Terminal, FinalizeStopped, StoppedAttempt, RunEnded
<1>8. ReceiptsAreTrue'
    BY DEF Inv, ReceiptsAreTrue, FinalizeStopped, StoppedAttempt
<1>9. Parking'
    BY DEF Inv, Parking, FinalizeStopped, StoppedAttempt
<1>10. (WorkersBound /\ AttemptsInHand)'
    BY DEF Inv, FinalizeStopped, WorkersBound, AttemptsInHand
<1> QED BY <1>1, <1>2, <1>3, <1>4, <1>5, <1>6, <1>7, <1>8, <1>9, <1>10 DEF Inv

-----------------------------------------------------------------------------
(* The theorems *)

LEMMA InitOK == Init => Inv
<1> SUFFICES ASSUME Init PROVE Inv
    OBVIOUS
<1>1. Idle \in WorkerRecords
    BY QueueAssumption DEF Idle, WorkerRecords, Places
<1>2. Typed
    BY <1>1, InputFacts DEF Init, Typed
<1>3. WorkersBound /\ AttemptsInHand /\ ReportsHold
    BY DEF Init, WorkersBound, AttemptsInHand, ReportsHold, Idle, Leaving, Executing
<1>4. ClaimsHeld /\ Untouched /\ CancelledRuns
    BY DEF Init, ClaimsHeld, Untouched, CancelledRuns, Idle
<1>5. AttemptsSpent /\ HeadOnly /\ ReceiptsAreTrue /\ Parking
    BY InputFacts DEF Init, AttemptsSpent, HeadOnly, ReceiptsAreTrue, Parking
<1> QED BY <1>2, <1>3, <1>4, <1>5 DEF Inv

LEMMA WorkOK ==
    ASSUME Inv, NEW w \in Workers, Work(w) PROVE Inv'
BY ClaimOK, ProcessOK, StartOK, ReadDecisionOK, AcquireLeaseOK, PrepareOK, ContinueApprovedOK, SuspendOK,
   FinalizeOK, SaveOK, FailRunOK, StopOK, ReleaseLeaseOK, FinishOK DEF Work

LEMMA ReviewOK ==
    ASSUME Inv, ReviewNext PROVE Inv'
<1>1. PICK i \in sweep : Review(i)
    BY DEF ReviewNext
<1>2. i \in Input /\ sweep \subseteq Input
    BY DEF Inv, Typed
<1>3. sweep' \subseteq Input
    BY ZenonT(30), <1>1, <1>2 DEF Review
<1> QED BY ZenonT(30), <1>1, <1>2, <1>3, ResolveDurableOK, SweepOK DEF Review

LEMMA NextOK == Inv /\ [Next]_vars => Inv'
<1> SUFFICES ASSUME Inv, [Next]_vars PROVE Inv'
    OBVIOUS
<1>1. ASSUME NEW i \in Input, Decide(i) PROVE Inv'
    BY <1>1, ResolveDurableOK DEF Decide, Inv, Typed
<1>2. CASE ListInvalid
    BY <1>2, SweepOK DEF ListInvalid
<1>3. CASE UNCHANGED vars
    BY <1>3, SweepOK DEF vars, Inv, Typed
<1>4. ASSUME NEW i \in Input,
             Accept(i) \/ Deadline(i) \/ ApprovalDeadline(i) \/ ClaimExpires(i) \/ OwnerControl(i) \/ FinalizeStopped(i)
      PROVE  Inv'
    BY <1>4, AcceptOK, DeadlineOK, ApprovalDeadlineOK, ClaimExpiresOK, OwnerControlOK, FinalizeStoppedOK
<1>5. ASSUME NEW w \in Workers, Crash(w) \/ Shutdown(w) PROVE Inv'
    BY ZenonT(30), <1>5, AbandonOK DEF Crash, Shutdown
<1> QED BY <1>1, <1>2, <1>3, <1>4, <1>5, WorkOK, ResolveAmbiguousOK, LeaseExpiresOK, ExpireQueuedOK, ReviewOK DEF Next

\* The invariant holds in every reachable state of the queue.
THEOREM Invariance == Spec => []Inv
BY InitOK, NextOK, PTL DEF Spec

\* Claim hands out a session's inputs in the order they were accepted: a running
\* input has no open predecessor, whatever workers crash, stall or come late.
THEOREM SessionOrder == Spec => []HeadOnly
<1>1. Inv => HeadOnly
    BY DEF Inv
<1> QED BY <1>1, Invariance, PTL

\* Finish writes "completed" only for an input whose run is completed.
THEOREM TrueReceipts == Spec => []ReceiptsAreTrue
<1>1. Inv => ReceiptsAreTrue
    BY DEF Inv
<1> QED BY <1>1, Invariance, PTL

\* ReadyApprovalTx and Finish never miss each other: an input that waits for its
\* owner has something left to decide.  The types include the bound on attempts:
\* max_attempts and one, and one more for each crash and each stall.
THEOREM NoWakeupIsLost == Spec => []NoLostWakeup
<1>1. Inv => NoLostWakeup
    <2> SUFFICES ASSUME Inv PROVE TypeOK
        BY DEF Inv, NoLostWakeup, Parking
    <2>1. attempts \in [Input -> 0..(MaxAttempts + 1 + MaxCrashes + MaxStalls)]
        <3> SUFFICES ASSUME NEW i \in Input PROVE attempts[i] \in 0..(MaxAttempts + 1 + MaxCrashes + MaxStalls)
            BY DEF Inv, Typed
        <3>1. attempts[i] \in Nat /\ crashes \in 0..MaxCrashes /\ stalls \in 0..MaxStalls
            BY DEF Inv, Typed
        <3>2. attempts[i] <= MaxAttempts + 1 + crashes + stalls
            BY DEF Inv, AttemptsSpent
        <3> QED BY <3>1, <3>2, InputFacts
    <2> QED BY <2>1 DEF Inv, Typed, TypeOK, WorkerRecords
<1> QED BY <1>1, Invariance, PTL

\* No step of a worker, however late, reopens what is closed.
LEMMA WorkClosed ==
    ASSUME Inv, NEW w \in Workers, Work(w) PROVE StaysClosed
<1> DEFINE i == worker[w].input
<1>1. /\ status \in [Input -> {"none", "queued", "running"} \cup Parked \cup Terminal]
      /\ run \in [Input -> {"none", "early", "active", "awaiting_approval"} \cup RunEnded]
      /\ CancelledRuns
    BY DEF Inv, Typed
<1>2. ASSUME NEW k \in Input, Claim(w, k) PROVE StaysClosed
    BY <1>1, <1>2 DEF Claim, Candidate, StaysClosed, Terminal
<1>3. CASE Process(w) \/ ReadDecision(w) \/ AcquireLease(w) \/ Finalize(w) \/ Stop(w) \/ ReleaseLease(w)
    <2>1. UNCHANGED <<status, run>>
        BY <1>3 DEF Process, ReadDecision, AcquireLease, Finalize, Stop, ReleaseLease, columns
    <2> QED BY <2>1 DEF StaysClosed
<1>4. CASE Start(w) \/ FailRun(w)
    <2>1. i \in Input /\ UNCHANGED status
        BY <1>4, AtWork DEF Start, FailRun, columns
    <2>2. /\ \A k \in Input \ {i} : run'[k] = run[k]
          /\ run[i] \in RunEnded => run'[i] = run[i]
          /\ run[i] # "completed" => run'[i] # "completed"
        BY <1>1, <1>4, <2>1 DEF Start, FailRun, RunEnded
    <2> QED BY <2>1, <2>2 DEF StaysClosed
<1>5. CASE Prepare(w) \/ ContinueApproved(w) \/ Suspend(w)
    <2>1. i \in Input /\ UNCHANGED status
        BY ZenonT(30), <1>5, AtWork DEF Prepare, ContinueApproved, Suspend
    <2>2. run[i] \in {"early", "active", "awaiting_approval"}
        BY ZenonT(30), <1>5 DEF Prepare, ContinueApproved, Suspend
    <2>3. run' = run \/ run' = [run EXCEPT ![i] = "active"] \/ run' = [run EXCEPT ![i] = "awaiting_approval"]
        BY ZenonT(30), <1>5 DEF Prepare, ContinueApproved, Suspend
    <2> QED BY <1>1, <2>1, <2>2, <2>3 DEF StaysClosed, RunEnded
<1>6. CASE Save(w)
    <2>1. i \in Input /\ UNCHANGED status /\ run[i] = "active" /\ run' = [run EXCEPT ![i] = "completed"]
        BY ZenonT(30), <1>6, AtWork DEF Save, columns
    <2>2. status[i] # "cancelled"
        BY <1>1, <2>1 DEF CancelledRuns, RunEnded
    <2> QED BY <1>1, <2>1, <2>2 DEF StaysClosed, RunEnded
<1>7. CASE Finish(w)
    <2>1. UNCHANGED run /\ (UNCHANGED status \/ (OwnsClaim(w) /\ status' = [status EXCEPT ![i] = Finished(w)]))
        BY <1>7 DEF Finish
    <2> QED BY <1>1, <2>1 DEF StaysClosed, OwnsClaim, Terminal
<1> QED BY <1>2, <1>3, <1>4, <1>5, <1>6, <1>7 DEF Work

LEMMA NextClosed == Inv /\ [Next]_vars => [StaysClosed]_vars
<1> SUFFICES ASSUME Inv, Next PROVE StaysClosed
    OBVIOUS
<1>1. /\ status \in [Input -> {"none", "queued", "running"} \cup Parked \cup Terminal]
      /\ run \in [Input -> {"none", "early", "active", "awaiting_approval"} \cup RunEnded]
    BY DEF Inv, Typed
<1>2. ASSUME NEW i \in Input, Accept(i) \/ Deadline(i) \/ ApprovalDeadline(i) \/ ClaimExpires(i) PROVE StaysClosed
    BY <1>1, <1>2 DEF Accept, Deadline, ApprovalDeadline, ClaimExpires, columns, StaysClosed, Terminal
<1>3. ASSUME NEW i \in Input, NEW b \in BOOLEAN, ResolveDurable(i, b) PROVE StaysClosed
    BY <1>1, <1>3 DEF ResolveDurable, ReadyApproval, Resumable, StaysClosed, Terminal
<1>4. ASSUME NEW i \in Input, OwnerControl(i) PROVE StaysClosed
    BY <1>1, <1>4 DEF OwnerControl, StaysClosed, Terminal, RunEnded
<1>5. ASSUME NEW i \in Input, FinalizeStopped(i) PROVE StaysClosed
    BY ZenonT(30), <1>1, <1>5 DEF FinalizeStopped, StoppedAttempt, StaysClosed, Terminal, RunEnded
<1>6. ASSUME NEW s \in Sessions, ResolveAmbiguous(s) \/ LeaseExpires(s) PROVE StaysClosed
    BY ZenonT(30), <1>6 DEF ResolveAmbiguous, LeaseExpires, columns, StaysClosed, Terminal
<1>7. CASE ExpireQueued \/ ListInvalid
    BY <1>7 DEF ExpireQueued, ListInvalid, columns, StaysClosed, Terminal
<1>8. ASSUME NEW w \in Workers, Crash(w) \/ Shutdown(w) PROVE StaysClosed
    BY ZenonT(30), <1>8 DEF Crash, Shutdown, Abandon, StaysClosed
<1>9. CASE ReviewNext
    <2>1. PICK i \in Input : Review(i)
        BY <1>9 DEF ReviewNext, Inv, Typed
    <2> QED BY ZenonT(30), <2>1, <1>3 DEF Review, columns, StaysClosed
<1> QED BY <1>2, <1>3, <1>4, <1>5, <1>6, <1>7, <1>8, <1>9, WorkClosed DEF Next, Decide

\* A closed input is never taken back into the queue, how a run ended is never
\* rewritten, and the run of an input an owner's control cancelled does not complete
\* afterwards, whichever worker, decision, sweep or finalizer comes late.
THEOREM WhatIsClosedStaysClosed == Spec => ClosedForever
BY Invariance, NextClosed, PTL DEF Spec, ClosedForever
=============================================================================
