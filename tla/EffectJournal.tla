--------------------------- MODULE EffectJournal ---------------------------
(***************************************************************************)
(* The journal of ONE external effect and everything that writes it:       *)
(* Prepare, Authorize and ExecuteToolCall of the tool broker, the          *)
(* transactions of actionauth.PostgresStore, and reconciliation.           *)
(*                                                                         *)
(* The effect is one logical action slot.  Each of the Runs holds at most  *)
(* one action on it (one tool call; a second run is linked to the slot of  *)
(* the first), hence one row of action_intents and of                      *)
(* action_authorizations.  Calls are ExecuteToolCall handlers: RPCs may be *)
(* late, repeated and concurrent, and a handler may die at any point.      *)
(*                                                                         *)
(* Each store operation is one transaction that locks the action_effects   *)
(* row FOR UPDATE and re-reads what it decides on, so it is one step.  The *)
(* live context is read before, in a step of its own, and may be stale     *)
(* when the store is called.                                               *)
(***************************************************************************)
EXTENDS Naturals

CONSTANTS
    Runs,       \* runs whose tool call is bound to this effect
    Calls,      \* concurrent ExecuteToolCall handlers
    Methods,    \* the verification methods an effect may be declared with
    MaxGrants,  \* bound: authorizations issued
    MaxEpoch    \* bound: fence_epoch of the session

NoRun == "no run"
NoGrant == 0
Grants == 1..MaxGrants

\* "receipt": external_receipt_v1.  "ack": read_result, local_runtime_ack.
\* "guarded": a runtime that can prove a refusal before any input
\* (browser GET, local preparation).  "none": no verification.
AllMethods == {"receipt", "ack", "guarded", "none"}

ASSUME RunsAssumption == NoRun \notin Runs
ASSUME MethodsAssumption == Methods \subseteq AllMethods
ASSUME GrantsAssumption == MaxGrants \in Nat
ASSUME EpochAssumption == MaxEpoch \in Nat

VARIABLES
    method,         \* the pinned EffectPolicy.VerificationMethod
    state,          \* action_effects.state, "none" before the row exists
    authorization,  \* action_effects.authorization_id
    outcome,        \* action_effects.dispatch_outcome
    intent,         \* runs with a row in action_intents
    grant_id,       \* grant_id[r]: authorization_id of r's action_authorizations row
    grant_state,    \* grant_state[r]: its state
    grant_epoch,    \* grant_epoch[r]: LeaseEpoch in its grant_data
    grant_fresh,    \* grant_fresh[r]: expires_at has not passed
    issued,         \* authorization ids drawn; ids are random and never repeat
    dispatch,       \* dispatch[g]: outcome of action_effect_dispatches row g
    holder,         \* run named by the live session lease
    fence_epoch,    \* fence epoch of session_ownership
    run_state,      \* run_state[r], abstracted to what the guards tell apart
    authority,      \* the task is active at the revision the runs are pinned to
    contexts,       \* <<run, epoch>> read live by a Prepare or Authorize under way
    at,             \* at[c]: where handler c is
    call_run,       \* call_run[c]: run of the tool call it serves
    call_grant,     \* call_grant[c]: the AuthorizationId it was given
    call_epoch,     \* call_epoch[c]: lease epoch of the context it read
    reply,          \* reply[c]: what it answered
    wire,           \* grants whose request is on its way to the recipient
    recipient,      \* what the recipient has recorded for this effect
    acceptances,    \* how often the recipient performed the effect
    observation     \* receipt captured by a separately journaled lookup

effectRow == <<state, authorization, outcome>>
grantRows == <<grant_id, grant_state, grant_epoch, grant_fresh, issued>>
journal == <<effectRow, intent, grantRows, dispatch>>
session == <<holder, fence_epoch, run_state, authority, contexts>>
calls == <<at, call_run, call_grant, call_epoch, reply>>
world == <<wire, recipient, acceptances, observation>>
vars == <<method, journal, session, calls, world>>

Verdicts == {"effect_confirmed", "effect_absent", "effect_unknown"}
EffectStates == {"none", "prepared", "allowed", "executing"} \cup Verdicts
GrantStates == {"none", "authorized", "inflight", "dispatch_completed", "unknown"}
DispatchOutcomes == {"none", "executing", "dispatch_completed", "unknown"}

\* "tool": tool_pending, awaiting_approval, tool_running.  "other": any other
\* open state.  "closed": finalizing, completed, failed, cancelled.
RunStates == {"tool", "other", "closed"}
HandlerStates == {"idle", "received", "checked", "verified", "rechecked", "ready",
                  "claimed", "sent", "replied"}

\* "failed": an ordinary failure, no effect metadata.  Otherwise the reply
\* carries the effect's state; executing is reported as unknown.
Replies == {"none", "failed"} \cup Verdicts

\* Every variable has its type: the rows of the journal, the lease, the
\* handlers of ExecuteToolCall and the recipient.
TypeOK ==
    /\ method \in AllMethods
    /\ state \in EffectStates
    /\ authorization \in Grants \cup {NoGrant}
    /\ outcome \in DispatchOutcomes
    /\ intent \subseteq Runs
    /\ grant_id \in [Runs -> Grants \cup {NoGrant}]
    /\ grant_state \in [Runs -> GrantStates]
    /\ grant_epoch \in [Runs -> Nat]
    /\ grant_fresh \in [Runs -> BOOLEAN]
    /\ issued \in Grants \cup {0}
    /\ dispatch \in [Grants -> DispatchOutcomes]
    /\ holder \in Runs \cup {NoRun}
    /\ fence_epoch \in Nat
    /\ run_state \in [Runs -> RunStates]
    /\ authority \in BOOLEAN
    /\ contexts \subseteq Runs \X Nat
    /\ at \in [Calls -> HandlerStates]
    /\ call_run \in [Calls -> Runs \cup {NoRun}]
    /\ call_grant \in [Calls -> Grants \cup {NoGrant}]
    /\ call_epoch \in [Calls -> Nat]
    /\ reply \in [Calls -> Replies]
    /\ wire \subseteq Grants
    /\ recipient \in {"untouched", "accepted", "rejected"}
    /\ acceptances \in Nat
    /\ observation \in {"none", "accepted", "rejected"}

Init ==
    /\ method \in Methods
    /\ state = "none" /\ authorization = NoGrant /\ outcome = "none"
    /\ intent = {}
    /\ grant_id = [r \in Runs |-> NoGrant]
    /\ grant_state = [r \in Runs |-> "none"]
    /\ grant_epoch = [r \in Runs |-> 0]
    /\ grant_fresh = [r \in Runs |-> FALSE]
    /\ issued = 0
    /\ dispatch = [g \in Grants |-> "none"]
    /\ holder = NoRun /\ fence_epoch = 0
    /\ run_state = [r \in Runs |-> "other"]
    /\ authority = TRUE /\ contexts = {}
    /\ at = [c \in Calls |-> "idle"]
    /\ call_run = [c \in Calls |-> NoRun]
    /\ call_grant = [c \in Calls |-> NoGrant]
    /\ call_epoch = [c \in Calls |-> 0]
    /\ reply = [c \in Calls |-> "none"]
    /\ wire = {} /\ recipient = "untouched" /\ acceptances = 0
    /\ observation = "none"

-----------------------------------------------------------------------------
(* The session, its runs and the owner, as far as the guards read them.     *)

AcquireLease(r) ==
    /\ holder = NoRun
    /\ run_state[r] # "closed"
    /\ fence_epoch < MaxEpoch
    /\ holder' = r /\ fence_epoch' = fence_epoch + 1
    /\ UNCHANGED <<method, journal, run_state, authority, contexts, calls, world>>

\* Release, expiry or revocation.
LeaseEnds ==
    /\ holder # NoRun
    /\ holder' = NoRun
    /\ UNCHANGED <<method, journal, fence_epoch, run_state, authority, contexts, calls, world>>

\* An open run moves under its lease; a stopped one is also closed without it.
TransitionRun(r) ==
    \E s \in RunStates :
        /\ run_state[r] # "closed" /\ s # run_state[r]
        /\ holder = r \/ s = "closed"
        /\ run_state' = [run_state EXCEPT ![r] = s]
        /\ UNCHANGED <<method, journal, holder, fence_epoch, authority, contexts, calls, world>>

\* A control of the task: lease revoked, runs cancelled, revision advanced.
OwnerControl ==
    /\ authority
    /\ authority' = FALSE /\ holder' = NoRun
    /\ run_state' = [r \in Runs |-> "closed"]
    /\ UNCHANGED <<method, journal, fence_epoch, contexts, calls, world>>

-----------------------------------------------------------------------------
(* Prepare and Authorize.                                                   *)

\* liveContext and binding.  The conditions on contract, mode, mandate and
\* approval are left to the environment: they can only refuse the call.
liveContext(r) == holder = r /\ run_state[r] = "tool" /\ authority

\* A Prepare or an Authorize of r reads the context; it may store much later.
ReadContext(r) ==
    /\ liveContext(r)
    /\ contexts' = contexts \cup {<<r, fence_epoch>>}
    /\ UNCHANGED <<method, journal, holder, fence_epoch, run_state, authority, calls, world>>

\* PutIntent: the effect row is inserted once and kept on conflict.  The upgrade
\* of a row from before the fingerprints, which changes no state, is left out.
Prepare(r) ==
    /\ \E e \in 0..MaxEpoch : <<r, e>> \in contexts
    /\ intent' = intent \cup {r}
    /\ state' = IF state = "none" THEN "prepared" ELSE state
    /\ UNCHANGED <<method, authorization, outcome, grantRows, dispatch, session, calls, world>>

\* PutGrant.  Only an unused authorization is replaced by a fresh one.
Refreshable(r) == grant_state[r] \in {"none", "authorized"}

\* Mutant: another run's grant does not look at the effect's state.
Undispatched_Unchecked == state # "none"

\* The effect linked to the intent has not been dispatched, by whatever run.
Undispatched == state \in {"prepared", "allowed"}

Authorize(r, e) ==
    /\ <<r, e>> \in contexts /\ r \in intent
    /\ issued < MaxGrants
    /\ Undispatched /\ Refreshable(r)
    /\ issued' = issued + 1
    /\ grant_id' = [grant_id EXCEPT ![r] = issued + 1]
    /\ grant_state' = [grant_state EXCEPT ![r] = "authorized"]
    /\ grant_epoch' = [grant_epoch EXCEPT ![r] = e]
    /\ grant_fresh' = [grant_fresh EXCEPT ![r] = TRUE]
    /\ state' = "allowed" /\ authorization' = issued + 1
    /\ UNCHANGED <<method, outcome, intent, dispatch, session, calls, world>>

GrantExpires(r) ==
    /\ grant_fresh[r]
    /\ grant_fresh' = [grant_fresh EXCEPT ![r] = FALSE]
    /\ UNCHANGED <<method, effectRow, intent, grant_id, grant_state, grant_epoch, issued,
                   dispatch, session, calls, world>>

-----------------------------------------------------------------------------
(* ExecuteToolCall.                                                         *)

\* The handler is gone, with what it knew.
Leave(c, where) ==
    /\ at' = [at EXCEPT ![c] = where]
    /\ call_run' = [call_run EXCEPT ![c] = NoRun]
    /\ call_grant' = [call_grant EXCEPT ![c] = NoGrant]
    /\ call_epoch' = [call_epoch EXCEPT ![c] = 0]

Answer(c, what) ==
    /\ Leave(c, "replied")
    /\ reply' = [reply EXCEPT ![c] = what]

Goto(c, where) ==
    /\ at' = [at EXCEPT ![c] = where]
    /\ UNCHANGED <<call_run, call_grant, call_epoch, reply>>

\* The worker of r sends the authorization it was given; it may do so again.
Receive(c, r) ==
    /\ at[c] \in {"idle", "replied"}
    /\ grant_id[r] # NoGrant
    /\ at' = [at EXCEPT ![c] = "received"]
    /\ call_run' = [call_run EXCEPT ![c] = r]
    /\ call_grant' = [call_grant EXCEPT ![c] = grant_id[r]]
    /\ reply' = [reply EXCEPT ![c] = "none"]
    /\ UNCHANGED <<method, journal, session, call_epoch, world>>

\* RecordedEffect: the same proposal, already dispatched.
Recorded(c) ==
    LET r == call_run[c] IN
    /\ grant_id[r] = call_grant[c]
    /\ grant_state[r] \notin {"none", "authorized"}

ReportedState == IF state = "executing" THEN "effect_unknown" ELSE state

\* Only the first verification looks the effect up when it fails.
Denied(c) ==
    Answer(c, IF at[c] \in {"received", "checked"} /\ Recorded(c)
                THEN ReportedState ELSE "failed")

\* Verify, run twice: it reads the live context ...
VerifyContext(c) ==
    /\ at[c] \in {"received", "verified"}
    /\ \/ /\ liveContext(call_run[c])
          /\ at' = [at EXCEPT ![c] = IF @ = "received" THEN "checked" ELSE "rechecked"]
          /\ call_epoch' = [call_epoch EXCEPT ![c] = fence_epoch]
          /\ UNCHANGED <<call_run, call_grant, reply>>
       \/ ~liveContext(call_run[c]) /\ Denied(c)
    /\ UNCHANGED <<method, journal, session, world>>

\* ... and then the grant the call names.
Verified(c) ==
    LET r == call_run[c] IN
    /\ grant_id[r] = call_grant[c]
    /\ grant_state[r] = "authorized" /\ grant_fresh[r]
    /\ grant_epoch[r] = call_epoch[c]

Verify(c) ==
    /\ at[c] \in {"checked", "rechecked"}
    /\ \/ /\ Verified(c)
          /\ at' = [at EXCEPT ![c] = IF @ = "checked" THEN "verified" ELSE "ready"]
          /\ call_epoch' = [call_epoch EXCEPT ![c] = 0]
          /\ UNCHANGED <<call_run, call_grant, reply>>
       \/ ~Verified(c) /\ Denied(c)
    /\ UNCHANGED <<method, journal, session, world>>

\* Credentials, arguments, resource admission or budget refuse the call.
Refuse(c) ==
    /\ at[c] \in {"verified", "ready"}
    /\ Answer(c, "failed")
    /\ UNCHANGED <<method, journal, session, world>>

\* guardDispatch: the live lease of the grant's epoch, an open run, the task.
guardDispatch(r) ==
    /\ holder = r /\ grant_epoch[r] = fence_epoch
    /\ run_state[r] # "closed"
    /\ authority

Claimable(c) ==
    LET r == call_run[c] IN
    /\ grant_id[r] = call_grant[c]
    /\ guardDispatch(r)
    /\ state = "allowed" /\ authorization = call_grant[c]
    /\ grant_state[r] = "authorized" /\ grant_fresh[r]

\* ClaimGrant: the irreversible commit before the runtime is contacted.
Claim(c) ==
    /\ at[c] = "ready"
    /\ \/ /\ Claimable(c)
          /\ Goto(c, "claimed")
          /\ grant_state' = [grant_state EXCEPT ![call_run[c]] = "inflight"]
          /\ state' = "executing" /\ outcome' = "executing"
          /\ dispatch' = [dispatch EXCEPT ![call_grant[c]] = "executing"]
       \/ /\ ~Claimable(c)
          /\ Answer(c, "failed")
          /\ UNCHANGED <<grant_state, state, outcome, dispatch>>
    /\ UNCHANGED <<method, authorization, intent, grant_id, grant_epoch, grant_fresh, issued,
                   session, world>>

\* The runtime is called, or the budget's deadline has already passed.
Execute(c) ==
    /\ at[c] = "claimed"
    /\ \/ Goto(c, "sent") /\ wire' = wire \cup {call_grant[c]}
       \/ Answer(c, "effect_unknown") /\ UNCHANGED wire
    /\ UNCHANGED <<method, journal, session, recipient, acceptances, observation>>

\* Outcome: the pairs <<dispatch outcome, verdict>> a runtime response
\* supports.  A response exists once the recipient has acted; it may also be
\* lost, late or unusable.
Answered(c) == call_grant[c] \notin wire /\ recipient # "untouched"

\* Mutant: a completed dispatch is taken for a confirmed effect.
Evidence_TrustCompletion(c) ==
    {<<"unknown", "effect_unknown">>}
    \cup (IF Answered(c) THEN {<<"dispatch_completed", "effect_confirmed">>} ELSE {})

Evidence(c) ==
    {<<"unknown", "effect_unknown">>}
    \cup (IF Answered(c) /\ method # "ack"
           THEN {<<"dispatch_completed", "effect_unknown">>} ELSE {})
    \cup (IF Answered(c) /\ recipient = "accepted" /\ method # "none"
           THEN {<<"dispatch_completed", "effect_confirmed">>} ELSE {})
    \cup (IF Answered(c) /\ recipient = "rejected" /\ method = "guarded"
           THEN {<<"dispatch_completed", "effect_absent">>} ELSE {})

\* Mutant: the rows are not re-read under lock.
RecordDispatchOutcome_Unlocked(c, result, verdict) ==
    LET r == call_run[c] IN
    /\ grant_state' = [grant_state EXCEPT ![r] = result]
    /\ dispatch' = [dispatch EXCEPT ![call_grant[c]] = result]
    /\ state' = verdict /\ outcome' = result
    /\ Answer(c, verdict)

RecordDispatchOutcome(c, result, verdict) ==
    LET r == call_run[c] IN
    /\ grant_id[r] = call_grant[c] /\ grant_state[r] = "inflight"
    /\ state = "executing" /\ authorization = call_grant[c]
    /\ grant_state' = [grant_state EXCEPT ![r] = result]
    /\ dispatch' = [dispatch EXCEPT ![call_grant[c]] = result]
    /\ state' = verdict /\ outcome' = result
    /\ Answer(c, verdict)

Outcome(c) ==
    /\ at[c] = "sent"
    /\ \/ \E e \in Evidence(c) : RecordDispatchOutcome(c, e[1], e[2])
       \/ \* the row was settled by others, or the database refused the write
          /\ Answer(c, "effect_unknown")
          /\ UNCHANGED <<grant_state, dispatch, state, outcome>>
    /\ UNCHANGED <<method, authorization, intent, grant_id, grant_epoch, grant_fresh, issued,
                   session, world>>

\* The broker dies; its caller gets no answer.
Crash(c) ==
    /\ at[c] \notin {"idle", "replied"}
    /\ Leave(c, "idle")
    /\ UNCHANGED <<method, journal, session, reply, world>>

-----------------------------------------------------------------------------
(* The recipient, and recovery of an uncertain effect.                      *)

\* A request arrives, perhaps long after its handler gave up.
RecipientActs(g) ==
    /\ g \in wire
    /\ wire' = wire \ {g}
    /\ \/ recipient' = "accepted" /\ acceptances' = acceptances + 1
       \/ /\ recipient' = IF recipient = "accepted" THEN "accepted" ELSE "rejected"
          /\ UNCHANGED acceptances
    /\ UNCHANGED <<method, journal, session, calls, observation>>

\* An authorized read of the verification URL; an unknown key has no receipt.
Lookup ==
    /\ method = "receipt"
    /\ recipient # "untouched" /\ observation # recipient
    /\ observation' = recipient
    /\ UNCHANGED <<method, journal, session, calls, wire, recipient, acceptances>>

\* What Reconcile and MarkInterrupted do to the ledgers of an open dispatch.
\* Mutant: the dispatch row forgotten.
CloseDispatch_GrantOnly ==
    /\ outcome' = IF outcome = "executing" THEN "unknown" ELSE outcome
    /\ grant_state' = [r \in Runs |->
           IF grant_id[r] = authorization /\ grant_state[r] = "inflight"
             THEN "unknown" ELSE grant_state[r]]
    /\ UNCHANGED dispatch

CloseDispatch ==
    /\ outcome' = IF outcome = "executing" THEN "unknown" ELSE outcome
    /\ grant_state' = [r \in Runs |->
           IF grant_id[r] = authorization /\ grant_state[r] = "inflight"
             THEN "unknown" ELSE grant_state[r]]
    /\ dispatch' = [g \in Grants |->
           IF g = authorization /\ dispatch[g] = "executing" THEN "unknown" ELSE dispatch[g]]

ReconcileEffect ==
    /\ observation # "none" /\ method = "receipt"
    /\ state \in {"effect_unknown", "executing"}
    /\ state' = IF observation = "accepted" THEN "effect_confirmed" ELSE "effect_absent"
    /\ CloseDispatch
    /\ UNCHANGED <<method, authorization, intent, grant_id, grant_epoch, grant_fresh, issued,
                   session, calls, world>>

\* An operation of the store; recovery may call it, nothing in src/ does yet.
MarkInterruptedEffect ==
    /\ state = "executing"
    /\ state' = "effect_unknown"
    /\ CloseDispatch
    /\ UNCHANGED <<method, authorization, intent, grant_id, grant_epoch, grant_fresh, issued,
                   session, calls, world>>

-----------------------------------------------------------------------------
Next ==
    \/ \E r \in Runs :
         \/ AcquireLease(r) \/ TransitionRun(r) \/ ReadContext(r) \/ Prepare(r)
         \/ \E e \in 0..MaxEpoch : Authorize(r, e)
         \/ GrantExpires(r)
    \/ LeaseEnds \/ OwnerControl
    \/ \E c \in Calls :
         \/ \E r \in Runs : Receive(c, r)
         \/ VerifyContext(c) \/ Verify(c) \/ Refuse(c) \/ Claim(c)
         \/ Execute(c) \/ Outcome(c) \/ Crash(c)
    \/ \E g \in Grants : RecipientActs(g)
    \/ Lookup \/ ReconcileEffect \/ MarkInterruptedEffect

Spec == Init /\ [][Next]_vars

-----------------------------------------------------------------------------
(* Properties.                                                              *)

\* However often the call is repeated, authorized again after a takeover or
\* linked to another run, at most one dispatch of the effect is ever
\* journaled, and the recipient performs it at most once (PutGrant's check of
\* the effect's state and ClaimGrant's CAS against replays and takeovers).
DispatchedAtMostOnce ==
    /\ \A g, h \in Grants : dispatch[g] # "none" /\ dispatch[h] # "none" => g = h
    /\ acceptances <= 1

\* The three ledgers that ClaimGrant, RecordDispatchOutcome, ReconcileEffect
\* and MarkInterruptedEffect write agree: a grant is in flight, and a dispatch
\* open, exactly while the effect is executing under that authorization.
LedgersAgree ==
    /\ \A r \in Runs :
         grant_state[r] = "inflight" <=> state = "executing" /\ grant_id[r] = authorization
    /\ \A g \in Grants : dispatch[g] = "executing" <=> state = "executing" /\ g = authorization

\* A settled verdict is true of the recipient, now and for as long as a
\* request could still arrive: confirmed means it performed the effect, absent
\* that it has not and no request is on its way.
VerdictTruthful ==
    /\ state = "effect_confirmed" => recipient = "accepted"
    /\ state = "effect_absent" => recipient = "rejected" /\ wire = {}

\* A confirmed or absent effect is never rewritten: not by a late response, a
\* stale lookup, recovery or a new authorization.
VerdictFinal == [][(state \in {"effect_confirmed", "effect_absent"}) => state' = state]_vars

\* "It prevents a repeated RPC from hiding an uncertain effect as an ordinary
\* validation failure" (RecordedEffect): a handler never answers "failed" for
\* an authorization whose own effect is executing or unknown.
RepeatNotHidden ==
    [][\A c \in Calls :
         reply[c] = "none" /\ reply'[c] = "failed"
           => ~(state \in {"executing", "effect_unknown"} /\ authorization = call_grant[c])]_vars
=============================================================================
