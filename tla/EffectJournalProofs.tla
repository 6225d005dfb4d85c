------------------------ MODULE EffectJournalProofs ------------------------
(***************************************************************************)
(* Proofs about EffectJournal, for any number of runs, handlers, grants    *)
(* and takeovers.  The argument: an authorization id is drawn once and     *)
(* belongs to one run (IdsUnique); the effect leaves "allowed" only for    *)
(* the authorization it names and never returns, so at most one dispatch   *)
(* row exists (OneDispatch); one handler at most holds that claim before   *)
(* it sends, and the recipient is untouched until the request arrives      *)
(* (OneRequest); after that nothing can reach the recipient any more, so a *)
(* verdict stays true.                                                     *)
(***************************************************************************)
EXTENDS EffectJournal, TLAPS

BeforeDispatch == {"none", "prepared", "allowed"}
Active(c) == at[c] \notin {"idle", "replied"}
Claiming(c) == at[c] = "claimed"
Waiting(c) == at[c] = "sent"

IdsUnique ==
    /\ authorization <= issued
    /\ state = "allowed" => authorization # NoGrant
    /\ \A r \in Runs : grant_id[r] <= issued
    /\ \A r, q \in Runs : grant_id[r] # NoGrant /\ grant_id[r] = grant_id[q] => r = q
    /\ \A r \in Runs : grant_state[r] # "none" => grant_id[r] # NoGrant

OneDispatch ==
    /\ \A g \in Grants : dispatch[g] # "none" => g = authorization /\ state \notin BeforeDispatch
    /\ \A r \in Runs : grant_state[r] \notin {"none", "authorized"} => state \notin BeforeDispatch

CallsBound ==
    /\ \A c \in Calls : Active(c) => call_run[c] \in Runs /\ call_grant[c] \in Grants
    /\ \A c \in Calls : Claiming(c) \/ Waiting(c) =>
         state \notin BeforeDispatch /\ call_grant[c] = authorization

OneClaimant ==
    /\ \A c \in Calls : Claiming(c) => wire = {} /\ recipient = "untouched"
    /\ \A c, d \in Calls : Claiming(c) /\ (Claiming(d) \/ Waiting(d)) => c = d

OneRequest ==
    /\ wire \subseteq {authorization}
    /\ wire # {} => recipient = "untouched" /\ state \notin BeforeDispatch
    /\ recipient # "untouched" => state \notin BeforeDispatch
    /\ acceptances = IF recipient = "accepted" THEN 1 ELSE 0
    /\ observation # "none" => observation = recipient

IInv ==
    /\ TypeOK
    /\ IdsUnique
    /\ LedgersAgree
    /\ OneDispatch
    /\ CallsBound
    /\ OneClaimant
    /\ OneRequest
    /\ VerdictTruthful

USE DEF Grants, NoGrant, BeforeDispatch

\* A journal without a row, and nothing under way, satisfies the invariant.
LEMMA InitOK == Init => IInv
BY RunsAssumption, MethodsAssumption, GrantsAssumption, EpochAssumption
DEF Init, IInv, TypeOK, IdsUnique, LedgersAgree, OneDispatch, CallsBound, OneClaimant,
    OneRequest, VerdictTruthful,
    Active, Claiming, Waiting, AllMethods, EffectStates, Verdicts, GrantStates, DispatchOutcomes,
        RunStates, HandlerStates, Replies

\* What a handler may do to its own variables keeps their types.
LEMMA CallsTyped ==
    ASSUME TypeOK, NEW c \in Calls,
           call_run' = call_run \/ call_run' = [call_run EXCEPT ![c] = NoRun],
           call_grant' = call_grant \/ call_grant' = [call_grant EXCEPT ![c] = NoGrant],
           \E e \in Nat : call_epoch' = call_epoch \/ call_epoch' = [call_epoch EXCEPT ![c] = e]
    PROVE  /\ call_run' \in [Calls -> Runs \cup {NoRun}]
           /\ call_grant' \in [Calls -> Grants \cup {NoGrant}]
           /\ call_epoch' \in [Calls -> Nat]
<1>1. call_run' \in [Calls -> Runs \cup {NoRun}]
  BY DEF TypeOK
<1>2. call_grant' \in [Calls -> Grants \cup {NoGrant}]
  BY DEF TypeOK
<1>3. call_epoch' \in [Calls -> Nat]
  BY DEF TypeOK
<1> QED BY <1>1, <1>2, <1>3

\* Most steps leave alone everything the invariant relates.
LEMMA Untouched ==
    ASSUME IInv, TypeOK',
           UNCHANGED <<effectRow, grant_id, grant_state, issued, dispatch, calls, world>>
    PROVE  IInv'
BY DEF IInv, IdsUnique, LedgersAgree, OneDispatch, CallsBound, OneClaimant, OneRequest,
   VerdictTruthful, Active, Claiming, Waiting, effectRow, calls, world

\* A handler that neither claims nor sends disturbs only what is bound to it.
LEMMA HandlerMoves ==
    ASSUME IInv, TypeOK', NEW c \in Calls, UNCHANGED <<journal, world>>,
           at' = [at EXCEPT ![c] = at'[c]], at'[c] \notin {"claimed", "sent"},
           call_run' = [call_run EXCEPT ![c] = call_run'[c]],
           call_grant' = [call_grant EXCEPT ![c] = call_grant'[c]],
           Active(c)' => call_run'[c] \in Runs /\ call_grant'[c] \in Grants
    PROVE  IInv'
<1> USE DEF IInv, TypeOK, journal, effectRow, grantRows, world
<1>1. IdsUnique' /\ LedgersAgree' /\ OneDispatch' /\ OneRequest' /\ VerdictTruthful'
  BY DEF IdsUnique, LedgersAgree, OneDispatch, OneRequest, VerdictTruthful
<1>2. CallsBound'
  BY DEF CallsBound, Active, Claiming, Waiting
<1>3. \A d \in Calls : at'[d] \in {"claimed", "sent"} => at[d] = at'[d]
  OBVIOUS
<1>4. OneClaimant'
  BY <1>3 DEF OneClaimant, Claiming, Waiting
<1> QED BY <1>1, <1>2, <1>4

\* A step AcquireLease keeps the invariant.
LEMMA AcquireLeaseOK == ASSUME IInv, NEW r \in Runs, AcquireLease(r) PROVE IInv'
<1> USE DEF IInv, AcquireLease, vars, journal, session, calls, world, effectRow, grantRows
<1>1. TypeOK'
  BY EpochAssumption DEF TypeOK
<1> QED BY <1>1, Untouched

\* A step LeaseEnds keeps the invariant.
LEMMA LeaseEndsOK == ASSUME IInv, LeaseEnds PROVE IInv'
BY Untouched, EpochAssumption
DEF LeaseEnds, IInv, TypeOK, vars, journal, session, calls, world, effectRow, grantRows

\* A step TransitionRun keeps the invariant.
LEMMA TransitionRunOK == ASSUME IInv, NEW r \in Runs, TransitionRun(r) PROVE IInv'
BY Untouched, EpochAssumption
DEF TransitionRun, RunStates, IInv, TypeOK, vars, journal, session, calls, world, effectRow,
    grantRows

\* A step OwnerControl keeps the invariant.
LEMMA OwnerControlOK == ASSUME IInv, OwnerControl PROVE IInv'
BY Untouched, EpochAssumption
DEF OwnerControl, RunStates, IInv, TypeOK, vars, journal, session, calls, world, effectRow,
    grantRows

\* A step ReadContext keeps the invariant.
LEMMA ReadContextOK == ASSUME IInv, NEW r \in Runs, ReadContext(r) PROVE IInv'
<1> USE DEF IInv, ReadContext, vars, journal, session, calls, world, effectRow, grantRows
<1>1. TypeOK'
  BY EpochAssumption DEF TypeOK
<1> QED BY <1>1, Untouched

\* A step Prepare keeps the invariant.
LEMMA PrepareOK == ASSUME IInv, NEW r \in Runs, Prepare(r) PROVE IInv'
<1> USE GrantsAssumption, EpochAssumption DEF IInv, TypeOK, Prepare, vars, journal, session,
    calls, world, effectRow, grantRows
<1>1. TypeOK'
  BY DEF EffectStates, Verdicts, GrantStates, DispatchOutcomes, RunStates, HandlerStates,
      Replies, IdsUnique, OneDispatch, CallsBound, Active
<1>2. IdsUnique'
  BY DEF IdsUnique
<1>3. LedgersAgree'
  BY DEF LedgersAgree, IdsUnique, CallsBound, Active
<1>4. OneDispatch'
  BY DEF OneDispatch, CallsBound, Active, Verdicts
<1>5. CallsBound'
  BY DEF CallsBound, Active, Claiming, Waiting, Verdicts
<1>6. OneClaimant'
  BY DEF OneClaimant, OneRequest, CallsBound, Active, Claiming, Waiting
<1>7. OneRequest'
  BY DEF OneRequest, OneClaimant, CallsBound, Claiming, Waiting, Verdicts
<1>8. VerdictTruthful'
  BY DEF VerdictTruthful, OneRequest
<1> QED BY <1>1, <1>2, <1>3, <1>4, <1>5, <1>6, <1>7, <1>8

\* A step Authorize keeps the invariant.
LEMMA AuthorizeOK == ASSUME IInv, NEW r \in Runs, NEW e \in 0..MaxEpoch, Authorize(r, e) PROVE IInv'
<1> USE GrantsAssumption, EpochAssumption DEF IInv, TypeOK, Authorize, Undispatched, Refreshable,
    vars, journal, session, calls, world, effectRow, grantRows
<1>1. TypeOK'
  BY DEF EffectStates, Verdicts, GrantStates, DispatchOutcomes, RunStates, HandlerStates,
      Replies, IdsUnique, OneDispatch, CallsBound, Active
<1>2. IdsUnique'
  BY DEF IdsUnique
<1>3. LedgersAgree'
  BY DEF LedgersAgree, IdsUnique, CallsBound, Active
<1>4. OneDispatch'
  BY DEF OneDispatch, CallsBound, Active, Verdicts
<1>5. CallsBound'
  BY DEF CallsBound, Active, Claiming, Waiting, Verdicts
<1>6. OneClaimant'
  BY DEF OneClaimant, OneRequest, CallsBound, Active, Claiming, Waiting
<1>7. OneRequest'
  BY DEF OneRequest, OneClaimant, CallsBound, Claiming, Waiting, Verdicts
<1>8. VerdictTruthful'
  BY DEF VerdictTruthful, OneRequest
<1> QED BY <1>1, <1>2, <1>3, <1>4, <1>5, <1>6, <1>7, <1>8

\* A step GrantExpires keeps the invariant.
LEMMA GrantExpiresOK == ASSUME IInv, NEW r \in Runs, GrantExpires(r) PROVE IInv'
BY Untouched, EpochAssumption
DEF GrantExpires, IInv, TypeOK, vars, journal, session, calls, world, effectRow, grantRows

\* A step Receive keeps the invariant.
LEMMA ReceiveOK == ASSUME IInv, NEW c \in Calls, NEW r \in Runs, Receive(c, r) PROVE IInv'
<1> USE GrantsAssumption DEF IInv, TypeOK, Receive, vars, journal, session, calls, world,
    effectRow, grantRows
<1>1. TypeOK'
  BY DEF HandlerStates, Replies, IdsUnique
<1> QED BY <1>1, HandlerMoves DEF Active

\* A step VerifyContext keeps the invariant.
LEMMA VerifyContextOK == ASSUME IInv, NEW c \in Calls, VerifyContext(c) PROVE IInv'
<1> USE GrantsAssumption, EpochAssumption
    DEF IInv, TypeOK, VerifyContext, Denied, Answer, Leave, ReportedState, Recorded, vars,
        journal, session, calls, world, effectRow, grantRows
<1>0. call_run[c] \in Runs /\ call_grant[c] \in Grants
  BY DEF CallsBound, Active
<1>a. Recorded(c) => ReportedState \in Verdicts
  BY <1>0 DEF OneDispatch, EffectStates, Verdicts
<1>b. at' = [at EXCEPT ![c] = at'[c]] /\ at'[c] \in HandlerStates \ {"claimed", "sent"}
  BY DEF HandlerStates
<1>1. TypeOK'
  <2>1. reply' \in [Calls -> Replies]
    BY <1>a DEF Replies
  <2>4. /\ call_run' \in [Calls -> Runs \cup {NoRun}]
        /\ call_grant' \in [Calls -> Grants \cup {NoGrant}]
        /\ call_epoch' \in [Calls -> Nat]
    <3>1. call_run' = call_run \/ call_run' = [call_run EXCEPT ![c] = NoRun]
      OBVIOUS
    <3>2. call_grant' = call_grant \/ call_grant' = [call_grant EXCEPT ![c] = NoGrant]
      OBVIOUS
    <3>3. \E e \in Nat : call_epoch' = call_epoch \/ call_epoch' = [call_epoch EXCEPT ![c] = e]
      OBVIOUS
    <3> QED BY <3>1, <3>2, <3>3, CallsTyped
  <2>5. at' \in [Calls -> HandlerStates]
    BY <1>b
  <2>6. UNCHANGED <<method, journal, session, world>>
    OBVIOUS
  <2> QED BY <2>1, <2>4, <2>5, <2>6
<1>2. (call_run' = call_run /\ call_grant' = call_grant) \/ at'[c] = "replied"
  OBVIOUS
<1>3. /\ call_run' = [call_run EXCEPT ![c] = call_run'[c]]
      /\ call_grant' = [call_grant EXCEPT ![c] = call_grant'[c]]
  OBVIOUS
<1> QED BY <1>0, <1>b, <1>1, <1>2, <1>3, HandlerMoves DEF Active

\* A step Verify keeps the invariant.
LEMMA VerifyOK == ASSUME IInv, NEW c \in Calls, Verify(c) PROVE IInv'
<1> USE GrantsAssumption, EpochAssumption
    DEF IInv, TypeOK, Verify, Denied, Answer, Leave, ReportedState, Recorded, vars, journal,
        session, calls, world, effectRow, grantRows
<1>0. call_run[c] \in Runs /\ call_grant[c] \in Grants
  BY DEF CallsBound, Active
<1>a. Recorded(c) => ReportedState \in Verdicts
  BY <1>0 DEF OneDispatch, EffectStates, Verdicts
<1>b. at' = [at EXCEPT ![c] = at'[c]] /\ at'[c] \in HandlerStates \ {"claimed", "sent"}
  BY DEF HandlerStates
<1>1. TypeOK'
  <2>1. reply' \in [Calls -> Replies]
    BY <1>a DEF Replies
  <2>4. /\ call_run' \in [Calls -> Runs \cup {NoRun}]
        /\ call_grant' \in [Calls -> Grants \cup {NoGrant}]
        /\ call_epoch' \in [Calls -> Nat]
    <3>1. call_run' = call_run \/ call_run' = [call_run EXCEPT ![c] = NoRun]
      OBVIOUS
    <3>2. call_grant' = call_grant \/ call_grant' = [call_grant EXCEPT ![c] = NoGrant]
      OBVIOUS
    <3>3. \E e \in Nat : call_epoch' = call_epoch \/ call_epoch' = [call_epoch EXCEPT ![c] = e]
      OBVIOUS
    <3> QED BY <3>1, <3>2, <3>3, CallsTyped
  <2>5. at' \in [Calls -> HandlerStates]
    BY <1>b
  <2>6. UNCHANGED <<method, journal, session, world>>
    OBVIOUS
  <2> QED BY <2>1, <2>4, <2>5, <2>6
<1>2. (call_run' = call_run /\ call_grant' = call_grant) \/ at'[c] = "replied"
  OBVIOUS
<1>3. /\ call_run' = [call_run EXCEPT ![c] = call_run'[c]]
      /\ call_grant' = [call_grant EXCEPT ![c] = call_grant'[c]]
  OBVIOUS
<1> QED BY <1>0, <1>b, <1>1, <1>2, <1>3, HandlerMoves DEF Active

\* A step Refuse keeps the invariant.
LEMMA RefuseOK == ASSUME IInv, NEW c \in Calls, Refuse(c) PROVE IInv'
<1> USE GrantsAssumption DEF IInv, TypeOK, Refuse, Answer, Leave, vars, journal, session, calls,
    world, effectRow, grantRows
<1>1. TypeOK'
  BY DEF HandlerStates, Replies, IdsUnique
<1> QED BY <1>1, HandlerMoves DEF Active

\* A step Claim keeps the invariant.
LEMMA ClaimOK == ASSUME IInv, NEW c \in Calls, Claim(c) PROVE IInv'
<1> USE GrantsAssumption, EpochAssumption DEF IInv, TypeOK, Claim, Claimable, Goto, Answer,
    Leave, vars, journal, session, calls, world, effectRow, grantRows
<1>0. call_run[c] \in Runs /\ call_grant[c] \in Grants
  BY DEF CallsBound, Active
<1>1. TypeOK'
  <2>1. at' \in [Calls -> HandlerStates] /\ reply' \in [Calls -> Replies]
    BY DEF HandlerStates, Replies
  <2>2. dispatch' \in [Grants -> DispatchOutcomes] /\ grant_state' \in [Runs -> GrantStates]
    BY <1>0 DEF DispatchOutcomes, GrantStates
  <2>3. state' \in EffectStates /\ outcome' \in DispatchOutcomes
    BY DEF EffectStates, DispatchOutcomes
  <2>4. /\ call_run' \in [Calls -> Runs \cup {NoRun}]
        /\ call_grant' \in [Calls -> Grants \cup {NoGrant}]
        /\ call_epoch' \in [Calls -> Nat]
    <3>1. call_run' = call_run \/ call_run' = [call_run EXCEPT ![c] = NoRun]
      OBVIOUS
    <3>2. call_grant' = call_grant \/ call_grant' = [call_grant EXCEPT ![c] = NoGrant]
      OBVIOUS
    <3>3. \E e \in Nat : call_epoch' = call_epoch \/ call_epoch' = [call_epoch EXCEPT ![c] = e]
      OBVIOUS
    <3> QED BY <3>1, <3>2, <3>3, CallsTyped
  <2> QED BY <2>1, <2>2, <2>3, <2>4
<1>2. IdsUnique'
  BY DEF IdsUnique
<1>3. LedgersAgree'
  <2>1. CASE Claimable(c) /\ dispatch' # dispatch
    <3>1. state' = "executing" /\ authorization' = authorization
          /\ authorization = call_grant[c] /\ grant_id[call_run[c]] = call_grant[c]
      BY <2>1
    <3>2. ASSUME NEW q \in Runs
          PROVE grant_state'[q] = "inflight" <=> grant_id[q] = authorization
      BY <1>0, <2>1, <3>1 DEF LedgersAgree, IdsUnique
    <3>3. ASSUME NEW g \in Grants PROVE dispatch'[g] = "executing" <=> g = authorization
      BY <1>0, <2>1, <3>1 DEF LedgersAgree
    <3> QED BY <3>1, <3>2, <3>3 DEF LedgersAgree
  <2>2. CASE UNCHANGED <<grant_state, state, outcome, dispatch>>
    BY <2>2 DEF LedgersAgree
  <2> QED BY <1>0, <2>1, <2>2 DEF LedgersAgree
<1>4. OneDispatch'
  BY DEF OneDispatch, CallsBound, Active, Verdicts
<1>5. CallsBound'
  <2>1. CASE Claimable(c)
    <3>1. at' = [at EXCEPT ![c] = "claimed"] /\ call_run' = call_run /\ call_grant' = call_grant
      BY <2>1
    <3>2. state' = "executing" /\ authorization' = authorization /\ call_grant[c] = authorization
      BY <2>1
    <3> HIDE DEF Claim, Claimable
    <3>3. \A d \in Calls : Active(d)' => call_run'[d] \in Runs /\ call_grant'[d] \in Grants
      BY <1>0, <3>1 DEF CallsBound, Active
    <3>4. \A d \in Calls : (Claiming(d) \/ Waiting(d))' => call_grant'[d] = authorization'
      BY <3>1, <3>2 DEF CallsBound, Claiming, Waiting
    <3> QED BY <3>2, <3>3, <3>4 DEF CallsBound
  <2>2. CASE ~Claimable(c)
    <3>1. /\ at' = [at EXCEPT ![c] = "replied"]
          /\ call_run' = [call_run EXCEPT ![c] = NoRun]
          /\ call_grant' = [call_grant EXCEPT ![c] = NoGrant]
      BY <2>2
    <3>2. state' = state /\ authorization' = authorization
      BY <2>2
    <3> HIDE DEF Claim, Claimable
    <3> QED BY <3>1, <3>2 DEF CallsBound, Active, Claiming, Waiting
  <2> QED BY <2>1, <2>2
<1>6. OneClaimant'
  BY DEF OneClaimant, OneRequest, CallsBound, Active, Claiming, Waiting
<1>7. OneRequest'
  BY DEF OneRequest, OneClaimant, CallsBound, Claiming, Waiting, Verdicts
<1>8. VerdictTruthful'
  BY DEF VerdictTruthful, OneRequest
<1> QED BY <1>1, <1>2, <1>3, <1>4, <1>5, <1>6, <1>7, <1>8

\* A step Execute keeps the invariant.
LEMMA ExecuteOK == ASSUME IInv, NEW c \in Calls, Execute(c) PROVE IInv'
<1> USE GrantsAssumption, EpochAssumption DEF IInv, TypeOK, Execute, Goto, Answer, Leave, vars,
    journal, session, calls, world, effectRow, grantRows
<1>0. call_run[c] \in Runs /\ call_grant[c] \in Grants
  BY DEF CallsBound, Active
<1>1. TypeOK'
  <2>1. at' \in [Calls -> HandlerStates] /\ reply' \in [Calls -> Replies]
    BY DEF HandlerStates, Replies, Verdicts
  <2>2. wire' \subseteq Grants
    BY <1>0
  <2>4. /\ call_run' \in [Calls -> Runs \cup {NoRun}]
        /\ call_grant' \in [Calls -> Grants \cup {NoGrant}]
        /\ call_epoch' \in [Calls -> Nat]
    <3>1. call_run' = call_run \/ call_run' = [call_run EXCEPT ![c] = NoRun]
      OBVIOUS
    <3>2. call_grant' = call_grant \/ call_grant' = [call_grant EXCEPT ![c] = NoGrant]
      OBVIOUS
    <3>3. \E e \in Nat : call_epoch' = call_epoch \/ call_epoch' = [call_epoch EXCEPT ![c] = e]
      OBVIOUS
    <3> QED BY <3>1, <3>2, <3>3, CallsTyped
  <2> QED BY <2>1, <2>2, <2>4
<1>2. IdsUnique'
  BY DEF IdsUnique
<1>3. LedgersAgree'
  BY DEF LedgersAgree, IdsUnique, CallsBound, Active
<1>4. OneDispatch'
  BY DEF OneDispatch, CallsBound, Active, Verdicts
<1>5. CallsBound'
  BY DEF CallsBound, Active, Claiming, Waiting, Verdicts
<1>6. OneClaimant'
  <2>1. \A d \in Calls : at'[d] = "claimed" => d # c /\ at[d] = "claimed"
    OBVIOUS
  <2>2. \A d \in Calls : at[d] = "claimed" => d = c
    BY DEF OneClaimant, Claiming
  <2> QED BY <2>1, <2>2 DEF OneClaimant, Claiming
<1>7. OneRequest'
  BY DEF OneRequest, OneClaimant, CallsBound, Claiming, Waiting, Verdicts
<1>8. VerdictTruthful'
  BY DEF VerdictTruthful, OneClaimant, Claiming
<1> QED BY <1>1, <1>2, <1>3, <1>4, <1>5, <1>6, <1>7, <1>8

\* A step Outcome keeps the invariant.
LEMMA OutcomeOK == ASSUME IInv, NEW c \in Calls, Outcome(c) PROVE IInv'
<1> USE GrantsAssumption, EpochAssumption
    DEF IInv, TypeOK, Answer, Leave, vars, journal, session, calls, world, effectRow, grantRows
<1>0. call_run[c] \in Runs /\ call_grant[c] \in Grants /\ at[c] = "sent"
  BY DEF Outcome, CallsBound, Active
<1>1. PICK v \in Verdicts : Answer(c, v)
  BY DEF Outcome, RecordDispatchOutcome, Evidence, Verdicts
<1>2. UNCHANGED <<method, authorization, intent, grant_id, grant_epoch, grant_fresh, issued,
                  session, world>>
  BY DEF Outcome
<1>3. CASE UNCHANGED <<grant_state, dispatch, state, outcome>>
  <2>1. TypeOK'
    BY <1>0, <1>1, <1>2, <1>3 DEF HandlerStates, Replies
  <2>2. IdsUnique' /\ LedgersAgree' /\ OneDispatch' /\ OneRequest' /\ VerdictTruthful'
    BY <1>2, <1>3 DEF IdsUnique, LedgersAgree, OneDispatch, OneRequest, VerdictTruthful
  <2>3. CallsBound' /\ OneClaimant'
    BY <1>0, <1>1, <1>2, <1>3 DEF CallsBound, OneClaimant, Active, Claiming, Waiting
  <2> QED BY <2>1, <2>2, <2>3
<1>4. CASE \E e \in Evidence(c) : RecordDispatchOutcome(c, e[1], e[2])
  <2>1. PICK e \in Evidence(c) : RecordDispatchOutcome(c, e[1], e[2])
    BY <1>4
  <2>2. e[1] \in {"unknown", "dispatch_completed"} /\ e[2] \in Verdicts
        /\ (e[2] = "effect_confirmed" => recipient = "accepted")
        /\ (e[2] = "effect_absent" => recipient = "rejected")
    BY DEF Evidence, Answered, Verdicts
  <2>3. /\ state = "executing" /\ authorization = call_grant[c]
        /\ grant_id[call_run[c]] = call_grant[c]
        /\ grant_state' = [grant_state EXCEPT ![call_run[c]] = e[1]]
        /\ dispatch' = [dispatch EXCEPT ![call_grant[c]] = e[1]]
        /\ state' = e[2] /\ outcome' = e[1]
    BY <2>1 DEF RecordDispatchOutcome
  <2>4. TypeOK'
    <3>1. grant_state' \in [Runs -> GrantStates] /\ dispatch' \in [Grants -> DispatchOutcomes]
      BY <1>0, <2>2, <2>3 DEF GrantStates, DispatchOutcomes
    <3>2. state' \in EffectStates /\ outcome' \in DispatchOutcomes
      BY <2>2, <2>3 DEF EffectStates, DispatchOutcomes
    <3> QED BY <1>0, <1>1, <1>2, <3>1, <3>2 DEF HandlerStates, Replies
  <2>5. IdsUnique'
    BY <1>0, <1>2, <2>2, <2>3 DEF IdsUnique, Verdicts
  <2>6. LedgersAgree'
    <3>1. \A r \in Runs : grant_state'[r] # "inflight"
      BY <1>0, <2>2, <2>3 DEF LedgersAgree, IdsUnique
    <3>2. \A g \in Grants : dispatch'[g] # "executing"
      BY <1>0, <2>2, <2>3 DEF LedgersAgree
    <3>3. state' # "executing"
      BY <2>2, <2>3 DEF Verdicts
    <3> QED BY <3>1, <3>2, <3>3 DEF LedgersAgree
  <2>7. OneDispatch'
    BY <1>0, <1>2, <2>2, <2>3 DEF OneDispatch, Verdicts
  <2>8. CallsBound' /\ OneClaimant'
    BY <1>0, <1>1, <1>2, <2>2, <2>3
    DEF CallsBound, OneClaimant, Active, Claiming, Waiting, Verdicts
  <2>9. OneRequest' /\ VerdictTruthful'
    BY <1>2, <2>2, <2>3 DEF OneRequest, VerdictTruthful, Verdicts
  <2> QED BY <2>4, <2>5, <2>6, <2>7, <2>8, <2>9
<1> QED BY <1>3, <1>4 DEF Outcome

\* A step Crash keeps the invariant.
LEMMA CrashOK == ASSUME IInv, NEW c \in Calls, Crash(c) PROVE IInv'
<1> USE GrantsAssumption DEF IInv, TypeOK, Crash, Leave, vars, journal, session, calls, world,
    effectRow, grantRows
<1>1. TypeOK'
  BY DEF HandlerStates, Replies, IdsUnique
<1> QED BY <1>1, HandlerMoves DEF Active

\* A step RecipientActs keeps the invariant.
LEMMA RecipientActsOK == ASSUME IInv, NEW g \in Grants, RecipientActs(g) PROVE IInv'
<1> USE GrantsAssumption, EpochAssumption DEF IInv, TypeOK, RecipientActs, vars, journal,
    session, calls, world, effectRow, grantRows
<1>1. TypeOK'
  BY DEF EffectStates, Verdicts, GrantStates, DispatchOutcomes, RunStates, HandlerStates,
      Replies, IdsUnique, OneDispatch, CallsBound, Active
<1>2. IdsUnique'
  BY DEF IdsUnique
<1>3. LedgersAgree'
  BY DEF LedgersAgree, IdsUnique, CallsBound, Active
<1>4. OneDispatch'
  BY DEF OneDispatch, CallsBound, Active, Verdicts
<1>5. CallsBound'
  BY DEF CallsBound, Active, Claiming, Waiting, Verdicts
<1>6. OneClaimant'
  BY DEF OneClaimant, OneRequest, CallsBound, Active, Claiming, Waiting
<1>7. OneRequest'
  <2>1. recipient = "untouched" /\ acceptances = 0 /\ wire' = {}
    BY DEF OneRequest
  <2>2. recipient' \in {"accepted", "rejected"}
        /\ acceptances' = IF recipient' = "accepted" THEN 1 ELSE 0
    BY <2>1
  <2> QED BY <2>1, <2>2 DEF OneRequest
<1>8. VerdictTruthful'
  BY DEF VerdictTruthful, OneRequest
<1> QED BY <1>1, <1>2, <1>3, <1>4, <1>5, <1>6, <1>7, <1>8

\* A step Lookup keeps the invariant.
LEMMA LookupOK == ASSUME IInv, Lookup PROVE IInv'
<1> USE GrantsAssumption, EpochAssumption DEF IInv, TypeOK, Lookup, vars, journal, session,
    calls, world, effectRow, grantRows
<1>1. TypeOK'
  BY DEF EffectStates, Verdicts, GrantStates, DispatchOutcomes, RunStates, HandlerStates,
      Replies, IdsUnique, OneDispatch, CallsBound, Active
<1>2. IdsUnique'
  BY DEF IdsUnique
<1>3. LedgersAgree'
  BY DEF LedgersAgree, IdsUnique, CallsBound, Active
<1>4. OneDispatch'
  BY DEF OneDispatch, CallsBound, Active, Verdicts
<1>5. CallsBound'
  BY DEF CallsBound, Active, Claiming, Waiting, Verdicts
<1>6. OneClaimant'
  BY DEF OneClaimant, OneRequest, CallsBound, Active, Claiming, Waiting
<1>7. OneRequest'
  BY DEF OneRequest, OneClaimant, CallsBound, Claiming, Waiting, Verdicts
<1>8. VerdictTruthful'
  BY DEF VerdictTruthful, OneRequest
<1> QED BY <1>1, <1>2, <1>3, <1>4, <1>5, <1>6, <1>7, <1>8

\* A step ReconcileEffect keeps the invariant.
LEMMA ReconcileEffectOK == ASSUME IInv, ReconcileEffect PROVE IInv'
<1> USE GrantsAssumption, EpochAssumption DEF IInv, TypeOK, ReconcileEffect, CloseDispatch, vars,
    journal, session, calls, world, effectRow, grantRows
<1>1. TypeOK'
  BY DEF EffectStates, Verdicts, GrantStates, DispatchOutcomes, RunStates, HandlerStates,
      Replies, IdsUnique, OneDispatch, CallsBound, Active
<1>2. IdsUnique'
  BY DEF IdsUnique
<1>3. LedgersAgree'
  BY DEF LedgersAgree, IdsUnique, CallsBound, Active
<1>4. OneDispatch'
  BY DEF OneDispatch, CallsBound, Active, Verdicts
<1>5. CallsBound'
  BY DEF CallsBound, Active, Claiming, Waiting, Verdicts
<1>6. OneClaimant'
  BY DEF OneClaimant, OneRequest, CallsBound, Active, Claiming, Waiting
<1>7. OneRequest'
  BY DEF OneRequest, OneClaimant, CallsBound, Claiming, Waiting, Verdicts
<1>8. VerdictTruthful'
  BY DEF VerdictTruthful, OneRequest
<1> QED BY <1>1, <1>2, <1>3, <1>4, <1>5, <1>6, <1>7, <1>8

\* A step MarkInterruptedEffect keeps the invariant.
LEMMA MarkInterruptedEffectOK == ASSUME IInv, MarkInterruptedEffect PROVE IInv'
<1> USE GrantsAssumption, EpochAssumption DEF IInv, TypeOK, MarkInterruptedEffect, CloseDispatch,
    vars, journal, session, calls, world, effectRow, grantRows
<1>1. TypeOK'
  BY DEF EffectStates, Verdicts, GrantStates, DispatchOutcomes, RunStates, HandlerStates,
      Replies, IdsUnique, OneDispatch, CallsBound, Active
<1>2. IdsUnique'
  BY DEF IdsUnique
<1>3. LedgersAgree'
  BY DEF LedgersAgree, IdsUnique, CallsBound, Active
<1>4. OneDispatch'
  BY DEF OneDispatch, CallsBound, Active, Verdicts
<1>5. CallsBound'
  BY DEF CallsBound, Active, Claiming, Waiting, Verdicts
<1>6. OneClaimant'
  BY DEF OneClaimant, OneRequest, CallsBound, Active, Claiming, Waiting
<1>7. OneRequest'
  BY DEF OneRequest, OneClaimant, CallsBound, Claiming, Waiting, Verdicts
<1>8. VerdictTruthful'
  BY DEF VerdictTruthful, OneRequest
<1> QED BY <1>1, <1>2, <1>3, <1>4, <1>5, <1>6, <1>7, <1>8


-----------------------------------------------------------------------------
\* Every step of the broker, the store, the session and the recipient keeps
\* the invariant.
LEMMA NextOK == IInv /\ [Next]_vars => IInv'
<1> SUFFICES ASSUME IInv, [Next]_vars PROVE IInv'
  OBVIOUS
<1>1. CASE UNCHANGED vars
  BY <1>1 DEF IInv, TypeOK, IdsUnique, LedgersAgree, OneDispatch, CallsBound, OneClaimant,
     OneRequest, VerdictTruthful, Active, Claiming, Waiting,
     vars, journal, session, calls, world, effectRow, grantRows
<1>2. CASE Next
  <2>1. CASE \E r \in Runs : AcquireLease(r)
    BY <2>1, AcquireLeaseOK
  <2>2. CASE LeaseEnds
    BY <2>2, LeaseEndsOK
  <2>3. CASE \E r \in Runs : TransitionRun(r)
    BY <2>3, TransitionRunOK
  <2>4. CASE OwnerControl
    BY <2>4, OwnerControlOK
  <2>5. CASE \E r \in Runs : ReadContext(r)
    BY <2>5, ReadContextOK
  <2>6. CASE \E r \in Runs : Prepare(r)
    BY <2>6, PrepareOK
  <2>7. CASE \E r \in Runs : \E e \in 0..MaxEpoch : Authorize(r, e)
    BY <2>7, AuthorizeOK
  <2>8. CASE \E r \in Runs : GrantExpires(r)
    BY <2>8, GrantExpiresOK
  <2>9. CASE \E c \in Calls : \E r \in Runs : Receive(c, r)
    BY <2>9, ReceiveOK
  <2>10. CASE \E c \in Calls : VerifyContext(c)
    BY <2>10, VerifyContextOK
  <2>11. CASE \E c \in Calls : Verify(c)
    BY <2>11, VerifyOK
  <2>12. CASE \E c \in Calls : Refuse(c)
    BY <2>12, RefuseOK
  <2>13. CASE \E c \in Calls : Claim(c)
    BY <2>13, ClaimOK
  <2>14. CASE \E c \in Calls : Execute(c)
    BY <2>14, ExecuteOK
  <2>15. CASE \E c \in Calls : Outcome(c)
    BY <2>15, OutcomeOK
  <2>16. CASE \E c \in Calls : Crash(c)
    BY <2>16, CrashOK
  <2>17. CASE \E g \in Grants : RecipientActs(g)
    BY <2>17, RecipientActsOK
  <2>18. CASE Lookup
    BY <2>18, LookupOK
  <2>19. CASE ReconcileEffect
    BY <2>19, ReconcileEffectOK
  <2>20. CASE MarkInterruptedEffect
    BY <2>20, MarkInterruptedEffectOK
  <2> QED BY <1>2, <2>1, <2>2, <2>3, <2>4, <2>5, <2>6, <2>7, <2>8, <2>9, <2>10, <2>11, <2>12,
      <2>13, <2>14, <2>15, <2>16, <2>17, <2>18, <2>19, <2>20 DEF Next
<1> QED BY <1>1, <1>2

\* The inductive invariant holds in every reachable state.
THEOREM Inductive == Spec => []IInv
BY InitOK, NextOK, PTL DEF Spec

\* The rows of the journal, the lease and the handlers of ExecuteToolCall keep
\* their types, for every number of runs, calls, grants and takeovers.
THEOREM TypeCorrect == Spec => []TypeOK
<1>1. IInv => TypeOK
  BY DEF IInv
<1> QED BY Inductive, <1>1, PTL

\* At most one dispatch of an effect is ever committed by ClaimGrant and its
\* recipient performs it at most once, whatever is repeated or re-authorized.
THEOREM AtMostOnce == Spec => []DispatchedAtMostOnce
<1>1. IInv => DispatchedAtMostOnce
  BY DEF IInv, TypeOK, OneDispatch, OneRequest, DispatchedAtMostOnce
<1> QED BY Inductive, <1>1, PTL

\* action_authorizations, action_effects and action_effect_dispatches agree on
\* what is in flight.
THEOREM Agreement == Spec => []LedgersAgree
<1>1. IInv => LedgersAgree
  BY DEF IInv
<1> QED BY Inductive, <1>1, PTL

\* A recorded verdict is true of the recipient.
THEOREM Truthful == Spec => []VerdictTruthful
<1>1. IInv => VerdictTruthful
  BY DEF IInv
<1> QED BY Inductive, <1>1, PTL

\* No transaction rewrites a settled verdict.
THEOREM Final == Spec => VerdictFinal
<1>1. ASSUME [Next]_vars
      PROVE  state \in {"effect_confirmed", "effect_absent"} => state' = state
  <2>1. CASE UNCHANGED vars
    BY <2>1 DEF vars, journal, effectRow
  <2>2. CASE Next
    BY <2>2 DEF Next, AcquireLease, LeaseEnds, TransitionRun, OwnerControl, ReadContext, Prepare,
       Authorize, Undispatched, GrantExpires, Receive, VerifyContext, Verify, Refuse, Claim,
       Claimable, Execute, Outcome, RecordDispatchOutcome, Crash, RecipientActs, Lookup,
       ReconcileEffect, MarkInterruptedEffect, journal, effectRow
  <2> QED BY <1>1, <2>1, <2>2
<1> QED BY <1>1, PTL DEF Spec, VerdictFinal
=============================================================================
