--------------------------- MODULE DeliveryOutbox ---------------------------
(***************************************************************************)
(* The delivery outbox of one final result: its chunks, the workers that   *)
(* claim, send and settle them, and the channel they send through.         *)
(*                                                                         *)
(* The channel has no idempotency key.  Whether a chunk reached the user   *)
(* and whether the worker learns of it are separate facts: `arrivals'      *)
(* records the former and no part of the code reads it.                    *)
(***************************************************************************)
EXTENDS Naturals, Sequences, FiniteSets, SequencesExt

CONSTANTS
    Workers,        \* outbox workers of all processes
    Chunks,         \* number of chunks of the result
    MaxAttempts,    \* 6 in the code
    MaxCrashes      \* bound: worker crashes

ASSUME OutboxAssumption ==
    Chunks \in Nat \ {0} /\ MaxAttempts \in Nat \ {0} /\ MaxCrashes \in Nat

Chunk == 1..Chunks
Channel == {"telegram", "web", "other"}     \* "web" stands for delegation, too
Status == {"none", "pending", "sending", "sent", "failed", "delivery_unknown", "result_ready"}

VARIABLES
    channel,        \* the session's channel
    status,         \* delivery_outbox.status; "none" before EnqueueTx
    attempt_count,
    claim_id,       \* claim of the chunk: a worker, or Nobody
    claim_live,     \* claim_until > clock_timestamp()
    overdue,        \* deadline_at <= clock_timestamp()
    worker,         \* worker[w]: the claimed message w works on
    arrivals,       \* the chunks in the order they reached the user
    crashes

vars == <<channel, status, attempt_count, claim_id, claim_live, overdue, worker, arrivals, crashes>>

Nobody == "nobody"
Idle == [at |-> "idle", chunk |-> 0, attempt |-> 0, outcome |-> "none"]

\* What SendStored reports: a channel ACK, a "sent" without ACK, a confirmed
\* absence (to retry or not), or anything else.
Outcome == {"sent", "sent_no_ack", "absent_retryable", "absent", "unknown"}

TypeOK ==
    /\ channel \in Channel
    /\ status \in [Chunk -> Status]
    /\ attempt_count \in [Chunk -> 0..MaxAttempts]
    /\ claim_id \in [Chunk -> Workers \cup {Nobody}]
    /\ claim_live \in [Chunk -> BOOLEAN]
    /\ overdue \in BOOLEAN
    /\ worker \in [Workers -> [at : {"idle", "claimed", "authorized", "reported"},
                               chunk : 0..Chunks, attempt : 0..MaxAttempts,
                               outcome : Outcome \cup {"none"}]]
    /\ arrivals \in Seq(Chunk)
    /\ crashes \in 0..MaxCrashes

Init ==
    /\ channel \in Channel
    /\ status = [c \in Chunk |-> "none"]
    /\ attempt_count = [c \in Chunk |-> 0]
    /\ claim_id = [c \in Chunk |-> Nobody]
    /\ claim_live = [c \in Chunk |-> FALSE]
    /\ overdue = FALSE
    /\ worker = [w \in Workers |-> Idle]
    /\ arrivals = << >>
    /\ crashes = 0

-----------------------------------------------------------------------------
\* EnqueueTx, in the transaction that completes the run: chunks only for
\* Telegram, a single row otherwise.
EnqueueTx ==
    /\ \A c \in Chunk : status[c] = "none"
    /\ status' = [c \in Chunk |->
                    CASE channel = "telegram" -> "pending"
                      [] channel = "web" /\ c = 1 -> "result_ready"
                      [] channel = "other" /\ c = 1 -> "failed"
                      [] OTHER -> "none"]
    /\ UNCHANGED <<channel, attempt_count, claim_id, claim_live, overdue, worker, arrivals, crashes>>

\* Time: a claim runs out, the 24 hour deadline passes.
ClaimExpires(c) ==
    /\ status[c] = "sending" /\ claim_live[c]
    /\ claim_live' = [claim_live EXCEPT ![c] = FALSE]
    /\ UNCHANGED <<channel, status, attempt_count, claim_id, overdue, worker, arrivals, crashes>>

DeadlinePasses ==
    /\ ~overdue
    /\ overdue' = TRUE
    /\ UNCHANGED <<channel, status, attempt_count, claim_id, claim_live, worker, arrivals, crashes>>

-----------------------------------------------------------------------------
\* The first UPDATE of Claim: nobody knows what became of an expired send.
Quarantined(c) == IF status[c] = "sending" /\ ~claim_live[c] THEN "delivery_unknown" ELSE status[c]

\* Mutant: the sweep forgets the deadline.
Swept_NoDeadline(c) ==
    IF Quarantined(c) = "pending" /\ attempt_count[c] >= MaxAttempts THEN "failed" ELSE Quarantined(c)

\* The second UPDATE of Claim.
Swept(c) ==
    IF Quarantined(c) = "pending" /\ (overdue \/ attempt_count[c] >= MaxAttempts)
      THEN "failed" ELSE Quarantined(c)

\* Mutant: a chunk waits only while its predecessor is pending or sending.
Claimable_SkipUnknown(c) ==
    /\ Swept(c) = "pending" /\ ~overdue /\ attempt_count[c] < MaxAttempts
    /\ \A p \in 1..(c - 1) : Swept(p) \notin {"pending", "sending"}

\* The third: a pending chunk all of whose predecessors were sent.
Claimable(c) ==
    /\ Swept(c) = "pending" /\ ~overdue /\ attempt_count[c] < MaxAttempts
    /\ \A p \in 1..(c - 1) : Swept(p) = "sent"

\* Claim is one transaction; next_attempt_at only delays it.
Claim(w) ==
    /\ worker[w].at = "idle"
    /\ \E c \in Chunk :
        /\ Claimable(c)
        /\ status' = [d \in Chunk |-> IF d = c THEN "sending" ELSE Swept(d)]
        /\ attempt_count' = [attempt_count EXCEPT ![c] = @ + 1]
        /\ claim_id' = [d \in Chunk |-> IF d = c THEN w
                                        ELSE IF Quarantined(d) # status[d] THEN Nobody ELSE claim_id[d]]
        /\ claim_live' = [claim_live EXCEPT ![c] = TRUE]
        /\ worker' = [worker EXCEPT ![w] =
                        [at |-> "claimed", chunk |-> c, attempt |-> attempt_count[c] + 1, outcome |-> "none"]]
    /\ UNCHANGED <<channel, overdue, arrivals, crashes>>

\* Claim with nothing to claim still commits its two sweeps.
Sweep(w) ==
    /\ worker[w].at = "idle"
    /\ \A c \in Chunk : ~Claimable(c)
    /\ status' = [c \in Chunk |-> Swept(c)]
    /\ status' # status
    /\ claim_id' = [c \in Chunk |-> IF Quarantined(c) # status[c] THEN Nobody ELSE claim_id[c]]
    /\ UNCHANGED <<channel, attempt_count, claim_live, overdue, worker, arrivals, crashes>>

\* The claim the worker took is still the chunk's, and unexpired.
OwnsClaim(w) ==
    LET c == worker[w].chunk IN claim_id[c] = w /\ status[c] = "sending" /\ claim_live[c]

\* AuthorizeSend right before the channel; a lost claim, a redacted text or an
\* error of the query ends the attempt, and the claim stays behind.
AuthorizeSend(w) ==
    /\ worker[w].at = "claimed"
    /\ \/ OwnsClaim(w) /\ worker' = [worker EXCEPT ![w].at = "authorized"]
       \/ worker' = [worker EXCEPT ![w] = Idle]
    /\ UNCHANGED <<channel, status, attempt_count, claim_id, claim_live, overdue, arrivals, crashes>>

\* No sender is configured: the attempt reports a retryable absence.
NoSender(w) ==
    /\ worker[w].at = "claimed"
    /\ worker' = [worker EXCEPT ![w].at = "reported", ![w].outcome = "absent_retryable"]
    /\ UNCHANGED <<channel, status, attempt_count, claim_id, claim_live, overdue, arrivals, crashes>>

\* SendStored (the channel is external): the text reaches the user or not, and
\* the worker may be left without an answer either way; an absence it reports
\* is a confirmed one.  It can be slower than the claim.
SendStored(w) ==
    LET c == worker[w].chunk IN
    /\ worker[w].at = "authorized"
    /\ \/ /\ arrivals' = Append(arrivals, c)
          /\ \E o \in {"sent", "sent_no_ack", "unknown"} :
                worker' = [worker EXCEPT ![w].at = "reported", ![w].outcome = o]
       \/ /\ \E o \in {"absent_retryable", "absent", "unknown"} :
                worker' = [worker EXCEPT ![w].at = "reported", ![w].outcome = o]
          /\ UNCHANGED arrivals
    /\ UNCHANGED <<channel, status, attempt_count, claim_id, claim_live, overdue, crashes>>

\* Mutant: an outcome nobody knows is retried like an absence.
DeliveryOutcome_RetryUnknown(m) ==
    CASE m.outcome = "sent" -> "sent"
      [] m.outcome \in {"absent_retryable", "unknown"} /\ m.attempt < MaxAttempts -> "pending"
      [] OTHER -> "failed"

DeliveryOutcome(m) ==
    CASE m.outcome = "sent" -> "sent"
      [] m.outcome = "absent_retryable" /\ m.attempt < MaxAttempts -> "pending"
      [] m.outcome \in {"absent", "absent_retryable"} -> "failed"
      [] OTHER -> "delivery_unknown"

\* Finish settles the chunk under the worker's own live claim, or changes nothing.
Finish(w) ==
    LET c == worker[w].chunk IN
    /\ worker[w].at = "reported"
    /\ worker' = [worker EXCEPT ![w] = Idle]
    /\ IF OwnsClaim(w)
         THEN /\ status' = [status EXCEPT ![c] = DeliveryOutcome(worker[w])]
              /\ claim_id' = [claim_id EXCEPT ![c] = Nobody]
         ELSE UNCHANGED <<status, claim_id>>
    /\ UNCHANGED <<channel, attempt_count, claim_live, overdue, arrivals, crashes>>

\* The process dies, or the ACK write fails: the claim stays behind.
Crash(w) ==
    /\ worker[w].at # "idle" /\ crashes < MaxCrashes
    /\ crashes' = crashes + 1
    /\ worker' = [worker EXCEPT ![w] = Idle]
    /\ UNCHANGED <<channel, status, attempt_count, claim_id, claim_live, overdue, arrivals>>

WorkerStep(w) == Claim(w) \/ Sweep(w) \/ AuthorizeSend(w) \/ SendStored(w) \/ Finish(w)

Next ==
    \/ EnqueueTx
    \/ DeadlinePasses
    \/ \E c \in Chunk : ClaimExpires(c)
    \/ \E w \in Workers : WorkerStep(w) \/ NoSender(w) \/ Crash(w)

Spec == Init /\ [][Next]_vars

\* A worker polls for ever (Worker.Run), a claim and a deadline do pass.
FairSpec ==
    /\ Spec
    /\ WF_vars(DeadlinePasses)
    /\ \A c \in Chunk : WF_vars(ClaimExpires(c))
    /\ \A w \in Workers : WF_vars(WorkerStep(w))

-----------------------------------------------------------------------------

\* State of state.go: the loop over the messages, with its early return.
State(messages) ==
    FoldLeft(LAMBDA state, m :
        CASE state = "delivery_unknown" \/ m = "delivery_unknown" -> "delivery_unknown"
          [] m = "failed" -> "failed"
          [] m \in {"pending", "sending"} /\ state # "failed" -> "pending"
          [] m = "result_ready" /\ state = "sent" -> "result_ready"
          [] OTHER -> state, "sent", messages)

-----------------------------------------------------------------------------
(* Properties *)

Deliveries(c) == Cardinality({i \in 1..Len(arrivals) : arrivals[i] = c})

\* "Telegram unknown outcomes and expired sending claims are never automatically
\* retried" (deliveryoutbox/README.md), and a chunk waits for all before it
\* (store.go:148): whatever claims expire, ACKs are lost, sends outlast their claims
\* and workers die, the user gets the chunks in order and none of them twice.
ArriveOnceInOrder == \A i \in 1..Len(arrivals) : arrivals[i] = i

\* A chunk the outbox reports as sent was delivered, and one it reports as failed
\* or still pending was not: every doubt is delivery_unknown (store.go:174-197).
RowsAreTrue ==
    /\ TypeOK
    /\ \A c \in Chunk :
          /\ status[c] = "sent" => Deliveries(c) = 1
          /\ status[c] \in {"failed", "pending"} => Deliveries(c) = 0

\* Every row tells the truth (RowsAreTrue), and the state shown for the result
\* (state.go) hides none of it: it is unknown as soon as one chunk is, and sent only
\* when the user has all of them.
ReportsAreTrue ==
    LET messages == SelectSeq(status, LAMBDA m : m # "none") IN
    /\ RowsAreTrue
    /\ messages # << >> =>
          /\ State(messages) = "delivery_unknown" <=> \E c \in Chunk : status[c] = "delivery_unknown"
          /\ State(messages) = "sent" => \A c \in Chunk : Deliveries(c) = 1

\* Every enqueued chunk is settled in the end, and for good: no late worker, sweep
\* or claim reopens it.  Also the ones stuck behind a chunk of unknown fate are,
\* which only the deadline frees.
Settled == {"sent", "failed", "delivery_unknown", "result_ready"}
EverythingSettles ==
    \A c \in Chunk : status[c] = "pending" ~> \E s \in Settled : [](status[c] = s)
=============================================================================
