------------------------ MODULE DeliveryOutboxProofs ------------------------
(***************************************************************************)
(* The user gets the chunks in order and none of them twice, for any       *)
(* number of chunks, workers, attempts and crashes.  The argument: a chunk *)
(* is handed out only as pending, and is then neither pending nor handed   *)
(* out again before its worker has reported, however late; it is pending   *)
(* only as long as the user does not have it, and handed out only when the *)
(* user has exactly those before it, which is still so when it is sent.    *)
(***************************************************************************)
EXTENDS DeliveryOutbox, FiniteSetTheorems, TLAPS

Busy(w) == worker[w].at # "idle"
Places == [at : {"idle", "claimed", "authorized", "reported"}, chunk : 0..Chunks,
           attempt : 0..MaxAttempts, outcome : Outcome \cup {"none"}]

\* The chunk of a worker is being sent under its claim, or given up as unknown,
\* and those before it were sent.
Held ==
    \A w \in Workers : Busy(w) =>
        LET c == worker[w].chunk IN
        /\ c \in Chunk
        /\ status[c] = "delivery_unknown" \/ (status[c] = "sending" /\ claim_id[c] = w)
        /\ \A p \in 1..(c - 1) : status[p] = "sent"

OneWorker == \A v, w \in Workers : v # w /\ Busy(v) /\ Busy(w) => worker[v].chunk # worker[w].chunk

\* What the rows say the user has.
RowsMatch ==
    \A c \in Chunk : /\ status[c] = "sent" => c <= Len(arrivals)
                     /\ status[c] \in {"none", "pending", "failed"} => Len(arrivals) < c

\* What a worker knows the user has.
WorkersMatch ==
    \A w \in Workers :
        /\ worker[w].at \in {"claimed", "authorized"} => Len(arrivals) = worker[w].chunk - 1
        /\ worker[w].at = "reported" /\ worker[w].outcome \in {"absent", "absent_retryable"} =>
              Len(arrivals) = worker[w].chunk - 1
        /\ worker[w].at = "reported" /\ worker[w].outcome = "sent" => Len(arrivals) = worker[w].chunk

Inv == TypeOK /\ ArriveOnceInOrder /\ Held /\ OneWorker /\ RowsMatch /\ WorkersMatch

-----------------------------------------------------------------------------
LEMMA IdlePlace == Idle \in Places
BY OutboxAssumption DEF Idle, Places, Outcome

LEMMA InitInv == Init => Inv
<1> SUFFICES ASSUME Init PROVE Inv
  OBVIOUS
<1>1. TypeOK
  <2>1. worker \in [Workers -> Places]
    BY IdlePlace DEF Init
  <2>2. arrivals \in Seq(Chunk) /\ 0 \in 0..MaxAttempts /\ 0 \in 0..MaxCrashes
    BY OutboxAssumption DEF Init
  <2> QED BY <2>1, <2>2 DEF Init, TypeOK, Status, Places
<1>2. Len(arrivals) = 0 /\ \A w \in Workers : worker[w].at = "idle"
  BY DEF Init, Idle
<1> QED BY <1>1, <1>2, OutboxAssumption
        DEF Init, Inv, ArriveOnceInOrder, Held, OneWorker, RowsMatch, WorkersMatch, Busy, Chunk

\* What the sweeps of Claim make of a row.
LEMMA SweptRow ==
    ASSUME TypeOK, NEW c \in Chunk
    PROVE  /\ Swept(c) \in Status
           /\ Swept(c) = "sent" <=> status[c] = "sent"
           /\ Swept(c) = "none" <=> status[c] = "none"
           /\ Swept(c) = "pending" => status[c] = "pending"
           /\ Swept(c) = "failed" => status[c] \in {"pending", "failed"}
           /\ status[c] = "sending" => Swept(c) = "delivery_unknown" \/ (Swept(c) = "sending" /\ Quarantined(c) = status[c])
           /\ status[c] = "delivery_unknown" => Swept(c) = "delivery_unknown"
<1>1. status[c] \in Status
  BY DEF TypeOK
<1>2. Quarantined(c) \in {status[c], "delivery_unknown"} /\ Swept(c) \in {Quarantined(c), "failed"}
  BY DEF Quarantined, Swept
<1>3. Quarantined(c) # status[c] => status[c] = "sending"
  BY DEF Quarantined
<1>4. Swept(c) # Quarantined(c) => Quarantined(c) = "pending"
  BY DEF Swept
<1> QED BY <1>1, <1>2, <1>3, <1>4 DEF Status

LEMMA EnqueueInv ==
    ASSUME Inv, EnqueueTx
    PROVE  Inv'
<1>1. \A c \in Chunk : /\ status'[c] \in Status \ {"sent"} /\ Len(arrivals) < c
  BY DEF EnqueueTx, Inv, RowsMatch, Status
<1>2. \A w \in Workers : ~Busy(w)
  BY DEF EnqueueTx, Inv, Held
<1>3. TypeOK'
  BY <1>1 DEF EnqueueTx, Inv, TypeOK
<1>4. ArriveOnceInOrder' /\ Held' /\ OneWorker' /\ RowsMatch' /\ WorkersMatch'
  BY <1>1, <1>2 DEF EnqueueTx, Inv, ArriveOnceInOrder, Held, OneWorker, RowsMatch, WorkersMatch, Busy
<1> QED BY <1>3, <1>4 DEF Inv

LEMMA TimeInv ==
    ASSUME Inv, DeadlinePasses \/ \E c \in Chunk : ClaimExpires(c)
    PROVE  Inv'
<1>1. UNCHANGED <<channel, status, attempt_count, claim_id, worker, arrivals, crashes>>
  BY DEF DeadlinePasses, ClaimExpires
<1>2. TypeOK'
  BY DEF DeadlinePasses, ClaimExpires, Inv, TypeOK
<1> QED BY <1>1, <1>2
        DEF Inv, ArriveOnceInOrder, Held, OneWorker, RowsMatch, WorkersMatch, Busy

LEMMA ClaimInv ==
    ASSUME Inv, NEW w \in Workers, Claim(w)
    PROVE  Inv'
<1>1. PICK c \in Chunk :
        /\ Claimable(c)
        /\ status' = [d \in Chunk |-> IF d = c THEN "sending" ELSE Swept(d)]
        /\ attempt_count' = [attempt_count EXCEPT ![c] = @ + 1]
        /\ claim_id' = [d \in Chunk |-> IF d = c THEN w
                                        ELSE IF Quarantined(d) # status[d] THEN Nobody ELSE claim_id[d]]
        /\ claim_live' = [claim_live EXCEPT ![c] = TRUE]
        /\ worker' = [worker EXCEPT ![w] =
                        [at |-> "claimed", chunk |-> c, attempt |-> attempt_count[c] + 1, outcome |-> "none"]]
  BY DEF Claim
<1>2. c \in Nat \ {0} /\ \A p \in 1..(c - 1) : p \in Chunk
  BY OutboxAssumption DEF Chunk
<1>3. status[c] = "pending" /\ \A p \in 1..(c - 1) : status[p] = "sent"
  BY <1>1, <1>2, SweptRow DEF Claimable, Inv
<1>4. Len(arrivals) = c - 1
  <2>1. Len(arrivals) \in Nat /\ Len(arrivals) < c
    BY <1>3 DEF Inv, TypeOK, RowsMatch
  <2>2. CASE c = 1
    BY <2>1, <2>2
  <2>3. CASE c > 1
    <3>1. c - 1 \in 1..(c - 1)
      BY <2>3, <1>2
    <3>2. c - 1 <= Len(arrivals)
      BY <3>1, <1>2, <1>3 DEF Inv, RowsMatch
    <3> QED BY <3>2, <2>1, <1>2
  <2> QED BY <2>2, <2>3, <1>2
<1>5. /\ worker'[w] = [at |-> "claimed", chunk |-> c, attempt |-> attempt_count[c] + 1, outcome |-> "none"]
      /\ \A v \in Workers \ {w} : worker'[v] = worker[v]
  BY <1>1 DEF Inv, TypeOK
<1>6. arrivals' = arrivals
  BY DEF Claim
<1>7. \A v \in Workers : Busy(v) => worker[v].chunk # c
  BY <1>3 DEF Inv, Held
<1>8. TypeOK'
  <2>1. attempt_count[c] + 1 \in 0..MaxAttempts
    BY <1>1, OutboxAssumption DEF Claimable, Inv, TypeOK
  <2>2. status' \in [Chunk -> Status]
    BY <1>1, SweptRow DEF Inv, Status
  <2>3. attempt_count' \in [Chunk -> 0..MaxAttempts]
    BY <1>1, <2>1 DEF Inv, TypeOK
  <2>4. claim_id' \in [Chunk -> Workers \cup {Nobody}] /\ claim_live' \in [Chunk -> BOOLEAN]
    BY <1>1 DEF Inv, TypeOK
  <2>5. [at |-> "claimed", chunk |-> c, attempt |-> attempt_count[c] + 1, outcome |-> "none"] \in Places
    BY <2>1, OutboxAssumption DEF Places, Chunk
  <2>6. worker' \in [Workers -> Places]
    BY <1>1, <2>5 DEF Inv, TypeOK, Places
  <2> QED BY <2>2, <2>3, <2>4, <2>6 DEF Claim, Inv, TypeOK, Places
<1>9. \A d \in Chunk \ {c} : status'[d] = Swept(d)
  BY <1>1
<1>10. Held'
  <2> SUFFICES ASSUME NEW v \in Workers, Busy(v)'
               PROVE  LET d == worker'[v].chunk IN
                      /\ d \in Chunk
                      /\ status'[d] = "delivery_unknown" \/ (status'[d] = "sending" /\ claim_id'[d] = v)
                      /\ \A p \in 1..(d - 1) : status'[p] = "sent"
    BY DEF Held
  <2>1. CASE v = w
    <3>1. \A p \in 1..(c - 1) : p \in Chunk /\ p # c
      BY <1>2
    <3>2. \A p \in 1..(c - 1) : status'[p] = "sent"
      BY <3>1, <1>3, <1>9, SweptRow DEF Inv
    <3> QED BY <2>1, <3>2, <1>1, <1>5
  <2>2. CASE v # w
    <3> DEFINE d == worker[v].chunk
    <3>1. worker'[v] = worker[v] /\ Busy(v)
      BY <2>2, <1>5 DEF Busy
    <3>2. d \in Chunk /\ d # c /\ \A p \in 1..(d - 1) : p \in Chunk /\ status[p] = "sent"
      BY <3>1, <1>7, OutboxAssumption DEF Inv, Held, Chunk
    <3>3. \A p \in 1..(d - 1) : status'[p] = "sent"
      BY <3>2, <1>3, <1>9, SweptRow DEF Inv
    <3>4. status[d] = "delivery_unknown" \/ (status[d] = "sending" /\ claim_id[d] = v)
      BY <3>1 DEF Inv, Held
    <3>5. status'[d] = "delivery_unknown" \/ (status'[d] = "sending" /\ claim_id'[d] = v)
      BY <3>2, <3>4, <1>1, <1>9, SweptRow DEF Inv
    <3> QED BY <3>1, <3>2, <3>3, <3>5
  <2> QED BY <2>1, <2>2
<1>11. OneWorker'
  BY <1>5, <1>7 DEF Inv, OneWorker, Busy
<1>12. RowsMatch'
  BY <1>1, <1>6, <1>9, SweptRow DEF Inv, RowsMatch
<1>13. WorkersMatch'
  BY <1>4, <1>5, <1>6 DEF Inv, WorkersMatch
<1> QED BY <1>6, <1>8, <1>10, <1>11, <1>12, <1>13 DEF Inv, ArriveOnceInOrder

LEMMA SweepInv ==
    ASSUME Inv, NEW w \in Workers, Sweep(w)
    PROVE  Inv'
<1>1. UNCHANGED <<worker, arrivals>> /\ \A c \in Chunk : status'[c] = Swept(c)
  BY DEF Sweep
<1>2. TypeOK'
  BY SweptRow DEF Sweep, Inv, TypeOK
<1>3. Held'
  <2> SUFFICES ASSUME NEW v \in Workers, Busy(v)
               PROVE  LET d == worker[v].chunk IN
                      /\ d \in Chunk
                      /\ status'[d] = "delivery_unknown" \/ (status'[d] = "sending" /\ claim_id'[d] = v)
                      /\ \A p \in 1..(d - 1) : status'[p] = "sent"
    BY <1>1 DEF Held, Busy
  <2> DEFINE d == worker[v].chunk
  <2>1. d \in Chunk /\ \A p \in 1..(d - 1) : p \in Chunk /\ status[p] = "sent"
    BY OutboxAssumption DEF Inv, Held, Chunk
  <2>2. \A p \in 1..(d - 1) : status'[p] = "sent"
    BY <2>1, <1>1, SweptRow DEF Inv
  <2>3. status[d] = "delivery_unknown" \/ (status[d] = "sending" /\ claim_id[d] = v)
    BY DEF Inv, Held
  <2>4. status'[d] = "delivery_unknown" \/ (status'[d] = "sending" /\ claim_id'[d] = v)
    BY <2>1, <2>3, <1>1, SweptRow DEF Sweep, Inv
  <2> QED BY <2>1, <2>2, <2>4
<1>4. RowsMatch'
  BY <1>1, SweptRow DEF Inv, RowsMatch
<1> QED BY <1>1, <1>2, <1>3, <1>4 DEF Inv, ArriveOnceInOrder, OneWorker, WorkersMatch, Busy

\* A worker goes on with its chunk and neither row nor arrivals change.
LEMMA MoveInv ==
    ASSUME Inv, NEW w \in Workers, NEW place \in Places,
           worker' = [worker EXCEPT ![w] = place],
           UNCHANGED <<channel, status, attempt_count, claim_id, claim_live, overdue, arrivals>>,
           crashes' \in 0..MaxCrashes,
           \/ place.at = "idle"
           \/ Busy(w) /\ place.chunk = worker[w].chunk /\ WorkersMatch'
    PROVE  Inv'
<1>1. worker'[w] = place /\ \A v \in Workers \ {w} : worker'[v] = worker[v]
  BY DEF Inv, TypeOK
<1>2. TypeOK'
  BY DEF Inv, TypeOK, Places
<1>3. \A v \in Workers : Busy(v)' => Busy(v) /\ worker'[v].chunk = worker[v].chunk
  BY <1>1 DEF Busy
<1>4. Held' /\ OneWorker'
  BY <1>3 DEF Inv, Held, OneWorker
<1>5. WorkersMatch'
  BY <1>1 DEF Inv, WorkersMatch
<1> QED BY <1>2, <1>4, <1>5 DEF Inv, ArriveOnceInOrder, RowsMatch

LEMMA PreparesInv ==
    ASSUME Inv, NEW w \in Workers, AuthorizeSend(w) \/ NoSender(w) \/ Crash(w)
    PROVE  Inv'
<1>1. worker[w] \in Places /\ Busy(w)
  BY DEF Inv, TypeOK, Places, AuthorizeSend, NoSender, Crash, Busy
<1>2. crashes' \in 0..MaxCrashes
  BY OutboxAssumption DEF Inv, TypeOK, AuthorizeSend, NoSender, Crash
<1>3. CASE worker' = [worker EXCEPT ![w] = Idle]
  <2>1. UNCHANGED <<channel, status, attempt_count, claim_id, claim_live, overdue, arrivals>>
    BY DEF AuthorizeSend, NoSender, Crash
  <2> QED BY <2>1, <1>2, <1>3, IdlePlace, MoveInv DEF Idle
<1>4. CASE AuthorizeSend(w) /\ worker' = [worker EXCEPT ![w] = [worker[w] EXCEPT !.at = "authorized"]]
  <2> DEFINE place == [worker[w] EXCEPT !.at = "authorized"]
  <2>1. place \in Places /\ place.chunk = worker[w].chunk /\ place.at = "authorized"
    BY <1>1 DEF Places
  <2>2. worker[w].at = "claimed" /\ arrivals' = arrivals
    BY <1>4 DEF AuthorizeSend
  <2>3. WorkersMatch'
    BY <1>4, <2>1, <2>2 DEF Inv, TypeOK, WorkersMatch
  <2> QED BY <1>1, <1>2, <1>4, <2>1, <2>3, MoveInv DEF AuthorizeSend
<1>5. CASE NoSender(w)
  <2> DEFINE place == [worker[w] EXCEPT !.at = "reported", !.outcome = "absent_retryable"]
  <2>1. /\ place \in Places /\ place.chunk = worker[w].chunk
        /\ place.at = "reported" /\ place.outcome = "absent_retryable"
    BY <1>1 DEF Places, Outcome
  <2>2. worker' = [worker EXCEPT ![w] = place]
    BY <1>1, <1>5 DEF NoSender, Inv, TypeOK
  <2>3. worker[w].at = "claimed" /\ arrivals' = arrivals
    BY <1>5 DEF NoSender
  <2>4. WorkersMatch'
    BY <2>1, <2>2, <2>3 DEF Inv, TypeOK, WorkersMatch
  <2> QED BY <1>1, <1>2, <1>5, <2>1, <2>2, <2>4, MoveInv DEF NoSender
<1> QED BY <1>3, <1>4, <1>5 DEF AuthorizeSend, Crash

\* The step that counts: what SendStored appends is the next chunk.
LEMMA SendInv ==
    ASSUME Inv, NEW w \in Workers, SendStored(w)
    PROVE  Inv'
<1> DEFINE c == worker[w].chunk
<1>1. Busy(w) /\ worker[w] \in Places /\ Len(arrivals) = c - 1 /\ c \in Chunk
  BY DEF Inv, TypeOK, Places, Held, WorkersMatch, SendStored, Busy
<1>2. PICK o \in Outcome :
        /\ worker' = [worker EXCEPT ![w].at = "reported", ![w].outcome = o]
        /\ \/ arrivals' = Append(arrivals, c) /\ o \in {"sent", "sent_no_ack", "unknown"}
           \/ arrivals' = arrivals /\ o \in {"absent_retryable", "absent", "unknown"}
  BY DEF SendStored, Outcome
<1> DEFINE place == [worker[w] EXCEPT !.at = "reported", !.outcome = o]
<1>3. place \in Places /\ place.chunk = c /\ place.at = "reported" /\ place.outcome = o
  BY <1>1 DEF Places, Outcome
<1>4. worker' = [worker EXCEPT ![w] = place]
  BY <1>1, <1>2 DEF Inv, TypeOK
<1>5. worker'[w] = place /\ \A v \in Workers \ {w} : worker'[v] = worker[v]
  BY <1>4 DEF Inv, TypeOK
<1>6. CASE arrivals' = arrivals /\ o \in {"absent_retryable", "absent", "unknown"}
  <2>1. WorkersMatch'
    BY <1>1, <1>3, <1>5, <1>6 DEF Inv, WorkersMatch
  <2> QED BY <1>1, <1>3, <1>4, <1>6, <2>1, MoveInv DEF SendStored, Inv, TypeOK
<1>7. CASE arrivals' = Append(arrivals, c) /\ o \in {"sent", "sent_no_ack", "unknown"}
  <2>1. arrivals' \in Seq(Chunk) /\ Len(arrivals') = c /\ arrivals'[c] = c
    BY <1>1, <1>7, OutboxAssumption DEF Inv, TypeOK, Chunk
  <2>2. TypeOK'
    BY <1>3, <1>4, <2>1 DEF SendStored, Inv, TypeOK, Places
  <2>3. ArriveOnceInOrder'
    <3>1. \A i \in 1..(c - 1) : arrivals'[i] = arrivals[i]
      BY <1>1, <1>7, OutboxAssumption DEF Inv, TypeOK, Chunk
    <3>2. ASSUME NEW i \in 1..Len(arrivals') PROVE arrivals'[i] = i
      <4>1. i = c \/ i \in 1..(c - 1)
        BY <2>1, <1>1, OutboxAssumption DEF Chunk
      <4>2. i \in 1..(c - 1) => arrivals[i] = i
        BY <1>1 DEF Inv, ArriveOnceInOrder
      <4> QED BY <4>1, <4>2, <3>1, <2>1
    <3> QED BY <3>2 DEF ArriveOnceInOrder
  <2>4. \A v \in Workers : Busy(v)' => Busy(v) /\ worker'[v].chunk = worker[v].chunk
    BY <1>1, <1>3, <1>5 DEF Busy
  <2>5. Held' /\ OneWorker'
    BY <2>4 DEF SendStored, Inv, Held, OneWorker
  <2>6. RowsMatch'
    <3>1. status[c] \notin {"none", "pending", "failed"}
      BY <1>1 DEF Inv, Held
    <3> QED BY <3>1, <2>1, <1>1, OutboxAssumption DEF SendStored, Inv, RowsMatch, Chunk
  <2>7. \A v \in Workers \ {w} : Busy(v) =>
            /\ worker[v].chunk \in Chunk
            /\ worker[v].chunk # c /\ worker[v].chunk # c - 1
    <3> SUFFICES ASSUME NEW v \in Workers \ {w}, Busy(v)
                 PROVE  worker[v].chunk \in Chunk /\ worker[v].chunk # c /\ worker[v].chunk # c - 1
      OBVIOUS
    <3>1. worker[v].chunk \in Chunk /\ status[worker[v].chunk] # "sent"
      BY DEF Inv, Held
    <3>2. worker[v].chunk # c
      BY <1>1 DEF Inv, OneWorker
    <3>3. \A p \in 1..(c - 1) : status[p] = "sent"
      BY <1>1 DEF Inv, Held
    <3> QED BY <3>1, <3>2, <3>3, <1>1, OutboxAssumption DEF Chunk
  <2>8. WorkersMatch'
    <3> SUFFICES ASSUME NEW v \in Workers
                 PROVE  /\ worker'[v].at \in {"claimed", "authorized"} => Len(arrivals') = worker'[v].chunk - 1
                        /\ worker'[v].at = "reported" /\ worker'[v].outcome \in {"absent", "absent_retryable"} =>
                              Len(arrivals') = worker'[v].chunk - 1
                        /\ worker'[v].at = "reported" /\ worker'[v].outcome = "sent" =>
                              Len(arrivals') = worker'[v].chunk
      BY DEF WorkersMatch
    <3>1. CASE v = w
      BY <3>1, <1>3, <1>5, <1>7, <2>1
    <3>2. CASE v # w
      <4>1. worker'[v] = worker[v]
        BY <3>2, <1>5
      <4>2. CASE Busy(v)
        <5>1. worker[v].chunk \in Nat /\ c \in Nat /\ c > 0
          BY <1>1, <2>7, <3>2, <4>2, OutboxAssumption DEF Chunk
        <5>2. worker[v].chunk # c /\ worker[v].chunk # c - 1
          BY <2>7, <3>2, <4>2
        <5> QED BY <1>1, <4>1, <5>1, <5>2 DEF Inv, WorkersMatch
      <4>3. CASE ~Busy(v)
        BY <4>1, <4>3 DEF Busy
      <4> QED BY <4>2, <4>3
    <3> QED BY <3>1, <3>2
  <2> QED BY <2>2, <2>3, <2>5, <2>6, <2>8 DEF Inv
<1> QED BY <1>2, <1>6, <1>7

\* Finish, by the owner of the claim or by a worker that has lost it.
LEMMA FinishInv ==
    ASSUME Inv, NEW w \in Workers, Finish(w)
    PROVE  Inv'
<1> DEFINE c == worker[w].chunk
<1>1. worker[w].at = "reported" /\ Busy(w) /\ c \in Chunk /\ worker' = [worker EXCEPT ![w] = Idle]
  BY DEF Finish, Busy, Inv, Held
<1>2. CASE ~OwnsClaim(w)
  BY <1>1, <1>2, IdlePlace, MoveInv DEF Finish, Idle, Inv, TypeOK
<1>3. CASE OwnsClaim(w)
  <2>1. /\ status' = [status EXCEPT ![c] = DeliveryOutcome(worker[w])]
        /\ claim_id' = [claim_id EXCEPT ![c] = Nobody]
        /\ UNCHANGED <<channel, attempt_count, claim_live, overdue, arrivals, crashes>>
    BY <1>3 DEF Finish
  <2>2. worker'[w] = Idle /\ \A v \in Workers \ {w} : worker'[v] = worker[v]
    BY <1>1 DEF Inv, TypeOK
  <2>3. DeliveryOutcome(worker[w]) \in Status
    BY DEF DeliveryOutcome, Status
  <2>4. TypeOK'
    <3>1. worker' \in [Workers -> Places]
      BY <1>1, IdlePlace DEF Inv, TypeOK, Places
    <3> QED BY <3>1, <2>1, <2>3 DEF Inv, TypeOK, Places
  <2>5. \A d \in Chunk \ {c} : status'[d] = status[d] /\ claim_id'[d] = claim_id[d]
    BY <2>1 DEF Inv, TypeOK
  <2>6. status[c] = "sending"
    BY <1>3 DEF OwnsClaim
  <2>7. Held'
    <3> SUFFICES ASSUME NEW v \in Workers, Busy(v)'
                 PROVE  LET d == worker'[v].chunk IN
                        /\ d \in Chunk
                        /\ status'[d] = "delivery_unknown" \/ (status'[d] = "sending" /\ claim_id'[d] = v)
                        /\ \A p \in 1..(d - 1) : status'[p] = "sent"
      BY DEF Held
    <3> DEFINE d == worker[v].chunk
    <3>1. v # w /\ worker'[v] = worker[v] /\ Busy(v)
      BY <2>2 DEF Busy, Idle
    <3>2. /\ d \in Chunk /\ d # c
          /\ status[d] = "delivery_unknown" \/ (status[d] = "sending" /\ claim_id[d] = v)
          /\ \A p \in 1..(d - 1) : p \in Chunk /\ p # c /\ status[p] = "sent"
      BY <3>1, <1>1, <2>6, OutboxAssumption DEF Inv, Held, OneWorker, Chunk
    <3> QED BY <3>1, <3>2, <2>5
  <2>8. OneWorker'
    BY <2>2 DEF Inv, OneWorker, Busy, Idle
  <2>9. RowsMatch'
    <3>1. status'[c] = DeliveryOutcome(worker[w])
      BY <1>1, <2>1 DEF Inv, TypeOK
    <3>2. status'[c] = "sent" => Len(arrivals) = c
      BY <3>1, <1>1 DEF DeliveryOutcome, Inv, WorkersMatch
    <3>3. status'[c] # "none" /\ (status'[c] \in {"pending", "failed"} => Len(arrivals) = c - 1)
      BY <3>1, <1>1 DEF DeliveryOutcome, Inv, WorkersMatch
    <3> QED BY <3>2, <3>3, <1>1, <2>1, <2>5, OutboxAssumption DEF Inv, RowsMatch, Chunk
  <2>10. WorkersMatch'
    BY <2>1, <2>2 DEF Inv, WorkersMatch, Idle
  <2> QED BY <2>1, <2>4, <2>7, <2>8, <2>9, <2>10 DEF Inv, ArriveOnceInOrder
<1> QED BY <1>2, <1>3

LEMMA NextInv == Inv /\ [Next]_vars => Inv'
<1> SUFFICES ASSUME Inv, [Next]_vars PROVE Inv'
  OBVIOUS
<1>1. CASE UNCHANGED vars
  BY <1>1 DEF vars, Inv, TypeOK, ArriveOnceInOrder, Held, OneWorker, RowsMatch, WorkersMatch, Busy
<1>2. CASE Next
  BY <1>2, EnqueueInv, TimeInv, ClaimInv, SweepInv, PreparesInv, SendInv, FinishInv DEF Next, WorkerStep
<1> QED BY <1>1, <1>2

\* Whatever claims expire, acknowledgements are lost, sends outlast their claims and
\* workers die (store.go:144-231), the user gets chunk 1, 2, 3 ... and each at most once.
THEOREM OnceInOrder == Spec => []ArriveOnceInOrder
<1>1. Inv => ArriveOnceInOrder
  BY DEF Inv
<1> QED BY <1>1, InitInv, NextInv, PTL DEF Spec

\* How often the user has a chunk follows from how many arrived.
LEMMA DeliveriesOf ==
    ASSUME Inv, NEW c \in Chunk
    PROVE  Deliveries(c) = IF c <= Len(arrivals) THEN 1 ELSE 0
<1>1. c \in Nat \ {0} /\ Len(arrivals) \in Nat
  BY OutboxAssumption DEF Inv, TypeOK, Chunk
<1>2. {i \in 1..Len(arrivals) : arrivals[i] = c} = {i \in 1..Len(arrivals) : i = c}
  BY DEF Inv, ArriveOnceInOrder
<1>3. CASE c <= Len(arrivals)
  <2>1. {i \in 1..Len(arrivals) : i = c} = {c}
    BY <1>1, <1>3
  <2> QED BY <1>2, <1>3, <2>1, FS_Singleton DEF Deliveries
<1>4. CASE ~(c <= Len(arrivals))
  <2>1. {i \in 1..Len(arrivals) : i = c} = {}
    BY <1>1, <1>4
  <2> QED BY <1>2, <1>4, <2>1, FS_EmptySet DEF Deliveries
<1> QED BY <1>3, <1>4

\* What a row says of its chunk is true of the user: sent means received exactly once,
\* pending and failed mean not received, whatever was lost between them.
THEOREM RowsTellTheTruth == Spec => []RowsAreTrue
<1>1. Inv => RowsAreTrue
  <2> SUFFICES ASSUME Inv, NEW c \in Chunk
               PROVE  /\ status[c] = "sent" => Deliveries(c) = 1
                      /\ status[c] \in {"failed", "pending"} => Deliveries(c) = 0
    BY DEF Inv, RowsAreTrue
  <2>1. /\ status[c] = "sent" => c <= Len(arrivals)
        /\ status[c] \in {"failed", "pending"} => Len(arrivals) < c
    BY DEF Inv, RowsMatch
  <2>2. c \in Nat /\ Len(arrivals) \in Nat
    BY OutboxAssumption DEF Inv, TypeOK, Chunk
  <2> QED BY <2>1, <2>2, DeliveriesOf
<1> QED BY <1>1, InitInv, NextInv, PTL DEF Spec
=============================================================================
