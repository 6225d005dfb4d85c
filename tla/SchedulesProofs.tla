--------------------------- MODULE SchedulesProofs ---------------------------
(***************************************************************************)
(* The safety of one scheduled job for any timings, grace, maximum, number *)
(* of sweepers, controls and failures: no slot is served twice, the usage  *)
(* is counted across revisions, one input is unfinished at a time, and no  *)
(* wait carries an admission past its expiry or grace.                     *)
(*                                                                         *)
(* The argument: every consumed slot lies before next_at, and the slot a   *)
(* sweeper is about to record does not; an updated timing starts after the *)
(* clock, which no recorded slot has passed.  While a sweeper holds the    *)
(* job row nothing it has read of it changes, and nobody else admits, so   *)
(* what it saw before a wait is what it finds after it, except the clock,  *)
(* which it reads again.                                                   *)
(***************************************************************************)
EXTENDS Schedules, FiniteSetTheorems, TLAPS

\* Most leaves unfold definitions and compare cases; those with arithmetic cite SMT.
USE ZenonT(30) DEF fixed

OccurrenceStates == {"admitted", "notified", "skipped", "blocked"}
Occurrence ==
    [revision : Nat, slot : Nat, state : OccurrenceStates, work : InputStates \cup NoticeStates \cup {None},
     made : Nat, expires : Nat, arrived : Nat]

\* What a row becomes depends on how it was recorded.
WorkFits(o) ==
    /\ o.state = "admitted" => o.work \in InputStates
    /\ o.state = "notified" => o.work \in NoticeStates
    /\ o.state \in {"skipped", "blocked"} => o.work = None

\* A row of a job that is at revision `rev' with timing t and the next slot `due',
\* when the clock shows n.
RowOK(o, n, rev, t, due) ==
    /\ o \in Occurrence /\ WorkFits(o)
    /\ o.revision \in 1..rev
    /\ o.slot <= o.made /\ o.made <= n
    /\ o.state # "blocked" /\ due # Never => o.slot < due
    /\ o.arrived <= 1 /\ (o.work \in {"pending", "sending", "cleared"} => o.arrived = 0)
    /\ o.work \in InputStates \ Terminal => o.revision = rev
    /\ o.state \in {"admitted", "notified"} =>
          o.made < o.expires /\ (o.revision = rev => InGrace(t, o.slot, o.made))

Rows == \A i \in DOMAIN occurrences : RowOK(occurrences[i], now, revision, timing, next_at)

\* The slots of a daily timing are the multiples of n.
OnGrid(t, at) == t.kind = "daily" => \E k \in Nat : at = k * t.n

\* Of the rows an input is unfinished and stands in the way of the next one.
Engaged(i) == occurrences[i].work \in InputStates \ (Terminal \cup IF mode = "monitor" THEN {"outage"} ELSE {})

Ordered == \A i, k \in Consumed : i < k => occurrences[i].slot < occurrences[k].slot
Single == \A i, k \in DOMAIN occurrences : Engaged(i) /\ Engaged(k) => i = k

TickType == [slot : Nat, next : Nat, observe : BOOLEAN, day : Nat]

\* The holder of the job row, and what it computed at its first clock reading.
Holding ==
    /\ \A w \in Sweepers : pc[w] \in {"checked", "admitting"} <=> holder = w
    /\ holder = None => tick = NoTick
    /\ holder # None =>
          /\ state = "active"
          /\ next_at <= tick.slot /\ tick.slot <= now
          /\ tick.next = Never \/ tick.slot < tick.next
          /\ OnGrid(timing, tick.next)
    /\ \A w \in Sweepers : pc[w] = "admitting" => ~Busy

JobTyped ==
    /\ now \in Times /\ channel \in Channels /\ maximum \in 1..Maximum /\ mode \in Modes /\ allowed \in BOOLEAN /\ faults \in 0..MaxFaults
    /\ state \in {"active", "paused", "blocked", "cancelled", "finished"}
    /\ revision \in 1..MaxRevision /\ next_at \in Nat /\ expires_at \in 1..Expiry
    /\ timing \in Timings /\ max_occurrences \in 1..maximum /\ occurrence_count \in 0..max_occurrences
    /\ holder \in Sweepers \cup {None}
    /\ pc \in [Sweepers -> {"idle", "listed", "checked", "admitting"}]
    /\ tick \in TickType

Counted ==
    /\ occurrence_count = Cardinality(Consumed)
    /\ state \in {"active", "paused", "blocked"} => occurrence_count < max_occurrences /\ next_at # Never

Inv ==
    /\ JobTyped /\ OnGrid(timing, next_at) /\ Counted /\ Holding
    /\ occurrences \in Seq(Occurrence) /\ Rows /\ Ordered /\ Single
-----------------------------------------------------------------------------
(* The calendar *)

LEMMA Division ==
    ASSUME NEW a \in Nat, NEW n \in Nat \ {0}
    PROVE  a \div n \in Nat /\ (a \div n) * n \in Nat /\ (a \div n) * n <= a /\ a < (a \div n + 1) * n
BY SMTT(30)

LEMMA Multiples ==
    ASSUME NEW a \in Nat, NEW b \in Nat, NEW n \in Nat \ {0}
    PROVE  /\ a * n \in Nat /\ (a + 1) * n = a * n + n
           /\ a <= b => a * n <= b * n
           /\ a * n < b * n => a < b
BY SMTT(30)

LEMMA TimingTyped ==
    ASSUME NEW t \in Timings
    PROVE  t.kind \in {"once", "daily", "interval"} /\ t.n \in Nat \ {0} /\ t.policy \in {"coalesce", "skip"}
BY SchedulesAssumption

\* Schedule.Due never looks back behind the slot that is due, nor ahead of the clock.
LEMMA LatestBounds ==
    ASSUME NEW t \in Timings, NEW due \in Nat, NEW at \in Nat, due <= at, OnGrid(t, due)
    PROVE  Latest(t, due, at) \in Nat /\ due <= Latest(t, due, at) /\ Latest(t, due, at) <= at
<1>1. CASE t.kind = "interval"
  <2>1. at - due \in Nat /\ t.n \in Nat \ {0}
    BY TimingTyped, SMTT(30)
  <2>2. ((at - due) \div t.n) * t.n \in Nat /\ ((at - due) \div t.n) * t.n <= at - due
    BY <2>1, Division
  <2>3. Latest(t, due, at) = due + ((at - due) \div t.n) * t.n
    BY <1>1 DEF Latest
  <2> HIDE DEF Latest
  <2> QED BY <2>1, <2>2, <2>3, SMTT(30)
<1>2. CASE t.kind = "daily"
  <2>1. t.n \in Nat \ {0}
    BY TimingTyped
  <2>2. PICK k \in Nat : due = k * t.n
    BY <1>2 DEF OnGrid
  <2>3. /\ at \div t.n \in Nat /\ (at \div t.n) * t.n \in Nat /\ (at \div t.n) * t.n <= at
        /\ at < (at \div t.n + 1) * t.n
    BY <2>1, Division
  <2>4. at \div t.n + 1 \in Nat /\ k * t.n < (at \div t.n + 1) * t.n
    BY <2>1, <2>2, <2>3, SMTT(30)
  <2>5. k < at \div t.n + 1
    BY <2>1, <2>4, Multiples
  <2>6. k <= at \div t.n
    BY <2>3, <2>5, SMTT(30)
  <2>7. due <= (at \div t.n) * t.n
    BY <2>1, <2>2, <2>3, <2>6, Multiples
  <2> QED BY <1>2, <2>3, <2>7 DEF Latest
<1>3. CASE t.kind = "once"
  BY <1>3, SMTT(30) DEF Latest
<1> QED BY <1>1, <1>2, <1>3, TimingTyped

\* Schedule.NextAfter looks ahead, or finds no further slot.
LEMMA NextAfterBounds ==
    ASSUME NEW t \in Timings, NEW at \in Nat
    PROVE  /\ NextAfter(t, at) \in Nat
           /\ NextAfter(t, at) = Never \/ at < NextAfter(t, at)
           /\ OnGrid(t, NextAfter(t, at))
<1>1. CASE t.kind = "interval"
  BY <1>1, TimingTyped, SMTT(30) DEF NextAfter, OnGrid
<1>2. CASE t.kind = "daily"
  <2>1. at \div t.n \in Nat /\ t.n \in Nat \ {0} /\ at < (at \div t.n + 1) * t.n
    BY TimingTyped, Division
  <2>2. at \div t.n + 1 \in Nat /\ (at \div t.n + 1) * t.n \in Nat
    BY <2>1, Multiples, SMTT(30)
  <2>3. NextAfter(t, at) = (at \div t.n + 1) * t.n
    BY <1>2 DEF NextAfter
  <2> QED BY <2>1, <2>2, <2>3 DEF OnGrid
<1>3. CASE t.kind = "once"
  BY <1>3, TimingTyped DEF NextAfter, OnGrid, Never
<1> QED BY <1>1, <1>2, <1>3, TimingTyped

LEMMA DueBounds ==
    ASSUME NEW t \in Timings, NEW due \in Nat, NEW at \in Nat, due <= at, OnGrid(t, due)
    PROVE  /\ Due(t, due, at) \in TickType
           /\ due <= Due(t, due, at).slot /\ Due(t, due, at).slot <= at
           /\ Due(t, due, at).next = Never \/ Due(t, due, at).slot < Due(t, due, at).next
           /\ OnGrid(t, Due(t, due, at).next)
<1> DEFINE latest == Latest(t, due, at)
           next == IF t.kind = "interval" THEN latest + t.n ELSE NextAfter(t, at)
<1>1. latest \in Nat /\ due <= latest /\ latest <= at
  BY LatestBounds
<1>2. next \in Nat /\ (next = Never \/ latest < next) /\ OnGrid(t, next)
  <2>1. CASE t.kind = "interval"
    <3>1. t.n \in Nat \ {0}
      BY TimingTyped
    <3> HIDE DEF latest
    <3> QED BY <2>1, <3>1, <1>1, SMTT(30) DEF OnGrid
  <2>2. CASE t.kind # "interval"
    <3> HIDE DEF latest
    <3> QED BY <2>2, <1>1, NextAfterBounds, SMTT(30)
  <2> QED BY <2>1, <2>2
<1>3. InGrace(t, latest, at) \in BOOLEAN
  BY DEF InGrace
<1>4. Due(t, due, at) = [slot |-> latest, next |-> next, observe |-> InGrace(t, latest, at), day |-> 0]
  BY DEF Due
<1> HIDE DEF latest, next
<1> QED BY <1>1, <1>2, <1>3, <1>4, SMTT(30) DEF TickType

-----------------------------------------------------------------------------
(* What the steps do to a row *)

\* The clock moves on.
LEMMA RowLater ==
    ASSUME NEW o, NEW n \in Nat, NEW m \in Nat, NEW rev, NEW t, NEW due, n <= m, RowOK(o, n, rev, t, due)
    PROVE  RowOK(o, m, rev, t, due)
<1>1. o.made \in Nat
  BY DEF RowOK, Occurrence
<1> QED BY <1>1, SMTT(30) DEF RowOK

\* The next slot moves on, or there is none.
LEMMA RowAhead ==
    ASSUME NEW o, NEW n, NEW rev, NEW t, NEW due \in Nat, NEW later \in Nat, RowOK(o, n, rev, t, due),
           later = Never \/ (due # Never /\ due <= later)
    PROVE  RowOK(o, n, rev, t, later)
<1>1. o.slot \in Nat
  BY DEF RowOK, Occurrence
<1>2. o.state # "blocked" /\ later # Never => o.slot < later
  BY <1>1, SMTT(30) DEF RowOK
<1> QED BY <1>2 DEF RowOK

\* A control: the next revision with its timing, and no unfinished input.
LEMMA RowRetired ==
    ASSUME NEW o, NEW n \in Nat, NEW rev \in Nat, NEW t, NEW s, NEW due \in Nat, NEW later \in Nat,
           RowOK(o, n, rev, t, due), later = Never \/ later = due \/ n < later
    PROVE  RowOK([o EXCEPT !.work = Retired(@)], n, rev + 1, s, later)
<1> DEFINE p == [o EXCEPT !.work = Retired(@)]
<1>1. o \in Occurrence
  BY DEF RowOK
<1>2. /\ p.revision = o.revision /\ p.slot = o.slot /\ p.state = o.state /\ p.made = o.made
      /\ p.expires = o.expires /\ p.arrived = o.arrived /\ p.work = Retired(o.work)
  BY <1>1 DEF Occurrence
<1>3. o.slot \in Nat /\ o.made \in Nat /\ o.revision \in Nat
  BY <1>1 DEF Occurrence
<1>4. /\ Retired(o.work) \in InputStates \cup NoticeStates \cup {None} /\ Retired(o.work) \notin InputStates \ Terminal
      /\ o.work \in InputStates => Retired(o.work) \in InputStates
      /\ o.work \notin InputStates => Retired(o.work) = o.work
  BY <1>1 DEF Occurrence, Retired, InputStates, Terminal
<1>5. p \in Occurrence
  BY <1>1, <1>4 DEF Occurrence
<1>6. WorkFits(p)
  BY <1>2, <1>4 DEF WorkFits, RowOK, InputStates, NoticeStates, Terminal, None
<1>7. p.revision \in 1..(rev + 1) /\ p.revision # rev + 1
  BY <1>2, <1>3, SMTT(30) DEF RowOK
<1>8. p.state # "blocked" /\ later # Never => p.slot < later
  BY <1>2, <1>3, SMTT(30) DEF RowOK
<1>9. p.work \in {"pending", "sending", "cleared"} => p.arrived = 0
  BY <1>2, <1>4, SMTT(30) DEF RowOK, Retired
<1> HIDE DEF p
<1>10. RowOK(p, n, rev + 1, s, later)
  BY <1>2, <1>4, <1>5, <1>6, <1>7, <1>8, <1>9 DEF RowOK
<1> QED BY <1>10 DEF p

\* An input or a notice goes on to another state of its own kind.
LEMMA RowWorked ==
    ASSUME NEW o, NEW n, NEW rev, NEW t, NEW due, RowOK(o, n, rev, t, due), NEW to, NEW arrived \in 0..1,
           \/ /\ o.work \in InputStates /\ to \in InputStates /\ arrived = o.arrived
              /\ to \in Terminal \/ o.work \notin Terminal
           \/ /\ o.work \in NoticeStates /\ to \in NoticeStates
              /\ to \in {"pending", "sending", "cleared"} => arrived = 0
    PROVE  RowOK([o EXCEPT !.work = to, !.arrived = arrived], n, rev, t, due)
<1> DEFINE p == [o EXCEPT !.work = to, !.arrived = arrived]
<1>1. o \in Occurrence
  BY DEF RowOK
<1>2. /\ p.revision = o.revision /\ p.slot = o.slot /\ p.state = o.state /\ p.made = o.made
      /\ p.expires = o.expires /\ p.arrived = arrived /\ p.work = to
  BY <1>1 DEF Occurrence
<1>3. p \in Occurrence
  <2>1. to \in InputStates \cup NoticeStates \cup {None} /\ arrived \in Nat
    BY SMTT(30)
  <2> QED BY <1>1, <2>1 DEF Occurrence
<1>4. WorkFits(p)
  BY <1>2 DEF WorkFits, RowOK, InputStates, NoticeStates, Terminal, None
<1>5. p.work \in InputStates \ Terminal => p.revision = rev
  BY <1>2 DEF RowOK, InputStates, NoticeStates, Terminal
<1>6. p.work \in {"pending", "sending", "cleared"} => p.arrived = 0
  BY <1>2 DEF RowOK, InputStates, NoticeStates, Terminal
<1>7. p.arrived <= 1
  BY <1>2, SMTT(30)
<1> HIDE DEF p
<1>8. RowOK(p, n, rev, t, due)
  BY <1>2, <1>3, <1>4, <1>5, <1>6, <1>7 DEF RowOK
<1> QED BY <1>8 DEF p

-----------------------------------------------------------------------------
(* The rows of the job *)

LEMMA Basics ==
    ASSUME JobTyped
    PROVE  /\ now \in Nat \ {0} /\ revision \in Nat \ {0} /\ expires_at \in Nat \ {0} /\ next_at \in Nat
           /\ timing \in Timings /\ max_occurrences \in Nat \ {0} /\ occurrence_count \in Nat
           /\ tick.slot \in Nat /\ tick.next \in Nat /\ tick.day \in Nat
<1>1. tick \in TickType
  BY DEF JobTyped
<1>2. tick.slot \in Nat /\ tick.next \in Nat /\ tick.day \in Nat
  BY <1>1 DEF TickType
<1>3. now \in 1..Horizon /\ Horizon \in Nat /\ revision \in 1..MaxRevision /\ MaxRevision \in Nat
  BY SchedulesAssumption DEF JobTyped, Times
<1>4. /\ expires_at \in 1..Expiry /\ Expiry \in Nat /\ max_occurrences \in 1..maximum
      /\ maximum \in 1..Maximum /\ Maximum \in Nat
  BY SchedulesAssumption DEF JobTyped
<1>5. max_occurrences \in Nat /\ occurrence_count \in 0..max_occurrences
  BY <1>4, SMTT(30) DEF JobTyped
<1> QED BY <1>2, <1>3, <1>4, <1>5, SMTT(30) DEF JobTyped

LEMMA NoSweeper == None \notin Sweepers
BY SchedulesAssumption DEF None

LEMMA ConsumedFinite ==
    ASSUME occurrences \in Seq(Occurrence)
    PROVE  IsFiniteSet(Consumed) /\ Cardinality(Consumed) \in Nat
<1>1. DOMAIN occurrences = 1..Len(occurrences) /\ Len(occurrences) \in Nat
  BY SMTT(30)
<1>2. IsFiniteSet(1..Len(occurrences))
  BY <1>1, FS_Interval, SMTT(30)
<1>3. Consumed \subseteq 1..Len(occurrences)
  BY <1>1 DEF Consumed
<1>4. IsFiniteSet(Consumed)
  BY <1>2, <1>3, FS_Subset
<1> QED BY <1>4, FS_CardinalityType

\* The transaction ends: nobody holds the job row.
LEMMA LeaveHolding ==
    ASSUME Inv, NEW w \in Sweepers, holder \in {None, w}, Leave(w)
    PROVE  /\ Holding' /\ holder' = None /\ tick' \in TickType
           /\ pc' \in [Sweepers -> {"idle", "listed", "checked", "admitting"}]
<1>1. pc' = [pc EXCEPT ![w] = "idle"] /\ holder' = None /\ tick' = NoTick
  BY DEF Leave
<1>2. pc \in [Sweepers -> {"idle", "listed", "checked", "admitting"}]
  BY DEF Inv, JobTyped
<1>3. \A v \in Sweepers : pc'[v] = IF v = w THEN "idle" ELSE pc[v]
  BY <1>1, <1>2
<1>4. \A v \in Sweepers : pc[v] \in {"checked", "admitting"} => v = w
  BY NoSweeper DEF Inv, Holding
<1>5. \A v \in Sweepers : pc'[v] \notin {"checked", "admitting"}
  BY <1>3, <1>4
<1>6. pc' \in [Sweepers -> {"idle", "listed", "checked", "admitting"}]
  BY <1>1, <1>2
<1>7. NoTick \in TickType
  BY DEF NoTick, TickType, Never
<1> QED BY <1>1, <1>5, <1>6, <1>7, NoSweeper DEF Holding

\* A row changes and keeps its slot and kind: the work on inputs and notices.
LEMMA RowChanged ==
    ASSUME Inv, NEW i \in DOMAIN occurrences, NEW p, RowOK(p, now, revision, timing, next_at),
           p.state = occurrences[i].state, p.slot = occurrences[i].slot,
           p.work \in InputStates \ (Terminal \cup IF mode = "monitor" THEN {"outage"} ELSE {}) => Engaged(i),
           occurrences' = [occurrences EXCEPT ![i] = p],
           UNCHANGED <<now, fixed, mode, job, allowed, sweeping>>, faults' \in 0..MaxFaults
    PROVE  Inv'
<1>1. occurrences \in Seq(Occurrence) /\ p \in Occurrence
  BY DEF Inv, RowOK
<1>2. occurrences' \in Seq(Occurrence) /\ DOMAIN occurrences' = DOMAIN occurrences
  BY <1>1, SMTT(30)
<1>3. \A k \in DOMAIN occurrences : occurrences'[k] = IF k = i THEN p ELSE occurrences[k]
  BY <1>1
<1>4. /\ now' = now /\ fixed' = fixed /\ mode' = mode /\ revision' = revision /\ timing' = timing /\ next_at' = next_at
      /\ state' = state /\ occurrence_count' = occurrence_count /\ max_occurrences' = max_occurrences
      /\ holder' = holder /\ pc' = pc /\ tick' = tick /\ expires_at' = expires_at /\ allowed' = allowed
  BY DEF job, sweeping
<1>5. Rows'
  BY <1>2, <1>3, <1>4 DEF Inv, Rows
<1>6. \A k \in DOMAIN occurrences : occurrences'[k].state = occurrences[k].state /\ occurrences'[k].slot = occurrences[k].slot
  BY <1>3
<1>7. Consumed' = Consumed
  BY <1>2, <1>6 DEF Consumed
<1>8. \A k \in Consumed : k \in DOMAIN occurrences
  BY DEF Consumed
<1>9. Ordered'
  BY <1>6, <1>7, <1>8 DEF Inv, Ordered
<1>10. \A k \in DOMAIN occurrences : Engaged(k)' => Engaged(k)
  BY <1>3, <1>4 DEF Engaged
<1>11. Single'
  BY <1>2, <1>10 DEF Inv, Single
<1>12. Busy' => Busy
  BY <1>2, <1>10 DEF Busy, Engaged
<1>13. Holding'
  BY <1>4, <1>12 DEF Inv, Holding
<1>14. JobTyped' /\ OnGrid(timing, next_at)' /\ Counted'
  BY <1>4, <1>7 DEF Inv, JobTyped, OnGrid, Counted
<1> QED BY <1>2, <1>5, <1>9, <1>11, <1>13, <1>14 DEF Inv

\* A row is added: what Append does.
LEMMA RowAdded ==
    ASSUME Inv, NEW o \in Occurrence, occurrences' = Append(occurrences, o)
    PROVE  /\ occurrences' \in Seq(Occurrence)
           /\ Len(occurrences) \in Nat /\ DOMAIN occurrences = 1..Len(occurrences)
           /\ DOMAIN occurrences' = 1..(Len(occurrences) + 1)
           /\ \A k \in DOMAIN occurrences : occurrences'[k] = occurrences[k]
           /\ occurrences'[Len(occurrences) + 1] = o
BY SMTT(30) DEF Inv

\* A blocked row consumes no slot.
LEMMA BlockedAdded ==
    ASSUME Inv, NEW o \in Occurrence, occurrences' = Append(occurrences, o), o.state = "blocked"
    PROVE  Consumed' = Consumed
<1> DEFINE n == Len(occurrences) + 1
<1>1. /\ n \in Nat /\ DOMAIN occurrences = 1..(n - 1) /\ DOMAIN occurrences' = 1..n /\ occurrences'[n] = o
      /\ \A k \in DOMAIN occurrences : occurrences'[k] = occurrences[k]
  BY RowAdded, SMTT(30)
<1> HIDE DEF n
<1>2. \A k \in 1..n : k = n \/ k \in DOMAIN occurrences
  BY <1>1, SMTT(30)
<1> QED BY <1>1, <1>2, SMTT(30) DEF Consumed

\* Any other row consumes its slot, which comes after all those before.
LEMMA ConsumedAdded ==
    ASSUME Inv, NEW o \in Occurrence, occurrences' = Append(occurrences, o), o.state # "blocked",
           next_at # Never, next_at <= o.slot
    PROVE  Cardinality(Consumed') = Cardinality(Consumed) + 1 /\ Ordered'
<1> DEFINE n == Len(occurrences) + 1
<1>1. /\ n \in Nat /\ DOMAIN occurrences = 1..(n - 1) /\ DOMAIN occurrences' = 1..n /\ occurrences'[n] = o
      /\ \A k \in DOMAIN occurrences : occurrences'[k] = occurrences[k]
  BY RowAdded, SMTT(30)
<1> HIDE DEF n
<1>2. \A k \in 1..n : k = n \/ k \in DOMAIN occurrences
  BY <1>1, SMTT(30)
<1>3. Consumed' = Consumed \cup {n}
  BY <1>1, <1>2, SMTT(30) DEF Consumed
<1>4. n \notin DOMAIN occurrences /\ \A k \in Consumed : k \in DOMAIN occurrences
  BY <1>1, SMTT(30) DEF Consumed
<1>5. Cardinality(Consumed') = Cardinality(Consumed) + 1
  <2>1. IsFiniteSet(Consumed) /\ n \notin Consumed
    BY <1>4, ConsumedFinite DEF Inv
  <2> QED BY <1>3, <2>1, FS_AddElement
<1>6. \A k \in Consumed : occurrences[k].slot < o.slot
  <2>1. o.slot \in Nat /\ next_at \in Nat
    BY Basics DEF Inv, Occurrence
  <2>2. ASSUME NEW k \in Consumed PROVE occurrences[k].slot \in Nat /\ occurrences[k].slot < next_at
    <3>1. RowOK(occurrences[k], now, revision, timing, next_at) /\ occurrences[k].state # "blocked"
      BY <1>4 DEF Inv, Rows, Consumed
    <3> QED BY <3>1 DEF RowOK, Occurrence
  <2> QED BY <2>1, <2>2, SMTT(30)
<1>7. Ordered'
  <2> SUFFICES ASSUME NEW i \in Consumed', NEW k \in Consumed', i < k
               PROVE  occurrences'[i].slot < occurrences'[k].slot
    BY DEF Ordered
  <2>1. i \in 1..n /\ k \in 1..n
    BY <1>1 DEF Consumed
  <2>2. i # n /\ i \in Consumed
    BY <1>1, <1>3, <2>1, SMTT(30)
  <2>3. CASE k = n
    BY <2>2, <2>3, <1>1, <1>4, <1>6
  <2>4. CASE k # n
    <3>1. k \in Consumed
      BY <2>4, <1>3
    <3> QED BY <2>2, <3>1, <1>1, <1>4 DEF Inv, Ordered
  <2> QED BY <2>3, <2>4
<1> QED BY <1>5, <1>7

-----------------------------------------------------------------------------
(* The sweepers *)

RecordedSlot == IF tick = NoTick THEN Latest(timing, next_at, now) ELSE tick.slot
NewRow(s, work) ==
    [revision |-> revision, slot |-> RecordedSlot, state |-> s, work |-> work,
     made |-> now, expires |-> expires_at, arrived |-> 0]

LEMMA RecordAppends ==
    ASSUME NEW s, NEW work, Record(s, work)
    PROVE  occurrences' = Append(occurrences, NewRow(s, work))
BY DEF Record, NewRow, RecordedSlot

\* The slot that is recorded is the one that is due or a later one, and has come.
LEMMA SlotHasCome ==
    ASSUME Inv, holder # None \/ (next_at # Never /\ next_at <= now)
    PROVE  RecordedSlot \in Nat /\ next_at <= RecordedSlot /\ RecordedSlot <= now
<1>1. /\ now \in Nat \ {0} /\ next_at \in Nat /\ timing \in Timings /\ tick.slot \in Nat
  BY Basics DEF Inv
<1>2. CASE holder # None
  <2>1. next_at <= tick.slot /\ tick.slot <= now /\ next_at # Never
    BY <1>2 DEF Inv, Holding, Counted
  <2>2. tick # NoTick
    BY <1>1, <2>1, SMTT(30) DEF NoTick, Never
  <2> QED BY <1>1, <2>1, <2>2 DEF RecordedSlot
<1>3. CASE holder = None
  <2>1. tick = NoTick /\ next_at <= now /\ OnGrid(timing, next_at)
    BY <1>3 DEF Inv, Holding
  <2> QED BY <1>1, <2>1, LatestBounds DEF RecordedSlot
<1> QED BY <1>2, <1>3

LEMMA NewRowOK ==
    ASSUME Inv, RecordedSlot \in Nat, RecordedSlot <= now, NEW due \in Nat,
           NEW s \in OccurrenceStates, NEW work,
           s # "blocked" /\ due # Never => RecordedSlot < due,
           \/ s = "admitted" /\ work \in InputStates
           \/ s = "notified" /\ work \in NoticeStates
           \/ s \in {"skipped", "blocked"} /\ work = None,
           s \in {"admitted", "notified"} => now < expires_at /\ InGrace(timing, RecordedSlot, now)
    PROVE  NewRow(s, work) \in Occurrence /\ RowOK(NewRow(s, work), now, revision, timing, due)
<1> DEFINE o == NewRow(s, work)
<1>1. now \in Nat \ {0} /\ revision \in Nat \ {0} /\ expires_at \in Nat \ {0}
  BY Basics DEF Inv
<1>2. /\ o.revision = revision /\ o.slot = RecordedSlot /\ o.state = s /\ o.work = work
      /\ o.made = now /\ o.expires = expires_at /\ o.arrived = 0
  BY DEF NewRow
<1>3. work \in InputStates \cup NoticeStates \cup {None}
  OBVIOUS
<1>4. o \in Occurrence
  BY <1>1, <1>3 DEF NewRow, Occurrence
<1>5. WorkFits(o)
  BY <1>2 DEF WorkFits
<1> HIDE DEF o
<1>6. RowOK(o, now, revision, timing, due)
  BY <1>1, <1>2, <1>4, <1>5, SMTT(30) DEF RowOK
<1> QED BY <1>4, <1>6 DEF o

\* The slot stays due and the job waits.
LEMMA BlockInv ==
    ASSUME Inv, NEW w \in Sweepers, Block(w), state = "active",
           holder = w \/ (holder = None /\ next_at # Never /\ next_at <= now),
           UNCHANGED <<now, fixed, mode, allowed>>, faults' \in 0..MaxFaults
    PROVE  Inv'
<1> DEFINE o == NewRow("blocked", None)
<1>0. PICK n : n = Len(occurrences) + 1
  OBVIOUS
<1>1. /\ occurrences' = Append(occurrences, o) /\ state' = "blocked" /\ Leave(w)
      /\ UNCHANGED <<revision, next_at, expires_at, timing, max_occurrences, occurrence_count>>
  BY RecordAppends DEF Block
<1>2. holder # None \/ (next_at # Never /\ next_at <= now)
  BY NoSweeper
<1>3. o \in Occurrence /\ RowOK(o, now, revision, timing, next_at)
  BY <1>2, SlotHasCome, NewRowOK, Basics DEF Inv, OccurrenceStates
<1>4. o.state = "blocked" /\ o.work = None
  BY DEF NewRow
<1> HIDE DEF o
<1>5. /\ occurrences' \in Seq(Occurrence) /\ n \in Nat /\ DOMAIN occurrences = 1..(n - 1) /\ DOMAIN occurrences' = 1..n
      /\ occurrences'[n] = o /\ \A k \in DOMAIN occurrences : occurrences'[k] = occurrences[k]
  BY <1>0, <1>1, <1>3, RowAdded, SMTT(30)
<1>6. \A k \in 1..n : k = n \/ k \in DOMAIN occurrences
  BY <1>5, SMTT(30)
<1>7. Consumed' = Consumed
  BY <1>1, <1>3, <1>4, BlockedAdded
<1>8. Rows'
  BY <1>1, <1>3, <1>5, <1>6 DEF Inv, Rows
<1>9. Ordered'
  BY <1>5, <1>7 DEF Inv, Ordered, Consumed
<1>10. ~Engaged(n)' /\ \A k \in DOMAIN occurrences : Engaged(k)' => Engaged(k)
  BY <1>4, <1>5 DEF Engaged, InputStates, Terminal, None
<1>11. Single'
  BY <1>5, <1>6, <1>10 DEF Inv, Single
<1>12. Holding' /\ holder' = None /\ tick' \in TickType
       /\ pc' \in [Sweepers -> {"idle", "listed", "checked", "admitting"}]
  BY <1>1, LeaveHolding
<1>13. JobTyped'
  BY <1>1, <1>12 DEF Inv, JobTyped
<1>14. OnGrid(timing, next_at)' /\ Counted'
  BY <1>1, <1>7 DEF Inv, OnGrid, Counted
<1> QED BY <1>5, <1>8, <1>9, <1>11, <1>12, <1>13, <1>14 DEF Inv

\* The job is over, or was found expired.
LEMMA FinishExpiredInv ==
    ASSUME Inv, NEW w \in Sweepers, FinishExpired(w), holder \in {None, w}, UNCHANGED <<now, fixed, mode, allowed, faults>>
    PROVE  Inv'
<1>1. /\ state' = "finished" /\ next_at' = Never /\ Leave(w)
      /\ UNCHANGED <<revision, expires_at, timing, max_occurrences, occurrence_count, occurrences>>
  BY DEF FinishExpired
<1>2. next_at \in Nat /\ Never \in Nat
  BY Basics DEF Inv, Never
<1>3. \A i \in DOMAIN occurrences : RowOK(occurrences[i], now, revision, timing, Never)
  BY <1>2, RowAhead DEF Inv, Rows
<1>4. Rows'
  BY <1>1, <1>3 DEF Rows
<1>5. Holding' /\ holder' = None /\ tick' \in TickType
      /\ pc' \in [Sweepers -> {"idle", "listed", "checked", "admitting"}]
  BY <1>1, LeaveHolding
<1>6. JobTyped'
  BY <1>1, <1>2, <1>5 DEF Inv, JobTyped
<1>7. OnGrid(timing, Never)
  <2>1. timing.n \in Nat
    BY TimingTyped, Basics DEF Inv
  <2>2. Never = 0 * timing.n
    BY <2>1, SMTT(30) DEF Never
  <2> QED BY <2>2 DEF OnGrid
<1>8. OnGrid(timing, next_at)'
  BY <1>1, <1>7 DEF OnGrid
<1>9. Counted'
  BY <1>1 DEF Inv, Counted, Consumed
<1>10. Ordered' /\ Single'
  BY <1>1 DEF Inv, Ordered, Single, Consumed, Engaged
<1> QED BY <1>1, <1>4, <1>5, <1>6, <1>8, <1>9, <1>10 DEF Inv

\* The slot is consumed: skipped, made into a reminder, or admitted when no input
\* is unfinished.
LEMMA ConsumeInv ==
    ASSUME Inv, NEW w \in Sweepers, holder = w, NEW s, NEW work, Record(s, work), Consume(w),
           UNCHANGED <<now, fixed, mode, allowed, faults>>,
           \/ s = "admitted" /\ work = "queued" /\ ~Busy
           \/ s = "notified" /\ work \in NoticeStates
           \/ s = "skipped" /\ work = None,
           s \in {"admitted", "notified"} => now < expires_at /\ InGrace(timing, tick.slot, now)
    PROVE  Inv'
<1> DEFINE o == NewRow(s, work)
           over == tick.next = Never \/ tick.next >= expires_at \/ LastOne
<1>0. PICK n : n = Len(occurrences) + 1
  OBVIOUS
<1>1. occurrences' = Append(occurrences, o)
  BY RecordAppends
<1>2. /\ state' = (IF over THEN "finished" ELSE "active") /\ next_at' = (IF over THEN Never ELSE tick.next)
      /\ occurrence_count' = occurrence_count + 1 /\ Leave(w)
      /\ UNCHANGED <<revision, expires_at, timing, max_occurrences>>
  BY DEF Consume
<1>3. /\ state = "active" /\ next_at <= tick.slot /\ tick.slot <= now /\ OnGrid(timing, tick.next)
      /\ tick.next = Never \/ tick.slot < tick.next
      /\ next_at # Never /\ occurrence_count < max_occurrences
  BY NoSweeper DEF Inv, Holding, Counted
<1>4. /\ now \in Nat /\ next_at \in Nat /\ tick.slot \in Nat /\ tick.next \in Nat /\ revision \in Nat
      /\ max_occurrences \in Nat /\ occurrence_count \in Nat /\ expires_at \in Nat
  BY Basics DEF Inv
<1>5. RecordedSlot = tick.slot
  BY <1>3, <1>4, SMTT(30) DEF RecordedSlot, NoTick, Never
<1>6. next_at' \in Nat /\ (next_at' = Never \/ (tick.slot < next_at' /\ next_at <= next_at'))
  BY <1>2, <1>3, <1>4, SMTT(30) DEF Never
<1>7. o \in Occurrence /\ RowOK(o, now, revision, timing, next_at')
  <2>1. s \in OccurrenceStates /\ (s \in {"skipped", "blocked"} => work = None)
    BY DEF OccurrenceStates
  <2>2. "queued" \in InputStates
    BY DEF InputStates
  <2>3. RecordedSlot \in Nat /\ RecordedSlot <= now /\ (s # "blocked" /\ next_at' # Never => RecordedSlot < next_at')
    BY <1>3, <1>4, <1>5, <1>6
  <2>4. s \in {"admitted", "notified"} => now < expires_at /\ InGrace(timing, RecordedSlot, now)
    BY <1>5
  <2> QED BY <1>6, <2>1, <2>2, <2>3, <2>4, NewRowOK
<1>8. o.state = s /\ o.work = work /\ o.slot = tick.slot /\ s # "blocked"
  BY <1>5 DEF NewRow
<1> HIDE DEF o, over
<1>9. Cardinality(Consumed') = Cardinality(Consumed) + 1 /\ Ordered'
  BY <1>1, <1>3, <1>7, <1>8, ConsumedAdded
<1>10. /\ occurrences' \in Seq(Occurrence) /\ n \in Nat /\ DOMAIN occurrences = 1..(n - 1) /\ DOMAIN occurrences' = 1..n
       /\ occurrences'[n] = o /\ \A k \in DOMAIN occurrences : occurrences'[k] = occurrences[k]
  BY <1>0, <1>1, <1>7, RowAdded, SMTT(30)
<1>11. \A k \in 1..n : k = n \/ k \in DOMAIN occurrences
  BY <1>10, SMTT(30)
<1>12. \A k \in DOMAIN occurrences : RowOK(occurrences[k], now, revision, timing, next_at')
  BY <1>3, <1>4, <1>6, RowAhead DEF Inv, Rows
<1>13. Rows'
  BY <1>2, <1>7, <1>10, <1>11, <1>12 DEF Rows
<1>14. \A k \in DOMAIN occurrences : Engaged(k)' <=> Engaged(k)
  BY <1>10 DEF Engaged
<1>15. Engaged(n)' => \A k \in DOMAIN occurrences : ~Engaged(k)
  <2>1. Engaged(n)' => work \in InputStates
    BY <1>8, <1>10 DEF Engaged
  <2>2. work \in InputStates => s = "admitted"
    BY DEF InputStates, NoticeStates, Terminal, None
  <2>3. s = "admitted" => ~Busy
    OBVIOUS
  <2> QED BY <2>1, <2>2, <2>3 DEF Busy, Engaged
<1>16. Single'
  <2> SUFFICES ASSUME NEW i \in DOMAIN occurrences', NEW k \in DOMAIN occurrences', Engaged(i)', Engaged(k)' PROVE i = k
    BY DEF Single
  <2>1. (i = n \/ i \in DOMAIN occurrences) /\ (k = n \/ k \in DOMAIN occurrences)
    BY <1>10, <1>11
  <2> QED BY <2>1, <1>14, <1>15 DEF Inv, Single
<1>17. Holding' /\ holder' = None /\ tick' \in TickType
       /\ pc' \in [Sweepers -> {"idle", "listed", "checked", "admitting"}]
  BY <1>2, LeaveHolding
<1>18. Counted'
  <2>1. occurrence_count' = Cardinality(Consumed')
    BY <1>2, <1>9 DEF Inv, Counted
  <2>2. state' = "active" => ~over
    BY <1>2
  <2>3. ~over => occurrence_count + 1 < max_occurrences /\ tick.next # Never
    BY <1>4, SMTT(30) DEF over, LastOne
  <2>4. state' \in {"active", "finished"}
    BY <1>2
  <2> QED BY <1>2, <2>1, <2>2, <2>3, <2>4 DEF Counted
<1>19. OnGrid(timing, next_at)'
  <2>1. timing.n \in Nat
    BY TimingTyped, Basics DEF Inv
  <2>2. Never = 0 * timing.n
    BY <2>1, SMTT(30) DEF Never
  <2>3. OnGrid(timing, next_at')
    BY <1>2, <1>3, <2>2 DEF OnGrid
  <2> QED BY <1>2, <2>3 DEF OnGrid
<1>20. JobTyped'
  <2>1. occurrence_count' \in 0..max_occurrences'
    BY <1>2, <1>3, <1>4, SMTT(30)
  <2>2. state' \in {"active", "paused", "blocked", "cancelled", "finished"}
    BY <1>2
  <2> QED BY <1>2, <1>6, <1>17, <2>1, <2>2 DEF Inv, JobTyped
<1> QED BY <1>9, <1>10, <1>13, <1>16, <1>17, <1>18, <1>19, <1>20 DEF Inv

-----------------------------------------------------------------------------
LEMMA InitInv == Init => Inv
<1> SUFFICES ASSUME Init PROVE Inv
  OBVIOUS
<1>1. /\ timing \in Timings /\ next_at = NextAfter(timing, 1) /\ next_at # Never /\ occurrences = << >>
      /\ holder = None /\ tick = NoTick /\ pc = [w \in Sweepers |-> "idle"] /\ occurrence_count = 0
  BY DEF Init
<1>2. next_at \in Nat /\ OnGrid(timing, next_at)
  BY <1>1, NextAfterBounds
<1>3. maximum \in 1..Maximum /\ max_occurrences \in 1..maximum
  BY SchedulesAssumption, SMTT(30) DEF Init
<1>4. JobTyped
  <2>1. NoTick \in TickType
    BY DEF NoTick, TickType, Never
  <2>2. 1 \in Times /\ 1 \in 1..MaxRevision /\ Expiry \in 1..Expiry /\ 0 \in 0..MaxFaults /\ 0 \in 0..max_occurrences
    BY <1>3, SchedulesAssumption, SMTT(30) DEF Times
  <2> QED BY <1>1, <1>2, <1>3, <2>1, <2>2 DEF Init, JobTyped
<1>5. Consumed = {} /\ occurrences \in Seq(Occurrence) /\ Rows /\ Ordered /\ Single
  BY <1>1, SMTT(30) DEF Consumed, Rows, Ordered, Single
<1>6. Counted
  <2>1. Cardinality(Consumed) = 0
    BY <1>5, FS_EmptySet
  <2>2. 0 < max_occurrences
    BY <1>3, SMTT(30)
  <2> QED BY <1>1, <2>1, <2>2 DEF Counted
<1>7. Holding
  BY <1>1, NoSweeper DEF Holding
<1> QED BY <1>2, <1>4, <1>5, <1>6, <1>7 DEF Inv

\* A control retires what is unfinished and gives the job a new revision.
LEMMA ControlInv ==
    ASSUME Inv, Change, mode' \in Modes, timing' \in Timings, max_occurrences' \in 1..maximum, expires_at' \in 1..Expiry,
           occurrence_count \in 0..max_occurrences',
           next_at' \in Nat, OnGrid(timing', next_at'), next_at' = Never \/ next_at' = next_at \/ now < next_at',
           state' \in {"active", "paused", "blocked", "cancelled", "finished"},
           state' \in {"active", "paused", "blocked"} => occurrence_count < max_occurrences' /\ next_at' # Never
    PROVE  Inv'
<1>1. /\ holder = None /\ revision < MaxRevision /\ revision' = revision + 1 /\ occurrences' = Invalidated
      /\ now' = now /\ fixed' = fixed /\ occurrence_count' = occurrence_count /\ allowed' = allowed
      /\ holder' = holder /\ pc' = pc /\ tick' = tick /\ faults' = faults
  BY DEF Change, sweeping
<1>2. now \in Nat /\ revision \in Nat /\ next_at \in Nat /\ revision + 1 \in 1..MaxRevision
  <2>1. now \in Nat /\ revision \in Nat \ {0} /\ next_at \in Nat /\ MaxRevision \in Nat
    BY Basics, SchedulesAssumption DEF Inv
  <2> QED BY <1>1, <2>1, SMTT(30)
<1>3. occurrences \in Seq(Occurrence) /\ DOMAIN occurrences = 1..Len(occurrences) /\ Len(occurrences) \in Nat
  BY SMTT(30) DEF Inv
<1>4. ASSUME NEW i \in DOMAIN occurrences
      PROVE  /\ RowOK([occurrences[i] EXCEPT !.work = Retired(@)], now, revision + 1, timing', next_at')
             /\ RowOK(occurrences[i], now, revision, timing, next_at)
  <2>1. RowOK(occurrences[i], now, revision, timing, next_at)
    BY DEF Inv, Rows
  <2> QED BY <1>2, <2>1, RowRetired
<1>5. /\ DOMAIN occurrences' = DOMAIN occurrences
      /\ \A i \in DOMAIN occurrences : occurrences'[i] = [occurrences[i] EXCEPT !.work = Retired(@)]
  BY <1>1 DEF Invalidated
<1>6. occurrences' \in Seq(Occurrence)
  <2>1. \A i \in DOMAIN occurrences : [occurrences[i] EXCEPT !.work = Retired(@)] \in Occurrence
    BY <1>4 DEF RowOK
  <2>2. occurrences' \in [1..Len(occurrences) -> Occurrence]
    BY <1>1, <1>3, <2>1 DEF Invalidated
  <2> QED BY <1>3, <2>2, SMTT(30)
<1>7. Rows'
  BY <1>1, <1>4, <1>5 DEF Rows
<1>8. ASSUME NEW i \in DOMAIN occurrences
      PROVE  /\ occurrences'[i].state = occurrences[i].state /\ occurrences'[i].slot = occurrences[i].slot
             /\ ~Engaged(i)'
  <2>1. occurrences[i] \in Occurrence
    BY <1>4 DEF RowOK
  <2>2. /\ occurrences'[i].state = occurrences[i].state /\ occurrences'[i].slot = occurrences[i].slot
        /\ occurrences'[i].work = Retired(occurrences[i].work)
    BY <2>1, <1>5 DEF Occurrence
  <2>3. Retired(occurrences[i].work) \notin InputStates \ Terminal
    BY DEF Retired, InputStates, Terminal
  <2> QED BY <2>2, <2>3 DEF Engaged
<1>9. Consumed' = Consumed /\ \A i \in Consumed : i \in DOMAIN occurrences
  BY <1>5, <1>8 DEF Consumed
<1>10. Ordered'
  BY <1>8, <1>9 DEF Inv, Ordered
<1>11. Single'
  BY <1>5, <1>8 DEF Single
<1>12. Holding'
  BY <1>1, NoSweeper DEF Inv, Holding
<1>13. JobTyped' /\ OnGrid(timing, next_at)'
  BY <1>1, <1>2 DEF Inv, JobTyped, OnGrid
<1>14. Counted'
  BY <1>1, <1>9 DEF Inv, Counted
<1> QED BY <1>6, <1>7, <1>10, <1>11, <1>12, <1>13, <1>14 DEF Inv

LEMMA CancelInv ==
    ASSUME Inv, Cancel
    PROVE  Inv'
<1>1. Change /\ state' = "cancelled" /\ next_at' = Never /\ UNCHANGED <<mode, expires_at, timing, max_occurrences>>
  BY DEF Cancel
<1>2. OnGrid(timing, Never)
  <2>1. timing.n \in Nat
    BY TimingTyped, Basics DEF Inv
  <2>2. Never = 0 * timing.n
    BY <2>1, SMTT(30) DEF Never
  <2> QED BY <2>2 DEF OnGrid
<1>3. OnGrid(timing', next_at')
  BY <1>1, <1>2 DEF OnGrid
<1>4. next_at' \in Nat
  BY <1>1 DEF Never
<1>5. /\ mode' \in Modes /\ timing' \in Timings /\ max_occurrences' \in 1..maximum /\ expires_at' \in 1..Expiry
      /\ occurrence_count \in 0..max_occurrences'
  BY <1>1 DEF Inv, JobTyped
<1> QED BY <1>1, <1>3, <1>4, <1>5, ControlInv

LEMMA UpdateInv ==
    ASSUME Inv, Update
    PROVE  Inv'
<1>1. PICK t \in Timings, m \in 1..maximum, e \in {expires_at, expires_at - 1}, s \in {"active", "paused"} :
        /\ Enough(m) /\ e > now /\ Resumed(t) # Never
        /\ timing' = t /\ max_occurrences' = m /\ expires_at' = e /\ state' = s /\ next_at' = Resumed(t)
  BY DEF Update
<1>2. Change /\ mode' \in Modes /\ maximum \in Nat
  BY SchedulesAssumption, SMTT(30) DEF Update, Inv, JobTyped
<1>3. now \in Nat \ {0} /\ expires_at \in 1..Expiry /\ Expiry \in Nat /\ occurrence_count \in Nat /\ next_at \in Nat
  BY Basics, SchedulesAssumption DEF Inv, JobTyped
<1>4. expires_at' \in 1..Expiry
  BY <1>1, <1>3, SMTT(30)
<1>5. m \in Nat /\ occurrence_count < m
  BY <1>1, <1>2, SMTT(30) DEF Enough
<1>6. Resumed(t) \in Nat /\ OnGrid(t, Resumed(t)) /\ (Resumed(t) = next_at \/ now < Resumed(t))
  <2>1. CASE t = timing /\ next_at # Never
    BY <2>1, <1>3 DEF Resumed, Inv
  <2>2. CASE ~(t = timing /\ next_at # Never)
    BY <1>1, <1>3, <2>2, NextAfterBounds DEF Resumed
  <2> QED BY <2>1, <2>2
<1>7. OnGrid(timing', next_at')
  BY <1>1, <1>6 DEF OnGrid
<1>8. occurrence_count \in 0..m
  BY <1>3, <1>5, SMTT(30)
<1> QED BY <1>1, <1>2, <1>4, <1>5, <1>6, <1>7, <1>8, ControlInv

LEMMA ListInv ==
    ASSUME Inv, NEW w \in Sweepers, List(w)
    PROVE  Inv'
<1>1. /\ pc[w] = "idle" /\ pc' = [pc EXCEPT ![w] = "listed"]
      /\ UNCHANGED <<now, fixed, mode, job, occurrences, allowed, holder, tick, faults>>
  BY DEF List
<1>2. pc \in [Sweepers -> {"idle", "listed", "checked", "admitting"}]
  BY DEF Inv, JobTyped
<1>3. pc' \in [Sweepers -> {"idle", "listed", "checked", "admitting"}]
      /\ \A v \in Sweepers : pc'[v] = IF v = w THEN "listed" ELSE pc[v]
  BY <1>1, <1>2
<1>4. JobTyped' /\ OnGrid(timing, next_at)' /\ Counted' /\ occurrences' \in Seq(Occurrence) /\ Rows' /\ Ordered' /\ Single'
  BY <1>1, <1>3 DEF Inv, job, JobTyped, OnGrid, Counted, Rows, Ordered, Single, Engaged, Consumed
<1>5. Busy' <=> Busy
  BY <1>1 DEF Busy
<1>6. Holding'
  BY <1>1, <1>3, <1>5 DEF Inv, Holding, OnGrid, job
<1> QED BY <1>4, <1>6 DEF Inv

\* A transaction that ends without a trace.
LEMMA LeaveInv ==
    ASSUME Inv, NEW w \in Sweepers, holder \in {None, w}, Leave(w),
           UNCHANGED <<now, fixed, mode, job, occurrences, allowed>>, faults' \in 0..MaxFaults
    PROVE  Inv'
<1>1. Holding' /\ holder' = None /\ tick' \in TickType
      /\ pc' \in [Sweepers -> {"idle", "listed", "checked", "admitting"}]
  BY LeaveHolding
<1>2. JobTyped'
  BY <1>1 DEF Inv, job, JobTyped
<1>3. OnGrid(timing, next_at)' /\ Counted' /\ occurrences' \in Seq(Occurrence) /\ Rows' /\ Ordered' /\ Single'
  BY DEF Inv, job, OnGrid, Counted, Rows, Ordered, Single, Engaged, Consumed
<1> QED BY <1>1, <1>2, <1>3 DEF Inv

LEMMA LockInv ==
    ASSUME Inv, NEW w \in Sweepers, Lock(w)
    PROVE  Inv'
<1>1. pc[w] = "listed" /\ holder = None /\ UNCHANGED <<now, fixed, mode, allowed, faults>>
  BY DEF Lock
<1>2. faults' \in 0..MaxFaults
  BY <1>1 DEF Inv, JobTyped
<1>3. CASE Leave(w) /\ UNCHANGED <<job, occurrences>>
  BY <1>1, <1>2, <1>3, LeaveInv
<1>4. CASE FinishExpired(w)
  BY <1>1, <1>4, FinishExpiredInv
<1>5. CASE state = "active" /\ next_at # Never /\ next_at <= now /\ Block(w)
  BY <1>1, <1>2, <1>5, BlockInv
<1>6. CASE /\ state = "active" /\ next_at # Never /\ next_at <= now
           /\ holder' = w /\ pc' = [pc EXCEPT ![w] = "checked"]
           /\ tick' = Due(timing, next_at, now)
           /\ UNCHANGED <<job, occurrences>>
  <2>1. /\ now \in Nat /\ next_at \in Nat /\ timing \in Timings /\ OnGrid(timing, next_at)
    BY Basics DEF Inv
  <2>2. /\ tick' \in TickType /\ next_at <= tick'.slot /\ tick'.slot <= now
        /\ tick'.next = Never \/ tick'.slot < tick'.next
        /\ OnGrid(timing, tick'.next)
    BY <1>6, <2>1, DueBounds
  <2>3. pc \in [Sweepers -> {"idle", "listed", "checked", "admitting"}]
    BY DEF Inv, JobTyped
  <2>4. /\ pc' \in [Sweepers -> {"idle", "listed", "checked", "admitting"}]
        /\ \A v \in Sweepers : pc'[v] = IF v = w THEN "checked" ELSE pc[v]
    BY <1>6, <2>3
  <2>5. \A v \in Sweepers : pc[v] \notin {"checked", "admitting"}
    BY <1>1, NoSweeper DEF Inv, Holding
  <2>6. /\ state' = state /\ revision' = revision /\ next_at' = next_at /\ expires_at' = expires_at
        /\ timing' = timing /\ max_occurrences' = max_occurrences /\ occurrence_count' = occurrence_count
        /\ occurrences' = occurrences /\ now' = now /\ fixed' = fixed /\ mode' = mode /\ allowed' = allowed
    BY <1>1, <1>6 DEF job
  <2>7. Holding'
    <3>1. \A v \in Sweepers : pc'[v] \in {"checked", "admitting"} <=> holder' = v
      BY <1>6, <2>4, <2>5
    <3>2. holder' # None /\ \A v \in Sweepers : pc'[v] # "admitting"
      BY <1>6, <2>4, <2>5, NoSweeper
    <3>3. OnGrid(timing', tick'.next)
      BY <2>2, <2>6
    <3> QED BY <1>6, <2>2, <2>6, <3>1, <3>2, <3>3 DEF Holding
  <2>8. JobTyped'
    BY <1>2, <1>6, <2>2, <2>4, <2>6 DEF Inv, JobTyped
  <2>9. OnGrid(timing, next_at)' /\ Counted' /\ occurrences' \in Seq(Occurrence) /\ Rows' /\ Ordered' /\ Single'
    BY <2>6 DEF Inv, OnGrid, Counted, Rows, Ordered, Single, Engaged, Consumed
  <2> QED BY <2>7, <2>8, <2>9 DEF Inv
<1> QED BY <1>3, <1>4, <1>5, <1>6 DEF Lock

\* Who is past the first checks holds the job row, and the job is active.
LEMMA HolderActive ==
    ASSUME Inv, NEW w \in Sweepers, pc[w] \in {"checked", "admitting"}
    PROVE  holder = w /\ state = "active" /\ next_at # Never
BY NoSweeper DEF Inv, Holding, Counted

LEMMA RecheckInv ==
    ASSUME Inv, NEW w \in Sweepers, Recheck(w)
    PROVE  Inv'
<1>1. pc[w] = "checked" /\ UNCHANGED <<now, fixed, mode, allowed, faults>>
  BY DEF Recheck
<1>2. holder = w /\ state = "active"
  BY <1>1, HolderActive
<1>3. now \in Nat /\ expires_at \in Nat
  BY Basics DEF Inv
<1>4. CASE Expired /\ FinishExpired(w)
  BY <1>1, <1>2, <1>4, FinishExpiredInv
<1>5. CASE Record("skipped", None) /\ Consume(w)
  BY <1>1, <1>2, <1>5, ConsumeInv
<1>6. CASE /\ ~Expired /\ InGrace(timing, tick.slot, now)
           /\ Record("notified", IF channel = "telegram" THEN "pending" ELSE "result_ready") /\ Consume(w)
  <2>1. now < expires_at
    BY <1>3, <1>6, SMTT(30) DEF Expired
  <2>2. (IF channel = "telegram" THEN "pending" ELSE "result_ready") \in NoticeStates
    BY DEF NoticeStates
  <2> QED BY <1>1, <1>2, <1>6, <2>1, <2>2, ConsumeInv
<1>7. CASE /\ ~Busy /\ pc' = [pc EXCEPT ![w] = "admitting"]
           /\ tick' = [tick EXCEPT !.day = now \div Day]
           /\ UNCHANGED <<job, holder, occurrences>>
  <2>1. now \div Day \in Nat
    BY <1>3, SchedulesAssumption, Division
  <2>2. tick \in TickType /\ pc \in [Sweepers -> {"idle", "listed", "checked", "admitting"}]
    BY DEF Inv, JobTyped
  <2>3. tick' \in TickType /\ tick'.slot = tick.slot /\ tick'.next = tick.next
    BY <1>7, <2>1, <2>2 DEF TickType
  <2>4. /\ pc' \in [Sweepers -> {"idle", "listed", "checked", "admitting"}]
        /\ \A v \in Sweepers : pc'[v] = IF v = w THEN "admitting" ELSE pc[v]
    BY <1>7, <2>2
  <2>5. /\ state' = state /\ revision' = revision /\ next_at' = next_at /\ expires_at' = expires_at
        /\ timing' = timing /\ max_occurrences' = max_occurrences /\ occurrence_count' = occurrence_count
        /\ occurrences' = occurrences /\ holder' = holder /\ now' = now /\ fixed' = fixed /\ mode' = mode /\ allowed' = allowed
        /\ faults' = faults
    BY <1>1, <1>7 DEF job
  <2>6. ~Busy'
    BY <1>7, <2>5 DEF Busy
  <2>7. Holding'
    <3>1. \A v \in Sweepers : pc'[v] \in {"checked", "admitting"} <=> holder' = v
      BY <1>1, <1>2, <2>4, <2>5 DEF Inv, Holding
    <3>2. OnGrid(timing', tick'.next)
      BY <1>2, <2>3, <2>5, NoSweeper DEF Inv, Holding
    <3> QED BY <1>2, <2>3, <2>5, <2>6, <3>1, <3>2, NoSweeper DEF Inv, Holding
  <2>8. JobTyped'
    BY <2>3, <2>4, <2>5 DEF Inv, JobTyped
  <2>9. OnGrid(timing, next_at)' /\ Counted' /\ occurrences' \in Seq(Occurrence) /\ Rows' /\ Ordered' /\ Single'
    BY <2>5 DEF Inv, OnGrid, Counted, Rows, Ordered, Single, Engaged, Consumed
  <2> QED BY <2>7, <2>8, <2>9 DEF Inv
<1> QED BY <1>4, <1>5, <1>6, <1>7 DEF Recheck

LEMMA RefuseInv ==
    ASSUME Inv, NEW w \in Sweepers, Refuse(w)
    PROVE  Inv'
<1>1. /\ faults < MaxFaults /\ faults' = faults + 1 /\ pc[w] \in {"checked", "admitting"} /\ Block(w)
      /\ UNCHANGED <<now, fixed, mode, allowed>>
  BY DEF Refuse
<1>2. faults' \in 0..MaxFaults
  BY <1>1, SchedulesAssumption, SMTT(30) DEF Inv, JobTyped
<1> QED BY <1>1, <1>2, HolderActive, BlockInv

LEMMA AdmitInv ==
    ASSUME Inv, NEW w \in Sweepers, Admit(w)
    PROVE  Inv'
<1>1. pc[w] = "admitting" /\ UNCHANGED <<now, fixed, mode, allowed, faults>>
  BY DEF Admit
<1>2. holder = w /\ state = "active" /\ ~Busy
  BY <1>1, HolderActive DEF Inv, Holding
<1>3. faults' \in 0..MaxFaults
  BY <1>1 DEF Inv, JobTyped
<1>4. CASE Leave(w) /\ UNCHANGED <<job, occurrences>>
  BY <1>1, <1>2, <1>3, <1>4, LeaveInv
<1>5. CASE Block(w)
  BY <1>1, <1>2, <1>3, <1>5, BlockInv
<1>6. CASE Record("skipped", None) /\ Consume(w)
  BY <1>1, <1>2, <1>6, ConsumeInv
<1>7. CASE ~Expired /\ ~Late /\ Record("admitted", "queued") /\ Consume(w)
  <2>1. now < expires_at
    BY <1>7, Basics, SMTT(30) DEF Inv, Expired
  <2>2. InGrace(timing, tick.slot, now)
    BY <1>7 DEF Late
  <2> QED BY <1>1, <1>2, <1>7, <2>1, <2>2, ConsumeInv
<1> QED BY <1>4, <1>5, <1>6, <1>7 DEF Admit

LEMMA RollbackInv ==
    ASSUME Inv, NEW w \in Sweepers, Rollback(w)
    PROVE  Inv'
<1>1. /\ faults < MaxFaults /\ faults' = faults + 1 /\ pc' = [pc EXCEPT ![w] = "idle"]
      /\ UNCHANGED <<now, fixed, mode, job, occurrences, allowed>>
  BY DEF Rollback
<1>2. faults' \in 0..MaxFaults
  BY <1>1, SchedulesAssumption, SMTT(30) DEF Inv, JobTyped
<1>3. CASE holder = w
  BY <1>1, <1>2, <1>3, LeaveInv DEF Rollback, Leave
<1>4. CASE holder # w
  <2>1. holder' = holder /\ tick' = tick
    BY <1>4 DEF Rollback
  <2>2. pc \in [Sweepers -> {"idle", "listed", "checked", "admitting"}]
    BY DEF Inv, JobTyped
  <2>3. /\ pc' \in [Sweepers -> {"idle", "listed", "checked", "admitting"}]
        /\ \A v \in Sweepers : pc'[v] = IF v = w THEN "idle" ELSE pc[v]
    BY <1>1, <2>2
  <2>4. Busy' <=> Busy
    BY <1>1 DEF Busy
  <2>5. Holding'
    BY <1>1, <1>4, <2>1, <2>3, <2>4 DEF Inv, Holding, OnGrid, job
  <2>6. JobTyped'
    BY <1>1, <1>2, <2>1, <2>3 DEF Inv, JobTyped, job
  <2>7. OnGrid(timing, next_at)' /\ Counted' /\ occurrences' \in Seq(Occurrence) /\ Rows' /\ Ordered' /\ Single'
    BY <1>1 DEF Inv, job, OnGrid, Counted, Rows, Ordered, Single, Engaged, Consumed
  <2> QED BY <2>5, <2>6, <2>7 DEF Inv
<1> QED BY <1>3, <1>4

-----------------------------------------------------------------------------
(* What becomes of an occurrence, and the world around the job *)

LEMMA WorkInv ==
    ASSUME Inv, NEW i \in DOMAIN occurrences, NEW from, NEW to, Work(i, from, to), faults' \in 0..MaxFaults,
           \/ from \subseteq {"queued", "running"} /\ to \in InputStates
           \/ from \subseteq InputStates /\ to \in Terminal
           \/ from \subseteq {"pending", "sending", "cleared"} /\ to \in NoticeStates
    PROVE  Inv'
<1> DEFINE o == occurrences[i]
           p == [o EXCEPT !.work = to, !.arrived = o.arrived]
<1>1. RowOK(o, now, revision, timing, next_at) /\ o \in Occurrence /\ occurrences \in Seq(Occurrence)
  BY DEF Inv, Rows, RowOK
<1>2. o.work \in from /\ occurrences' = [occurrences EXCEPT ![i].work = to]
      /\ UNCHANGED <<now, fixed, mode, job, allowed, sweeping>>
  BY DEF Work
<1>3. o.arrived \in 0..1 /\ (o.work \in {"pending", "sending", "cleared"} => o.arrived = 0)
  BY <1>1, SMTT(30) DEF RowOK, Occurrence
<1>4. \/ o.work \in InputStates /\ to \in InputStates /\ (to \in Terminal \/ o.work \notin Terminal)
      \/ o.work \in NoticeStates /\ to \in NoticeStates /\ o.arrived = 0
  BY <1>2, <1>3 DEF InputStates, NoticeStates, Terminal
<1>5. RowOK(p, now, revision, timing, next_at)
  BY <1>1, <1>3, <1>4, RowWorked
<1>6. p.state = o.state /\ p.slot = o.slot /\ p.work = to
  BY <1>1 DEF Occurrence
<1>7. occurrences' = [occurrences EXCEPT ![i] = p]
  <2>1. p = [o EXCEPT !.work = to]
    BY <1>1 DEF Occurrence
  <2> QED BY <1>1, <1>2, <2>1
<1>8. to \in InputStates \ (Terminal \cup IF mode = "monitor" THEN {"outage"} ELSE {}) => Engaged(i)
  BY <1>2 DEF Engaged, InputStates, NoticeStates, Terminal
<1> HIDE DEF p
<1> QED BY <1>2, <1>5, <1>6, <1>7, <1>8, RowChanged

LEMMA SendInv ==
    ASSUME Inv, NEW i \in DOMAIN occurrences, Send(i)
    PROVE  Inv'
<1> DEFINE o == occurrences[i]
<1>1. RowOK(o, now, revision, timing, next_at) /\ o \in Occurrence /\ occurrences \in Seq(Occurrence)
  BY DEF Inv, Rows, RowOK
<1>2. PICK r : /\ r.arrived \in 0..1 /\ r.work \in {"sent", "delivery_unknown", "pending", "undeliverable"}
               /\ r.work = "pending" => r.arrived = 0
               /\ occurrences' = [occurrences EXCEPT ![i].work = r.work, ![i].arrived = @ + r.arrived]
  <2>1. PICK r \in {[arrived |-> 1, work |-> "sent"], [arrived |-> 1, work |-> Abandoned],
                    [arrived |-> 0, work |-> Abandoned], [arrived |-> 0, work |-> "pending"],
                    [arrived |-> 0, work |-> "undeliverable"]} :
               occurrences' = [occurrences EXCEPT ![i].work = r.work, ![i].arrived = @ + r.arrived]
    BY DEF Send
  <2>2. /\ r.arrived \in 0..1 /\ r.work \in {"sent", "delivery_unknown", "pending", "undeliverable"}
        /\ r.work = "pending" => r.arrived = 0
    BY SMTT(30) DEF Abandoned
  <2> QED BY <2>1, <2>2
<1>3. o.work = "cleared" /\ UNCHANGED <<now, fixed, mode, job, allowed, sweeping, faults>>
  BY DEF Send
<1>4. o.arrived = 0 /\ "cleared" \in NoticeStates
  BY <1>1, <1>3 DEF RowOK, NoticeStates
<1> DEFINE p == [o EXCEPT !.work = r.work, !.arrived = r.arrived]
<1>5. RowOK(p, now, revision, timing, next_at)
  <2>1. r.work \in NoticeStates /\ o.work \in NoticeStates
        /\ (r.work \in {"pending", "sending", "cleared"} => r.arrived = 0)
    BY <1>2, <1>3, <1>4 DEF NoticeStates
  <2> QED BY <1>1, <1>2, <2>1, RowWorked
<1>6. p.state = o.state /\ p.slot = o.slot /\ p.work = r.work
  BY <1>1 DEF Occurrence
<1>7. occurrences' = [occurrences EXCEPT ![i] = p]
  <2>1. o.arrived + r.arrived = r.arrived
    BY <1>2, <1>4, SMTT(30)
  <2> QED BY <1>1, <1>2, <2>1 DEF Occurrence
<1>8. p.work \notin InputStates
  BY <1>2, <1>6 DEF InputStates, NoticeStates, Terminal
<1>9. faults' \in 0..MaxFaults
  BY <1>3 DEF Inv, JobTyped
<1> HIDE DEF p
<1> QED BY <1>3, <1>5, <1>6, <1>7, <1>8, <1>9, RowChanged

\* Whatever becomes of an occurrence.
LEMMA OccurrenceInv ==
    ASSUME Inv, NEW i \in DOMAIN occurrences,
           Progress(i) \/ Outage(i) \/ ExpireInput(i) \/ Resolve(i) \/ ClaimExpires(i)
    PROVE  Inv'
<1>1. faults \in 0..MaxFaults /\ MaxFaults \in Nat
  BY SchedulesAssumption DEF Inv, JobTyped
<1>2. CASE Claim(i)
  BY <1>1, <1>2, WorkInv DEF Claim, InputStates
<1>3. CASE Finish(i)
  <2>1. "completed" \in InputStates /\ "failed" \in InputStates /\ "blocked" \in InputStates
    BY DEF InputStates, Terminal
  <2>2. PICK s \in {"completed", "failed", "blocked"} : Work(i, {"running"}, s) /\ faults' = faults
    BY <1>3 DEF Finish
  <2> QED BY <1>1, <2>1, <2>2, WorkInv
<1>4. CASE Outage(i)
  <2>1. faults' \in 0..MaxFaults
    BY <1>1, <1>4, SMTT(30) DEF Outage
  <2> QED BY <1>4, <2>1, WorkInv DEF Outage, InputStates
<1>5. CASE ExpireInput(i)
  BY <1>1, <1>5, WorkInv DEF ExpireInput, InputStates, Terminal
<1>6. CASE Resolve(i)
  BY <1>1, <1>6, WorkInv DEF Resolve, InputStates, Terminal
<1>7. CASE ClaimNotice(i)
  <2>1. PICK s \in {"undeliverable", "sending"} : Work(i, {"pending"}, s) /\ faults' = faults
    BY <1>7 DEF ClaimNotice
  <2> QED BY <1>1, <2>1, WorkInv DEF NoticeStates
<1>8. CASE AuthorizeSend(i)
  BY <1>1, <1>8, WorkInv DEF AuthorizeSend, NoticeStates
<1>9. CASE Send(i)
  BY <1>9, SendInv
<1>10. CASE ClaimExpires(i)
  BY <1>1, <1>10, WorkInv DEF ClaimExpires, Abandoned, NoticeStates
<1> QED BY <1>2, <1>3, <1>4, <1>5, <1>6, <1>7, <1>8, <1>9, <1>10 DEF Progress

LEMMA ClockInv ==
    ASSUME Inv, Clock
    PROVE  Inv'
<1>1. now < Horizon /\ now' = now + 1 /\ UNCHANGED <<fixed, mode, job, occurrences, allowed, sweeping, faults>>
  BY DEF Clock
<1>2. now \in Nat /\ now' \in Nat /\ now <= now' /\ now' \in Times /\ tick.slot \in Nat
  BY <1>1, Basics, SchedulesAssumption, SMTT(30) DEF Inv, JobTyped, Times
<1>3. \A i \in DOMAIN occurrences : RowOK(occurrences[i], now', revision, timing, next_at)
  BY <1>2, RowLater DEF Inv, Rows
<1>4. Rows'
  BY <1>1, <1>3 DEF Rows, job
<1>5. JobTyped' /\ OnGrid(timing, next_at)' /\ Counted' /\ occurrences' \in Seq(Occurrence) /\ Ordered' /\ Single'
  BY <1>1, <1>2 DEF Inv, job, sweeping, JobTyped, OnGrid, Counted, Ordered, Single, Engaged, Consumed
<1>6. holder # None => tick.slot <= now'
  BY <1>1, <1>2, SMTT(30) DEF Inv, Holding
<1>7. (Busy' <=> Busy) /\ (OnGrid(timing, tick.next)' <=> OnGrid(timing, tick.next))
  BY <1>1 DEF Busy, OnGrid, job, sweeping
<1>8. Holding'
  BY <1>1, <1>6, <1>7 DEF Inv, Holding, job, sweeping
<1> QED BY <1>4, <1>5, <1>8 DEF Inv

LEMMA SourceInv ==
    ASSUME Inv, SourceChanges
    PROVE  Inv'
<1>1. /\ faults < MaxFaults /\ faults' = faults + 1 /\ allowed' = ~allowed
      /\ UNCHANGED <<now, fixed, mode, job, occurrences, sweeping>>
  BY DEF SourceChanges
<1>2. faults' \in 0..MaxFaults
  BY <1>1, SchedulesAssumption, SMTT(30) DEF Inv, JobTyped
<1>3. allowed' \in BOOLEAN
  BY <1>1
<1>4. JobTyped'
  BY <1>1, <1>2, <1>3 DEF Inv, job, sweeping, JobTyped
<1>5. OnGrid(timing, next_at)' /\ Counted' /\ occurrences' \in Seq(Occurrence) /\ Rows' /\ Ordered' /\ Single'
  BY <1>1 DEF Inv, job, OnGrid, Counted, Rows, Ordered, Single, Engaged, Consumed
<1>6. Holding'
  BY <1>1 DEF Inv, Holding, OnGrid, Busy, job, sweeping
<1> QED BY <1>4, <1>5, <1>6 DEF Inv

LEMMA NextInv == Inv /\ [Next]_vars => Inv'
<1> SUFFICES ASSUME Inv, [Next]_vars PROVE Inv'
  OBVIOUS
<1>1. CASE UNCHANGED vars
  <2>1. UNCHANGED <<now, fixed, mode, job, occurrences, allowed, sweeping, faults>>
    BY <1>1 DEF vars
  <2>2. JobTyped' /\ OnGrid(timing, next_at)' /\ Counted' /\ occurrences' \in Seq(Occurrence) /\ Rows' /\ Ordered' /\ Single'
    BY <2>1 DEF Inv, job, sweeping, JobTyped, OnGrid, Counted, Rows, Ordered, Single, Engaged, Consumed
  <2>3. Holding'
    BY <2>1 DEF Inv, Holding, OnGrid, Busy, job, sweeping
  <2> QED BY <2>2, <2>3 DEF Inv
<1>2. CASE Next
  <2>1. ASSUME NEW w \in Sweepers, Sweep(w) \/ Refuse(w) \/ Rollback(w) PROVE Inv'
    BY <2>1, ListInv, LockInv, RecheckInv, AdmitInv, RefuseInv, RollbackInv DEF Sweep
  <2> QED BY <1>2, <2>1, CancelInv, UpdateInv, SourceInv, ClockInv, OccurrenceInv DEF Next
<1> QED BY <1>1, <1>2

-----------------------------------------------------------------------------
\* The inductive invariant.
THEOREM Inductive == Spec => []Inv
BY InitInv, NextInv, PTL DEF Spec

\* No slot is served twice, by however many sweepers, across all revisions and
\* timings, and no reminder arrives twice (worker.go:134-149, store.go:348-356).
THEOREM EachSlotOnce == Spec => []SlotsServedOnce
<1>1. Inv => SlotsServedOnce
  <2> SUFFICES ASSUME Inv, NEW i \in DOMAIN occurrences
               PROVE  occurrences[i].slot <= occurrences[i].made /\ occurrences[i].arrived <= 1
    BY DEF Inv, SlotsServedOnce, Ordered
  <2> QED BY DEF Inv, Rows, RowOK
<1> QED BY <1>1, Inductive, PTL

\* The occurrences consumed under all revisions are counted and never exceed the
\* maximum in force, nor this the one the job was made with, and a job that may still
\* run has a slot and a use left (agent-schedules.md).
THEOREM UsageCounted == Spec => []UsageBounded
<1>1. Inv => UsageBounded
  <2> SUFFICES ASSUME Inv PROVE UsageBounded
    OBVIOUS
  <2>1. ASSUME NEW i \in DOMAIN occurrences
        PROVE  /\ occurrences[i].revision \in 1..revision
               /\ occurrences[i].state \in {"admitted", "notified", "skipped", "blocked"}
               /\ occurrences[i].work \in CASE occurrences[i].state = "admitted" -> InputStates
                                            [] occurrences[i].state = "notified" -> NoticeStates
                                            [] OTHER -> {None}
    <3>1. RowOK(occurrences[i], now, revision, timing, next_at)
      BY DEF Inv, Rows
    <3>2. occurrences[i].revision \in 1..revision /\ occurrences[i].state \in OccurrenceStates /\ WorkFits(occurrences[i])
      BY <3>1 DEF RowOK, Occurrence
    <3>3. CASE occurrences[i].state = "admitted"
      BY <3>2, <3>3 DEF WorkFits
    <3>4. CASE occurrences[i].state = "notified"
      BY <3>2, <3>4 DEF WorkFits
    <3>5. CASE occurrences[i].state \in {"skipped", "blocked"}
      BY <3>2, <3>5 DEF WorkFits
    <3> QED BY <3>2, <3>3, <3>4, <3>5 DEF OccurrenceStates
  <2>2. TypeOK
    BY <2>1 DEF Inv, JobTyped, TypeOK
  <2>3. occurrence_count <= max_occurrences /\ max_occurrences <= maximum
    <3>1. maximum \in 1..Maximum /\ Maximum \in Nat /\ max_occurrences \in 1..maximum
      BY SchedulesAssumption DEF Inv, JobTyped
    <3> QED BY <3>1, Basics, SMTT(30) DEF Inv, JobTyped
  <2> QED BY <2>2, <2>3 DEF Inv, Counted, UsageBounded
<1> QED BY <1>1, Inductive, PTL

\* At most one input of the schedule is unfinished, and none of an earlier revision.
THEOREM NoOverlappingInputs == Spec => []OneUnfinished
<1>1. Inv => OneUnfinished
  <2> SUFFICES ASSUME Inv PROVE OneUnfinished
    OBVIOUS
  <2> DEFINE open == {i \in DOMAIN occurrences : occurrences[i].work \in InputStates \ Terminal}
             counted == {i \in open : mode = "monitor" => occurrences[i].work # "outage"}
  <2>1. \A i \in open : occurrences[i].revision = revision
    BY DEF Inv, Rows, RowOK
  <2>2. \A i \in counted : i \in DOMAIN occurrences /\ Engaged(i)
    BY DEF Engaged
  <2>3. \A i, k \in counted : i = k
    BY <2>2 DEF Inv, Single
  <2> HIDE DEF counted
  <2>4. Cardinality(counted) <= 1
    <3>1. CASE counted = {}
      BY <3>1, FS_EmptySet, SMTT(30)
    <3>2. CASE counted # {}
      <4>1. PICK i : counted = {i}
        BY <2>3, <3>2, SMTT(30)
      <4>2. Cardinality({i}) = 1
        BY FS_Singleton
      <4> QED BY <4>1, <4>2, SMTT(30)
    <3> QED BY <3>1, <3>2
  <2> QED BY <2>1, <2>4 DEF OneUnfinished, counted
<1> QED BY <1>1, Inductive, PTL

\* However long the sweeper waited for authority and budget locks, an occurrence
\* is admitted before the job expires and within the grace of its slot.
THEOREM InTime == Spec => []AdmittedInTime
<1>1. Inv => AdmittedInTime
  BY DEF Inv, Rows, RowOK, AdmittedInTime
<1> QED BY <1>1, Inductive, PTL
=============================================================================
