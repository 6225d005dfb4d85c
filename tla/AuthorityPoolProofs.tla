------------------------- MODULE AuthorityPoolProofs -------------------------
(***************************************************************************)
(* For pools of any sizes and any number of processes, guards, fenced      *)
(* transactions, mutations and readers: no slot, mutex or connection       *)
(* leaks, and a guard's business write can always get its connection.      *)
(*                                                                         *)
(* The argument: what a process has given out is what its actors hold at   *)
(* the places where they stand.  A mutation that has a connection has all  *)
(* slots, so no guard of its process is past its slot; and guards alone,   *)
(* one connection each, never fill the pool, of which the slots are half.  *)
(*                                                                         *)
(* The second half is about SessionOwnership, the row those guards lock:   *)
(* fencing holds for any number of executors, runs, ticks and epochs.      *)
(***************************************************************************)
EXTENDS AuthorityPool, SessionOwnership, FiniteSetTheorems, TLAPS

GuardPlaces == {"slot", "conn", "shared", "write"}
MutatorPlaces == {"mutex", "all slots", "conn", "exclusive"}

\* Where each kind of actor may stand.
Kinds ==
    /\ \A a \in Guards : pc[a] \in {"idle"} \cup GuardPlaces
    /\ \A a \in Fenced : pc[a] \in {"idle", "slot", "conn", "shared"}
    /\ \A m \in Mutators : pc[m] \in {"idle"} \cup MutatorPlaces
    /\ \A a \in Readers : pc[a] \in {"idle", "conn"}

\* The slots a mutation has taken at each of its places.
TakenRight ==
    \A m \in Mutators :
        /\ pc[m] = "idle" => taken[m] = 0
        /\ pc[m] = "mutex" => taken[m] < SlotCap(Home[m])
        /\ pc[m] \in {"all slots", "conn", "exclusive"} => taken[m] = SlotCap(Home[m])

\* The mutex of a process belongs to the one mutation that is under way.
OneMutation ==
    /\ \A m \in Mutators : pc[m] # "idle" => mutations[Home[m]] = 1
    /\ \A m, n \in Mutators : pc[m] # "idle" /\ pc[n] # "idle" /\ Home[m] = Home[n] => m = n
    /\ \A p \in Processes : mutations[p] = 1 => \E m \in Mutators : Home[m] = p /\ pc[m] # "idle"

Guarding(p) == Cardinality(At(p, Guards \cup Fenced, GuardPlaces))
HeldConns(p) ==
    Cardinality(At(p, Actors, {"conn", "shared", "exclusive"})) + 2 * Cardinality(At(p, Guards, {"write"}))

SlotsHeld ==
    /\ \A p \in Processes : mutations[p] = 0 => slots[p] = Guarding(p)
    /\ \A m \in Mutators : pc[m] # "idle" => slots[Home[m]] = Guarding(Home[m]) + taken[m]

ConnsHeld == \A p \in Processes : conns[p] = HeldConns(p)

Inv == TypeOK /\ Kinds /\ TakenRight /\ OneMutation /\ SlotsHeld /\ ConnsHeld

-----------------------------------------------------------------------------
(* Counting *)

\* NewAuthority leaves at least one connection beyond the slots, also in a pool of two.
LEMMA CapBounds ==
    ASSUME NEW p \in Processes
    PROVE  SlotCap(p) \in Nat \ {0} /\ SlotCap(p) < MaxConns[p] /\ MaxConns[p] \in Nat
BY MaxConnsAssumption DEF SlotCap

LEMMA AtFinite ==
    ASSUME NEW p, NEW set \in SUBSET Actors, NEW places
    PROVE  /\ IsFiniteSet(At(p, set, places))
           /\ Cardinality(At(p, set, places)) \in Nat
           /\ Cardinality(At(p, set, places))' \in Nat
<1>1. At(p, set, places) \in SUBSET Actors
  BY DEF At
<1>2. {b \in set : Home[b] = p /\ pc'[b] \in places} \in SUBSET Actors
  OBVIOUS
<1>3. \A S \in SUBSET Actors : IsFiniteSet(S) /\ Cardinality(S) \in Nat
  BY ActorsAssumption, FS_Subset, FS_CardinalityType
<1>4. Cardinality(At(p, set, places))' = Cardinality({b \in set : Home[b] = p /\ pc'[b] \in places})
  BY DEF At
<1> QED BY <1>1, <1>2, <1>3, <1>4

Bit(x, places) == IF x \in places THEN 1 ELSE 0

\* An actor that moves changes the count of where it was and of where it goes.
LEMMA AtMoves ==
    ASSUME TypeOK, NEW a \in Actors, NEW x \in Place, Goto(a, x),
           NEW p \in Processes, NEW set \in SUBSET Actors, NEW places
    PROVE  Cardinality(At(p, set, places))' =
              IF p = Home[a] /\ a \in set
                THEN Cardinality(At(p, set, places)) + Bit(x, places) - Bit(pc[a], places)
                ELSE Cardinality(At(p, set, places))
<1> DEFINE S == At(p, set, places)
           T == {b \in set : Home[b] = p /\ pc'[b] \in places}
<1>1. Cardinality(At(p, set, places))' = Cardinality(T)
  BY DEF At
<1>2. IsFiniteSet(S) /\ Cardinality(S) \in Nat
  BY AtFinite
<1>3. pc'[a] = x /\ \A b \in Actors \ {a} : pc'[b] = pc[b]
  BY DEF TypeOK, Goto
<1>4. CASE p = Home[a] /\ a \in set /\ x \in places
  <2>1. T = S \cup {a}
    BY <1>3, <1>4 DEF At
  <2>2. a \in S <=> pc[a] \in places
    BY <1>4 DEF At
  <2>3. Cardinality(T) = IF a \in S THEN Cardinality(S) ELSE Cardinality(S) + 1
    <3> HIDE DEF S, T
    <3> QED BY <1>2, <2>1, FS_AddElement, SMTT(30)
  <2>4. Bit(x, places) = 1 /\ Bit(pc[a], places) = IF a \in S THEN 1 ELSE 0
    BY <1>4, <2>2 DEF Bit
  <2> QED BY <1>1, <1>2, <1>4, <2>3, <2>4
<1>5. CASE p = Home[a] /\ a \in set /\ x \notin places
  <2>1. T = S \ {a}
    BY <1>3, <1>5 DEF At
  <2>2. a \in S <=> pc[a] \in places
    BY <1>5 DEF At
  <2>3. Cardinality(T) = IF a \in S THEN Cardinality(S) - 1 ELSE Cardinality(S)
    <3> HIDE DEF S, T
    <3> QED BY <1>2, <2>1, FS_RemoveElement
  <2>4. Bit(x, places) = 0 /\ Bit(pc[a], places) = IF a \in S THEN 1 ELSE 0
    BY <1>5, <2>2 DEF Bit
  <2> QED BY <1>1, <1>2, <1>5, <2>3, <2>4
<1>6. CASE ~(p = Home[a] /\ a \in set)
  <2>1. T = S
    BY <1>3, <1>6 DEF At
  <2> QED BY <1>1, <1>6, <2>1
<1> QED BY <1>4, <1>5, <1>6

\* The connections an actor holds where it stands.
Conns(x) == IF x = "write" THEN 2 ELSE IF x \in {"conn", "shared", "exclusive"} THEN 1 ELSE 0

LEMMA CountsMove ==
    ASSUME TypeOK, Kinds, Kinds', NEW a \in Actors, NEW x \in Place, Goto(a, x), NEW p \in Processes
    PROVE  /\ Guarding(p) \in Nat /\ Guarding(p)' \in Nat /\ HeldConns(p) \in Nat /\ HeldConns(p)' \in Nat
           /\ Guarding(p)' = IF p = Home[a] /\ a \in Guards \cup Fenced
                               THEN Guarding(p) + Bit(x, GuardPlaces) - Bit(pc[a], GuardPlaces)
                               ELSE Guarding(p)
           /\ HeldConns(p)' = IF p = Home[a] THEN HeldConns(p) + Conns(x) - Conns(pc[a]) ELSE HeldConns(p)
<1> DEFINE one == {"conn", "shared", "exclusive"}
           N1 == Cardinality(At(p, Actors, one))
           N2 == Cardinality(At(p, Guards, {"write"}))
<1>1. Guards \cup Fenced \in SUBSET Actors /\ Guards \in SUBSET Actors /\ Actors \in SUBSET Actors
  BY DEF Actors
<1>2. Guarding(p) \in Nat /\ N1 \in Nat /\ N2 \in Nat
  BY <1>1, AtFinite DEF Guarding
<1>3. Guarding(p)' = IF p = Home[a] /\ a \in Guards \cup Fenced
                       THEN Guarding(p) + Bit(x, GuardPlaces) - Bit(pc[a], GuardPlaces)
                       ELSE Guarding(p)
  BY <1>1, AtMoves DEF Guarding
<1>4. N1' = IF p = Home[a] THEN N1 + Bit(x, one) - Bit(pc[a], one) ELSE N1
  BY <1>1, AtMoves
<1>5. N2' = IF p = Home[a] /\ a \in Guards THEN N2 + Bit(x, {"write"}) - Bit(pc[a], {"write"}) ELSE N2
  BY <1>1, AtMoves
<1>6. pc'[a] = x /\ (a \notin Guards => x # "write" /\ pc[a] # "write")
  BY ActorsAssumption DEF TypeOK, Goto, Kinds, Actors, MutatorPlaces
<1>7. Guarding(p)' \in Nat /\ N1' \in Nat /\ N2' \in Nat
  BY <1>1, AtFinite DEF Guarding
<1>8. HeldConns(p) = N1 + 2 * N2 /\ HeldConns(p)' = N1' + 2 * N2'
  BY DEF HeldConns
<1>9. HeldConns(p)' = IF p = Home[a] THEN HeldConns(p) + Conns(x) - Conns(pc[a]) ELSE HeldConns(p)
  BY <1>2, <1>4, <1>5, <1>6, <1>8 DEF Bit, Conns
<1> QED BY <1>2, <1>3, <1>7, <1>8, <1>9

-----------------------------------------------------------------------------
(* The steps *)

\* A guard, a fenced transaction or a reader moves, taking or giving back what
\* its new place needs: no mutation of its process is disturbed.
LEMMA HolderMoves ==
    ASSUME Inv, NEW a \in Actors \ Mutators, NEW x \in Place, Goto(a, x), Kinds',
           UNCHANGED <<mutations, taken>>,
           slots' = [slots EXCEPT ![Home[a]] = @ +
                       (IF a \in Guards \cup Fenced
                          THEN Bit(x, GuardPlaces) - Bit(pc[a], GuardPlaces) ELSE 0)],
           conns' = [conns EXCEPT ![Home[a]] = @ + Conns(x) - Conns(pc[a])],
           slots'[Home[a]] <= SlotCap(Home[a]), conns'[Home[a]] <= MaxConns[Home[a]]
    PROVE  Inv'
<1> USE DEF Inv
<1>1. Home[a] \in Processes /\ \A m \in Mutators : Home[m] \in Processes
  BY HomeAssumption DEF Actors
<1>2. \A m \in Mutators : pc'[m] = pc[m]
  BY DEF TypeOK, Goto, Actors
<1>3. \A p \in Processes :
        /\ Guarding(p) \in Nat /\ Guarding(p)' \in Nat /\ HeldConns(p) \in Nat /\ HeldConns(p)' \in Nat
        /\ Guarding(p)' = IF p = Home[a] /\ a \in Guards \cup Fenced
                            THEN Guarding(p) + Bit(x, GuardPlaces) - Bit(pc[a], GuardPlaces)
                            ELSE Guarding(p)
        /\ HeldConns(p)' = IF p = Home[a] THEN HeldConns(p) + Conns(x) - Conns(pc[a]) ELSE HeldConns(p)
  BY CountsMove
<1>4. Bit(x, GuardPlaces) \in 0..1 /\ Bit(pc[a], GuardPlaces) \in 0..1
      /\ Conns(x) \in 0..2 /\ Conns(pc[a]) \in 0..2
  BY DEF Bit, Conns
<1>5. ConnsHeld'
  BY <1>1, <1>3, <1>4 DEF ConnsHeld, TypeOK
<1>6. \A p \in Processes : slots'[p] - slots[p] = Guarding(p)' - Guarding(p)
  BY <1>1, <1>3, <1>4 DEF TypeOK
<1>7. SlotsHeld'
  <2>1. \A p \in Processes : slots[p] \in Nat /\ slots'[p] \in Int
    BY <1>1, <1>4 DEF TypeOK
  <2>2. \A m \in Mutators : taken[m] \in Nat
    BY DEF TypeOK
  <2> QED BY <1>1, <1>2, <1>3, <1>6, <2>1, <2>2 DEF SlotsHeld
<1>8. TakenRight' /\ OneMutation'
  <2>1. taken' = taken /\ mutations' = mutations
    OBVIOUS
  <2>2. TakenRight'
    BY <1>2, <2>1 DEF TakenRight
  <2>3. OneMutation'
    BY <1>2, <2>1 DEF OneMutation
  <2> QED BY <2>2, <2>3
<1>9. TypeOK'
  <2>1. \A p \in Processes : slots'[p] \in Nat
    <3> SUFFICES ASSUME NEW p \in Processes PROVE slots'[p] \in Nat
      OBVIOUS
    <3>1. CASE mutations[p] = 0
      BY <1>3, <1>7, <3>1 DEF SlotsHeld
    <3>2. CASE mutations[p] = 1
      <4>1. PICK m \in Mutators : Home[m] = p /\ pc[m] # "idle"
        BY <3>2 DEF OneMutation
      <4> QED BY <1>2, <1>3, <1>7, <4>1 DEF SlotsHeld, TypeOK
    <3> QED BY <3>1, <3>2 DEF TypeOK
  <2>2. slots' \in [Processes -> Nat] /\ \A p \in Processes : slots'[p] <= SlotCap(p)
    BY <1>1, <2>1 DEF TypeOK
  <2>3. \A p \in Processes : conns'[p] \in Nat
    BY <1>3, <1>5 DEF ConnsHeld
  <2>4. conns' \in [Processes -> Nat] /\ \A p \in Processes : conns'[p] <= MaxConns[p]
    BY <1>1, <2>3 DEF TypeOK
  <2>5. pc' \in [Actors -> Place]
    BY DEF TypeOK, Goto
  <2> QED BY <2>2, <2>4, <2>5 DEF TypeOK
<1> QED BY <1>5, <1>7, <1>8, <1>9

\* A mutation goes to x, where it has t slots, and no guard of its process moves.
MutatorMove(m, x, t) ==
    /\ Goto(m, x)
    /\ mutations' = [mutations EXCEPT ![Home[m]] = Bit(x, MutatorPlaces)]
    /\ pc[m] = "idle" => mutations[Home[m]] = 0
    /\ slots' = [slots EXCEPT ![Home[m]] = @ + t - taken[m]]
    /\ taken' = [taken EXCEPT ![m] = t]
    /\ x = "idle" => t = 0
    /\ x = "mutex" => t < SlotCap(Home[m])
    /\ x \in {"all slots", "conn", "exclusive"} => t = SlotCap(Home[m])
    /\ conns' = [conns EXCEPT ![Home[m]] = @ + Conns(x) - Conns(pc[m])]
    /\ slots'[Home[m]] <= SlotCap(Home[m]) /\ conns'[Home[m]] <= MaxConns[Home[m]]

LEMMA MutatorMoves ==
    ASSUME Inv, NEW m \in Mutators, NEW x \in {"idle"} \cup MutatorPlaces, NEW t \in Nat,
           MutatorMove(m, x, t)
    PROVE  Inv'
<1> USE DEF Inv
<1>1. m \in Actors /\ x \in Place /\ m \notin Guards \cup Fenced /\ m \notin Readers
  BY ActorsAssumption DEF Actors, Place, MutatorPlaces
<1>2. Home[m] \in Processes /\ \A n \in Mutators : Home[n] \in Processes
  BY HomeAssumption DEF Actors
<1>3. pc'[m] = x /\ \A a \in Actors \ {m} : pc'[a] = pc[a]
  BY <1>1 DEF TypeOK, Goto, MutatorMove
<1>4. Kinds'
  BY <1>1, <1>3 DEF Kinds, Actors
<1>5. \A p \in Processes :
        /\ Guarding(p) \in Nat /\ HeldConns(p) \in Nat /\ HeldConns(p)' \in Nat
        /\ Guarding(p)' = Guarding(p)
        /\ HeldConns(p)' = IF p = Home[m] THEN HeldConns(p) + Conns(x) - Conns(pc[m]) ELSE HeldConns(p)
  <2>1. Goto(m, x)
    BY DEF MutatorMove
  <2> QED BY <1>1, <1>4, <2>1, CountsMove
<1>6. Conns(x) \in 0..2 /\ Conns(pc[m]) \in 0..2
  BY DEF Conns
<1>7. ConnsHeld'
  BY <1>2, <1>5, <1>6 DEF ConnsHeld, TypeOK, MutatorMove
<1>8. taken'[m] = t /\ taken[m] \in Nat /\ \A n \in Mutators \ {m} : taken'[n] = taken[n]
  BY DEF TypeOK, MutatorMove
<1>9. \A n \in Mutators \ {m} : pc'[n] = pc[n]
  BY <1>3 DEF Actors
<1>10. TakenRight'
  BY <1>3, <1>8, <1>9 DEF TakenRight, MutatorMove
<1>11. \A n \in Mutators \ {m} : pc[n] # "idle" => Home[n] # Home[m] \/ pc[m] = "idle"
  BY DEF OneMutation
<1>12. \A n \in Mutators \ {m} : pc[n] # "idle" => Home[n] # Home[m]
  <2>1. pc[m] = "idle" => mutations[Home[m]] = 0
    BY Zenon DEF MutatorMove
  <2> QED BY <1>11, <2>1 DEF OneMutation
<1>13. /\ mutations'[Home[m]] = Bit(x, MutatorPlaces)
       /\ Bit(x, MutatorPlaces) = IF x = "idle" THEN 0 ELSE 1
       /\ \A p \in Processes \ {Home[m]} : mutations'[p] = mutations[p]
  BY <1>2 DEF TypeOK, MutatorMove, Bit, MutatorPlaces
<1>14. OneMutation'
  <2>1. \A n \in Mutators : pc'[n] # "idle" => mutations'[Home[n]] = 1
    BY <1>2, <1>3, <1>9, <1>12, <1>13 DEF OneMutation
  <2>2. \A n, k \in Mutators : pc'[n] # "idle" /\ pc'[k] # "idle" /\ Home[n] = Home[k] => n = k
    BY <1>3, <1>9, <1>12 DEF OneMutation
  <2>3. \A p \in Processes : mutations'[p] = 1 => \E n \in Mutators : Home[n] = p /\ pc'[n] # "idle"
    <3> SUFFICES ASSUME NEW p \in Processes, mutations'[p] = 1
                 PROVE  \E n \in Mutators : Home[n] = p /\ pc'[n] # "idle"
      OBVIOUS
    <3>1. CASE p = Home[m]
      BY <1>3, <1>13, <3>1
    <3>2. CASE p # Home[m]
      BY <1>9, <1>13, <3>2 DEF OneMutation
    <3> QED BY <3>1, <3>2
  <2> QED BY <2>1, <2>2, <2>3 DEF OneMutation
<1>15. slots[Home[m]] = Guarding(Home[m]) + taken[m]
  <2>1. CASE pc[m] = "idle"
    <3>1. mutations[Home[m]] = 0
      BY <2>1, Zenon DEF MutatorMove
    <3>2. taken[m] = 0
      BY <2>1 DEF TakenRight
    <3>3. slots[Home[m]] = Guarding(Home[m]) /\ Guarding(Home[m]) \in Nat
      BY <1>2, <1>5, <3>1 DEF SlotsHeld
    <3> QED BY <3>2, <3>3
  <2>2. CASE pc[m] # "idle"
    BY <2>2 DEF SlotsHeld
  <2> QED BY <2>1, <2>2
<1>16. /\ slots'[Home[m]] = Guarding(Home[m]) + t
       /\ \A p \in Processes \ {Home[m]} : slots'[p] = slots[p]
  <2>1. slots'[Home[m]] = slots[Home[m]] + t - taken[m]
    BY <1>2 DEF TypeOK, MutatorMove
  <2>2. \A p \in Processes \ {Home[m]} : slots'[p] = slots[p]
    BY <1>2 DEF TypeOK, MutatorMove
  <2>3. Guarding(Home[m]) \in Nat /\ taken[m] \in Nat
    BY <1>2, <1>5, <1>8
  <2> QED BY <1>15, <2>1, <2>2, <2>3
<1>17. SlotsHeld'
  <2>1. \A p \in Processes : mutations'[p] = 0 => slots'[p] = Guarding(p)'
    <3> SUFFICES ASSUME NEW p \in Processes, mutations'[p] = 0 PROVE slots'[p] = Guarding(p)
      BY <1>5
    <3>1. CASE p = Home[m]
      <4>1. x = "idle" /\ Guarding(p) \in Nat
        BY <1>5, <1>13, <3>1
      <4>2. t = 0
        BY <4>1 DEF MutatorMove
      <4> QED BY <1>16, <3>1, <4>1, <4>2
    <3>2. CASE p # Home[m]
      BY <1>13, <1>16, <3>2 DEF SlotsHeld
    <3> QED BY <3>1, <3>2
  <2>2. \A n \in Mutators : pc'[n] # "idle" => slots'[Home[n]] = Guarding(Home[n])' + taken'[n]
    <3> SUFFICES ASSUME NEW n \in Mutators, pc'[n] # "idle"
                 PROVE  slots'[Home[n]] = Guarding(Home[n]) + taken'[n]
      BY <1>2, <1>5
    <3>1. CASE n = m
      BY <1>8, <1>16, <3>1
    <3>2. CASE n # m
      BY <1>2, <1>8, <1>9, <1>12, <1>16, <3>2 DEF SlotsHeld
    <3> QED BY <3>1, <3>2
  <2> QED BY <2>1, <2>2 DEF SlotsHeld
<1>18. TypeOK'
  <2>1. slots' \in [Processes -> Nat] /\ \A p \in Processes : slots'[p] <= SlotCap(p)
    <3>1. \A p \in Processes : slots'[p] \in Nat
      BY <1>2, <1>5, <1>16 DEF TypeOK
    <3> QED BY <1>2, <1>16, <3>1 DEF TypeOK, MutatorMove
  <2>2. mutations' \in [Processes -> 0..1]
    <3>1. mutations' = [mutations EXCEPT ![Home[m]] = Bit(x, MutatorPlaces)]
      BY Zenon DEF MutatorMove
    <3>2. Bit(x, MutatorPlaces) \in 0..1
      BY DEF Bit
    <3> QED BY <1>2, <3>1, <3>2 DEF TypeOK
  <2>3. \A p \in Processes : conns'[p] \in Nat
    BY <1>5, <1>7 DEF ConnsHeld
  <2>4. conns' \in [Processes -> Nat] /\ \A p \in Processes : conns'[p] <= MaxConns[p]
    BY <1>2, <2>3 DEF TypeOK, MutatorMove
  <2>5. t <= SlotCap(Home[m])
    <3>1. SlotCap(Home[m]) \in Nat
      BY <1>2, CapBounds
    <3>2. CASE x = "idle"
      BY <3>1, <3>2 DEF MutatorMove
    <3>3. CASE x = "mutex"
      BY <3>1, <3>3 DEF MutatorMove
    <3>4. CASE x \in {"all slots", "conn", "exclusive"}
      <4>1. t = SlotCap(Home[m])
        BY <3>4, Zenon DEF MutatorMove
      <4> QED BY <3>1, <4>1
    <3> QED BY <3>2, <3>3, <3>4 DEF MutatorPlaces
  <2>6. taken' \in [Mutators -> Nat] /\ \A n \in Mutators : taken'[n] <= SlotCap(Home[n])
    BY <1>8, <2>5 DEF TypeOK, MutatorMove
  <2>7. pc' \in [Actors -> Place]
    BY <1>1 DEF TypeOK, Goto, MutatorMove
  <2> QED BY <2>1, <2>2, <2>4, <2>6, <2>7 DEF TypeOK
<1> QED BY <1>4, <1>7, <1>10, <1>14, <1>17, <1>18

\* A guard or a fenced transaction takes a step.
LEMMA GuardInv ==
    ASSUME Inv, NEW a \in Guards \cup Fenced,
           \/ GuardStep(a) \/ GuardAbandon(a)
           \/ a \in Guards /\ (WriteConn(a) \/ GuardDone(a) \/ WriteAbandon(a))
           \/ a \in Fenced /\ FencedDone(a)
    PROVE  Inv'
<1>1. a \in Actors \ Mutators /\ Home[a] \in Processes
  BY ActorsAssumption, HomeAssumption DEF Actors
<1> DEFINE Moves(x) ==
        /\ Goto(a, x) /\ UNCHANGED <<mutations, taken>>
        /\ x = "write" => a \in Guards
        /\ slots' = [slots EXCEPT ![Home[a]] = @ + Bit(x, GuardPlaces) - Bit(pc[a], GuardPlaces)]
        /\ conns' = [conns EXCEPT ![Home[a]] = @ + Conns(x) - Conns(pc[a])]
        /\ slots'[Home[a]] <= SlotCap(Home[a]) /\ conns'[Home[a]] <= MaxConns[Home[a]]
<1>2. PICK x \in {"idle"} \cup GuardPlaces : Moves(x)
  <2>0. /\ slots[Home[a]] \in Nat /\ slots[Home[a]] <= SlotCap(Home[a])
        /\ conns[Home[a]] \in Nat /\ conns[Home[a]] <= MaxConns[Home[a]]
        /\ SlotCap(Home[a]) \in Nat /\ MaxConns[Home[a]] \in Nat
        /\ slots \in [Processes -> Nat] /\ conns \in [Processes -> Nat]
    BY <1>1, CapBounds DEF Inv, TypeOK
  <2>a. ASSUME pc[a] \in GuardPlaces, Goto(a, "idle"), UNCHANGED <<mutations, taken>>,
               GiveSlots(a, 1), GiveConns(a, Conns(pc[a]))
        PROVE  Moves("idle")
    <3>1. /\ Bit("idle", GuardPlaces) = 0 /\ Bit(pc[a], GuardPlaces) = 1
          /\ Conns("idle") = 0 /\ Conns(pc[a]) \in 0..2
      BY <2>a DEF GuardPlaces, Bit, Conns
    <3>2. /\ slots' = [slots EXCEPT ![Home[a]] = @ - 1]
          /\ conns' = [conns EXCEPT ![Home[a]] = @ - Conns(pc[a])]
      BY <2>a DEF GiveSlots, GiveConns
    <3>3. /\ slots[Home[a]] + 0 - 1 = slots[Home[a]] - 1
          /\ conns[Home[a]] + 0 - Conns(pc[a]) = conns[Home[a]] - Conns(pc[a])
      BY <2>0, <3>1
    <3>4. slots'[Home[a]] <= SlotCap(Home[a]) /\ conns'[Home[a]] <= MaxConns[Home[a]]
      BY <1>1, <2>0, <3>1, <3>2
    <3> QED BY <2>a, <3>1, <3>2, <3>3, <3>4
  <2> USE DEF GuardPlaces, Bit, Conns, TakeSlot, TakeConn
  <2>1. CASE GuardSlot(a)
    BY <1>1, <2>0, <2>1 DEF GuardSlot
  <2>2. CASE GuardConn(a)
    BY <1>1, <2>0, <2>2 DEF GuardConn
  <2>3. CASE GuardLock(a)
    BY <1>1, <2>0, <2>3 DEF GuardLock
  <2>4. CASE GuardAbandon(a)
    <3>1. /\ pc[a] \in GuardPlaces /\ Goto(a, "idle") /\ UNCHANGED <<mutations, taken>>
          /\ GiveSlots(a, 1) /\ GiveConns(a, Conns(pc[a]))
      BY <2>4 DEF GuardAbandon
    <3> QED BY <2>a, <3>1
  <2>5. CASE a \in Guards /\ WriteConn(a)
    BY <1>1, <2>0, <2>5 DEF WriteConn
  <2>6. CASE GuardDone(a)
    <3>1. /\ pc[a] \in GuardPlaces /\ Goto(a, "idle") /\ UNCHANGED <<mutations, taken>>
          /\ GiveSlots(a, 1) /\ GiveConns(a, Conns(pc[a]))
      BY <2>6 DEF GuardDone
    <3> QED BY <2>a, <3>1
  <2>7. CASE WriteAbandon(a)
    <3>1. /\ pc[a] \in GuardPlaces /\ Goto(a, "idle") /\ UNCHANGED <<mutations, taken>>
          /\ GiveSlots(a, 1) /\ GiveConns(a, Conns(pc[a]))
      BY <2>7 DEF WriteAbandon
    <3> QED BY <2>a, <3>1
  <2>8. CASE FencedDone(a)
    <3>1. /\ pc[a] \in GuardPlaces /\ Goto(a, "idle") /\ UNCHANGED <<mutations, taken>>
          /\ GiveSlots(a, 1) /\ GiveConns(a, Conns(pc[a]))
      BY <2>8 DEF FencedDone
    <3> QED BY <2>a, <3>1
  <2> QED BY <2>1, <2>2, <2>3, <2>4, <2>5, <2>6, <2>7, <2>8 DEF GuardStep
<1>3. Kinds'
  <2>1. pc'[a] = x /\ \A b \in Actors \ {a} : pc'[b] = pc[b]
    BY <1>1, <1>2 DEF Inv, TypeOK, Goto
  <2> QED BY <1>2, <2>1, ActorsAssumption DEF Inv, Kinds, Actors, GuardPlaces
<1>4. x \in Place /\ Bit(x, GuardPlaces) \in 0..1 /\ Bit(pc[a], GuardPlaces) \in 0..1
  <2>1. x \in Place
    BY DEF Place, GuardPlaces
  <2>2. \A y : Bit(y, GuardPlaces) \in 0..1
    BY DEF Bit
  <2> QED BY <2>1, <2>2
<1>5. slots[Home[a]] \in Nat
  BY <1>1 DEF Inv, TypeOK
<1>6. slots' = [slots EXCEPT ![Home[a]] = @ +
                  (IF a \in Guards \cup Fenced
                     THEN Bit(x, GuardPlaces) - Bit(pc[a], GuardPlaces) ELSE 0)]
  BY <1>2, <1>4, <1>5
<1> QED BY <1>1, <1>2, <1>3, <1>4, <1>6, HolderMoves

\* Another user of the pool takes a connection or gives it back.
LEMMA ReaderInv ==
    ASSUME Inv, NEW a \in Readers, ReaderConn(a) \/ ReaderDone(a)
    PROVE  Inv'
<1>1. a \in Actors \ Mutators /\ Home[a] \in Processes /\ a \notin Guards \cup Fenced
  BY ActorsAssumption, HomeAssumption DEF Actors
<1>2. /\ slots[Home[a]] \in Nat /\ slots[Home[a]] <= SlotCap(Home[a])
      /\ conns[Home[a]] \in Nat /\ conns[Home[a]] <= MaxConns[Home[a]]
      /\ MaxConns[Home[a]] \in Nat
      /\ slots \in [Processes -> Nat] /\ conns \in [Processes -> Nat]
  BY <1>1, CapBounds DEF Inv, TypeOK
<1>3. PICK x \in {"idle", "conn"} :
        /\ Goto(a, x) /\ UNCHANGED <<slots, mutations, taken>>
        /\ conns' = [conns EXCEPT ![Home[a]] = @ + Conns(x) - Conns(pc[a])]
        /\ conns'[Home[a]] <= MaxConns[Home[a]]
  BY <1>1, <1>2 DEF ReaderConn, ReaderDone, TakeConn, GiveConns, Conns
<1>4. Kinds'
  <2>1. pc'[a] = x /\ \A b \in Actors \ {a} : pc'[b] = pc[b]
    BY <1>1, <1>3 DEF Inv, TypeOK, Goto
  <2> QED BY <1>3, <2>1, ActorsAssumption DEF Inv, Kinds, Actors
<1>5. slots' = [slots EXCEPT ![Home[a]] = @ +
                  (IF a \in Guards \cup Fenced
                     THEN Bit(x, GuardPlaces) - Bit(pc[a], GuardPlaces) ELSE 0)]
  BY <1>1, <1>2, <1>3
<1>6. x \in Place
  BY DEF Place
<1> QED BY <1>1, <1>2, <1>3, <1>4, <1>5, <1>6, HolderMoves

\* A mutation takes a step.
LEMMA MutatorInv ==
    ASSUME Inv, NEW m \in Mutators, MutatorStep(m) \/ MutationAbandon(m)
    PROVE  Inv'
<1>1. m \in Actors /\ Home[m] \in Processes
  BY HomeAssumption DEF Actors
<1>2. /\ slots[Home[m]] \in Nat /\ slots[Home[m]] <= SlotCap(Home[m])
      /\ conns[Home[m]] \in Nat /\ conns[Home[m]] <= MaxConns[Home[m]]
      /\ SlotCap(Home[m]) \in Nat \ {0} /\ MaxConns[Home[m]] \in Nat
      /\ slots \in [Processes -> Nat] /\ conns \in [Processes -> Nat]
      /\ mutations \in [Processes -> 0..1] /\ taken \in [Mutators -> Nat] /\ taken[m] \in Nat
  BY <1>1, CapBounds DEF Inv, TypeOK
<1>3. pc[m] = "idle" => taken[m] = 0
  BY DEF Inv, TakenRight
<1>4. pc[m] = "mutex" => taken[m] < SlotCap(Home[m])
  BY DEF Inv, TakenRight
<1>5. pc[m] \in {"all slots", "conn", "exclusive"} => taken[m] = SlotCap(Home[m])
  BY DEF Inv, TakenRight
<1>6. pc[m] # "idle" => mutations[Home[m]] = 1
  BY DEF Inv, OneMutation
<1>7. /\ Bit("idle", MutatorPlaces) = 0
      /\ \A x \in MutatorPlaces : Bit(x, MutatorPlaces) = 1
  BY DEF Bit, MutatorPlaces
<1>8. /\ Conns("idle") = 0 /\ Conns("mutex") = 0 /\ Conns("all slots") = 0
      /\ Conns("conn") = 1 /\ Conns("exclusive") = 1
  BY DEF Conns
<1>a. /\ slots[Home[m]] + taken[m] - taken[m] = slots[Home[m]]
      /\ slots[Home[m]] + 0 - taken[m] = slots[Home[m]] - taken[m]
      /\ conns[Home[m]] + 0 - 0 = conns[Home[m]] /\ conns[Home[m]] + 1 - 1 = conns[Home[m]]
      /\ conns[Home[m]] + 1 - 0 = conns[Home[m]] + 1
      /\ \A n \in 0..2 : conns[Home[m]] + 0 - n = conns[Home[m]] - n
  BY <1>2
<1>b. /\ slots = [slots EXCEPT ![Home[m]] = slots[Home[m]]]
      /\ conns = [conns EXCEPT ![Home[m]] = conns[Home[m]]]
  BY <1>1, <1>2
<1>9. \E x \in {"idle"} \cup MutatorPlaces, t \in Nat : MutatorMove(m, x, t)
  <2>1. CASE MutationMutex(m)
    <3>1. MutatorMove(m, "mutex", 0)
      <4>1. slots' = [slots EXCEPT ![Home[m]] = @ + 0 - taken[m]]
        BY <1>1, <1>2, <1>3, <2>1 DEF MutationMutex
      <4>2. conns' = [conns EXCEPT ![Home[m]] = @ + Conns("mutex") - Conns(pc[m])]
        <5>1. conns' = conns /\ pc[m] = "idle"
          BY <2>1 DEF MutationMutex
        <5> QED BY <1>8, <1>a, <1>b, <5>1
      <4>3. taken' = [taken EXCEPT ![m] = 0]
        BY <1>2, <1>3, <2>1 DEF MutationMutex
      <4>4. mutations' = [mutations EXCEPT ![Home[m]] = Bit("mutex", MutatorPlaces)]
        BY <1>7, <2>1 DEF MutationMutex, MutatorPlaces
      <4>5. slots' = slots /\ conns' = conns /\ mutations[Home[m]] = 0 /\ Goto(m, "mutex")
        BY <2>1 DEF MutationMutex
      <4> QED BY <1>2, <4>1, <4>2, <4>3, <4>4, <4>5 DEF MutatorMove
    <3> QED BY <3>1 DEF MutatorPlaces
  <2>2. CASE MutationSlot(m)
    <3> DEFINE x == IF taken[m] + 1 < SlotCap(Home[m]) THEN "mutex" ELSE "all slots"
    <3>1. x \in MutatorPlaces /\ x \in {"mutex", "all slots"} /\ Conns(x) = 0
      BY <1>8 DEF MutatorPlaces
    <3>2. pc[m] = "mutex" /\ Goto(m, x) /\ UNCHANGED <<mutations, conns>>
      BY <2>2 DEF MutationSlot
    <3>3. /\ x = "mutex" => taken[m] + 1 < SlotCap(Home[m])
          /\ x = "all slots" => taken[m] + 1 = SlotCap(Home[m])
      <4>1. taken[m] < SlotCap(Home[m]) /\ taken[m] \in Nat /\ SlotCap(Home[m]) \in Nat
        BY <1>2, <1>4, <3>2
      <4> QED BY <4>1
    <3> HIDE DEF x
    <3>4. MutatorMove(m, x, taken[m] + 1)
      <4>1. slots' = [slots EXCEPT ![Home[m]] = @ + (taken[m] + 1) - taken[m]]
        <5>1. slots' = [slots EXCEPT ![Home[m]] = @ + 1]
          BY <2>2 DEF MutationSlot, TakeSlot
        <5>2. slots[Home[m]] + (taken[m] + 1) - taken[m] = slots[Home[m]] + 1
          BY <1>2
        <5> QED BY <5>1, <5>2
      <4>2. conns' = [conns EXCEPT ![Home[m]] = @ + Conns(x) - Conns(pc[m])]
        BY <1>8, <1>a, <1>b, <3>1, <3>2
      <4>3. taken' = [taken EXCEPT ![m] = taken[m] + 1]
        BY <2>2 DEF MutationSlot
      <4>4. mutations' = [mutations EXCEPT ![Home[m]] = Bit(x, MutatorPlaces)]
        BY <1>1, <1>2, <1>6, <1>7, <3>1, <3>2
      <4>5. slots'[Home[m]] <= SlotCap(Home[m]) /\ conns'[Home[m]] <= MaxConns[Home[m]]
        <5>1. slots[Home[m]] < SlotCap(Home[m]) /\ slots' = [slots EXCEPT ![Home[m]] = @ + 1]
          BY <2>2 DEF MutationSlot, TakeSlot
        <5>2. slots'[Home[m]] = slots[Home[m]] + 1 /\ conns' = conns
          BY <1>1, <1>2, <3>2, <5>1
        <5>3. SlotCap(Home[m]) \in Nat
          BY <1>2
        <5> QED BY <1>2, <5>1, <5>2, <5>3
      <4> QED BY <3>1, <3>2, <3>3, <4>1, <4>2, <4>3, <4>4, <4>5 DEF MutatorMove
    <3>5. taken[m] + 1 \in Nat
      BY <1>2
    <3> QED BY <3>1, <3>4, <3>5
  <2>3. CASE MutationConn(m)
    <3>1. MutatorMove(m, "conn", taken[m])
      <4>1. pc[m] = "all slots" /\ Goto(m, "conn") /\ UNCHANGED <<slots, mutations, taken>>
        BY <2>3 DEF MutationConn
      <4>2. slots' = [slots EXCEPT ![Home[m]] = @ + taken[m] - taken[m]]
        BY <1>a, <1>b, <4>1
      <4>3. conns' = [conns EXCEPT ![Home[m]] = @ + Conns("conn") - Conns(pc[m])]
        <5>1. conns' = [conns EXCEPT ![Home[m]] = @ + 1]
          BY <2>3 DEF MutationConn, TakeConn
        <5> QED BY <1>8, <1>a, <4>1, <5>1
      <4>4. taken' = [taken EXCEPT ![m] = taken[m]] /\ taken[m] = SlotCap(Home[m])
        BY <1>2, <1>5, <4>1
      <4>5. mutations' = [mutations EXCEPT ![Home[m]] = Bit("conn", MutatorPlaces)]
        BY <1>1, <1>2, <1>6, <1>7, <4>1 DEF MutatorPlaces
      <4>6. slots'[Home[m]] <= SlotCap(Home[m]) /\ conns'[Home[m]] <= MaxConns[Home[m]]
        <5>1. conns[Home[m]] < MaxConns[Home[m]] /\ conns' = [conns EXCEPT ![Home[m]] = @ + 1]
          BY <2>3 DEF MutationConn, TakeConn
        <5>2. conns'[Home[m]] = conns[Home[m]] + 1 /\ slots' = slots
          BY <1>1, <1>2, <4>1, <5>1
        <5> QED BY <1>2, <5>1, <5>2
      <4> QED BY <4>1, <4>2, <4>3, <4>4, <4>5, <4>6 DEF MutatorMove
    <3> QED BY <1>2, <3>1 DEF MutatorPlaces
  <2>4. CASE MutationLock(m)
    <3>1. MutatorMove(m, "exclusive", taken[m])
      <4>1. pc[m] = "conn" /\ Goto(m, "exclusive") /\ UNCHANGED <<slots, mutations, conns, taken>>
        BY <2>4 DEF MutationLock
      <4>2. slots' = [slots EXCEPT ![Home[m]] = @ + taken[m] - taken[m]]
        BY <1>1, <1>2, <4>1
      <4>3. conns' = [conns EXCEPT ![Home[m]] = @ + Conns("exclusive") - Conns(pc[m])]
        BY <1>8, <1>a, <1>b, <4>1
      <4>4. taken' = [taken EXCEPT ![m] = taken[m]] /\ taken[m] = SlotCap(Home[m])
        BY <1>2, <1>5, <4>1
      <4>5. mutations' = [mutations EXCEPT ![Home[m]] = Bit("exclusive", MutatorPlaces)]
        BY <1>1, <1>2, <1>6, <1>7, <4>1 DEF MutatorPlaces
      <4>6. slots'[Home[m]] <= SlotCap(Home[m]) /\ conns'[Home[m]] <= MaxConns[Home[m]]
        BY <1>2, <4>1
      <4> QED BY <4>1, <4>2, <4>3, <4>4, <4>5, <4>6 DEF MutatorMove
    <3> QED BY <1>2, <3>1 DEF MutatorPlaces
  <2>5. CASE MutationDone(m) \/ MutationAbandon(m)
    <3>1. /\ pc[m] \in MutatorPlaces /\ Goto(m, "idle") /\ GiveConns(m, Conns(pc[m]))
          /\ GiveSlots(m, taken[m]) /\ taken' = [taken EXCEPT ![m] = 0]
          /\ mutations' = [mutations EXCEPT ![Home[m]] = 0]
      BY <1>8, <2>5 DEF MutationDone, MutationAbandon, MutatorPlaces
    <3>2. MutatorMove(m, "idle", 0)
      <4>1. slots' = [slots EXCEPT ![Home[m]] = @ + 0 - taken[m]]
        BY <1>a, <3>1 DEF GiveSlots
      <4>2. Conns(pc[m]) \in 0..2
        BY DEF Conns
      <4>3. conns' = [conns EXCEPT ![Home[m]] = @ + Conns("idle") - Conns(pc[m])]
        BY <1>8, <1>a, <3>1, <4>2 DEF GiveConns
      <4>4. slots'[Home[m]] <= SlotCap(Home[m]) /\ conns'[Home[m]] <= MaxConns[Home[m]]
        BY <1>1, <1>2, <3>1, <4>2 DEF GiveSlots, GiveConns
      <4>5. pc[m] # "idle"
        BY <3>1 DEF MutatorPlaces
      <4> QED BY <1>7, <3>1, <4>1, <4>3, <4>4, <4>5 DEF MutatorMove
    <3> QED BY <3>2
  <2> QED BY <2>1, <2>2, <2>3, <2>4, <2>5 DEF MutatorStep
<1> QED BY <1>9, MutatorMoves

-----------------------------------------------------------------------------
(* The theorems *)

LEMMA InitInv == Init => Inv
<1> SUFFICES ASSUME Init PROVE Inv
  OBVIOUS
<1>1. \A m \in Mutators : m \in Actors /\ Home[m] \in Processes
  BY HomeAssumption DEF Actors
<1>2. TypeOK
  BY <1>1, CapBounds DEF Init, TypeOK, Place
<1>3. Kinds /\ TakenRight /\ OneMutation
  BY <1>1 DEF Init, Kinds, TakenRight, OneMutation, Actors
<1>4. ASSUME NEW p \in Processes PROVE Guarding(p) = 0 /\ HeldConns(p) = 0
  <2>1. /\ At(p, Guards \cup Fenced, GuardPlaces) = {}
        /\ At(p, Actors, {"conn", "shared", "exclusive"}) = {}
        /\ At(p, Guards, {"write"}) = {}
    BY DEF Init, At, Actors, GuardPlaces
  <2>2. Cardinality(At(p, Guards \cup Fenced, GuardPlaces)) = 0
    BY <2>1, FS_EmptySet
  <2>3. Cardinality(At(p, Actors, {"conn", "shared", "exclusive"})) = 0
    BY <2>1, FS_EmptySet
  <2>4. Cardinality(At(p, Guards, {"write"})) = 0
    BY <2>1, FS_EmptySet
  <2> QED BY <2>2, <2>3, <2>4 DEF Guarding, HeldConns
<1>5. SlotsHeld /\ ConnsHeld
  BY <1>1, <1>4 DEF Init, SlotsHeld, ConnsHeld
<1> QED BY <1>2, <1>3, <1>5 DEF Inv

LEMMA NextInv == Inv /\ [Next]_vars => Inv'
<1> SUFFICES ASSUME Inv, [Next]_vars PROVE Inv'
  OBVIOUS
<1>1. ASSUME NEW a \in Guards \cup Fenced, GuardStep(a) \/ GuardAbandon(a) PROVE Inv'
  BY <1>1, GuardInv
<1>2. ASSUME NEW a \in Guards, WriteConn(a) \/ GuardDone(a) \/ WriteAbandon(a) PROVE Inv'
  BY <1>2, GuardInv
<1>3. ASSUME NEW a \in Fenced, FencedDone(a) PROVE Inv'
  BY <1>3, GuardInv
<1>4. ASSUME NEW m \in Mutators, MutatorStep(m) \/ MutationAbandon(m) PROVE Inv'
  BY <1>4, MutatorInv
<1>5. ASSUME NEW a \in Readers, ReaderConn(a) \/ ReaderDone(a) PROVE Inv'
  BY <1>5, ReaderInv
<1>6. CASE UNCHANGED vars
  <2>1. UNCHANGED <<slots, mutations, conns, taken, pc>>
    BY <1>6 DEF vars
  <2>2. \A p \in Processes : Guarding(p)' = Guarding(p) /\ HeldConns(p)' = HeldConns(p)
    BY <2>1 DEF Guarding, HeldConns, At
  <2>3. TypeOK'
    BY <2>1 DEF Inv, TypeOK
  <2>4. Kinds' /\ TakenRight' /\ OneMutation'
    BY <2>1 DEF Inv, Kinds, TakenRight, OneMutation
  <2>5. \A m \in Mutators : Home[m] \in Processes
    BY HomeAssumption DEF Actors
  <2>6. SlotsHeld' /\ ConnsHeld'
    BY <2>1, <2>2, <2>5 DEF Inv, SlotsHeld, ConnsHeld
  <2> QED BY <2>3, <2>4, <2>6 DEF Inv
<1> QED BY <1>1, <1>2, <1>3, <1>4, <1>5, <1>6 DEF Next

LEMMA InvHolds == Spec => []Inv
BY InitInv, NextInv, PTL DEF Spec

\* Whatever is cancelled where, in pools of any sizes: every slot, mutex and
\* connection that Begin, BeginTransaction, BeginMutation or a reader took is held
\* by an actor that gives it back (fence.go:57-61, 107-115; transaction.go:36).
THEOREM NoLeak == Spec => []NothingLeaks
<1>1. Inv => NothingLeaks
  <2> SUFFICES ASSUME Inv, NEW p \in Processes
               PROVE  LET mutating == At(p, Mutators, Place \ {"idle"})
                      IN /\ mutations[p] = Cardinality(mutating)
                         /\ slots[p] = Guarding(p)
                              + (IF mutating = {} THEN 0 ELSE taken[CHOOSE m \in mutating : TRUE])
    BY DEF Inv, NothingLeaks, ConnsHeld, HeldConns, Guarding, GuardPlaces
  <2>1. \A m \in Mutators : pc[m] \in Place
    BY DEF Inv, TypeOK, Actors
  <2>2. Guarding(p) \in Nat /\ mutations[p] \in 0..1
    BY AtFinite DEF Guarding, Inv, TypeOK, Actors
  <2>3. CASE mutations[p] = 0
    <3>1. At(p, Mutators, Place \ {"idle"}) = {}
      BY <2>3 DEF At, Inv, OneMutation
    <3>2. slots[p] = Guarding(p)
      BY <2>3 DEF Inv, SlotsHeld
    <3> QED BY <2>2, <2>3, <3>1, <3>2, FS_EmptySet
  <2>4. CASE mutations[p] = 1
    <3>1. PICK m \in Mutators : Home[m] = p /\ pc[m] # "idle"
      BY <2>4 DEF Inv, OneMutation
    <3>2. At(p, Mutators, Place \ {"idle"}) = {m}
      BY <2>1, <3>1 DEF At, Inv, OneMutation
    <3>3. slots[p] = Guarding(p) + taken[m]
      BY <3>1 DEF Inv, SlotsHeld
    <3>4. Cardinality({m}) = 1 /\ {m} # {} /\ (CHOOSE k \in {m} : TRUE) = m
      BY FS_Singleton
    <3> QED BY <2>4, <3>2, <3>3, <3>4
  <2>5. mutations[p] = 0 \/ mutations[p] = 1
    BY <2>2
  <2> QED BY <2>3, <2>4, <2>5, Zenon
<1> QED BY <1>1, InvHolds, PTL

\* In pools of any sizes from two on, a guard that waits for the connection of its
\* business write never finds the pool exhausted by connections whose holders wait
\* as well (fence.go:41-43).
THEOREM WritesGetConnections == Spec => []WriteConnectionReachable
<1>1. Inv => WriteConnectionReachable
  <2> SUFFICES ASSUME Inv, NEW p \in Processes, NEW g \in At(p, Guards, {"shared"})
               PROVE  Cardinality(At(p, Guards, {"shared"})) + Cardinality(At(p, Mutators, {"conn"}))
                        < MaxConns[p]
    BY DEF WriteConnectionReachable
  <2> DEFINE S == At(p, Guards, {"shared"})
             G == At(p, Guards \cup Fenced, GuardPlaces)
  <2>1. S \in SUBSET G /\ g \in G
    BY DEF At, GuardPlaces
  <2>2. IsFiniteSet(S) /\ Cardinality(S) \in Nat /\ IsFiniteSet(G) /\ Cardinality(G) \in Nat
    BY AtFinite DEF Actors
  <2>3. Cardinality(S) <= Cardinality(G) /\ Cardinality(G) # 0
    <3> HIDE DEF S, G
    <3> QED BY <2>1, <2>2, FS_Subset, FS_EmptySet
  <2>4. Cardinality(G) = Guarding(p)
    BY DEF Guarding
  <2> HIDE DEF S, G
  <2>5. slots[p] \in Nat /\ slots[p] <= SlotCap(p) /\ SlotCap(p) \in Nat /\ SlotCap(p) < MaxConns[p]
        /\ MaxConns[p] \in Nat
    BY CapBounds DEF Inv, TypeOK
  <2>6. ASSUME NEW m \in Mutators, Home[m] = p, pc[m] # "idle"
        PROVE  slots[p] = Guarding(p) + taken[m] /\ taken[m] \in Nat
    BY <2>6 DEF Inv, SlotsHeld, TypeOK
  <2>7. At(p, Mutators, {"conn"}) = {}
    <3> SUFFICES ASSUME NEW m \in Mutators, Home[m] = p, pc[m] = "conn" PROVE FALSE
      BY DEF At
    <3>1. taken[m] = SlotCap(p)
      BY DEF Inv, TakenRight
    <3> QED BY <2>2, <2>3, <2>4, <2>5, <2>6, <3>1
  <2>8. Guarding(p) <= slots[p]
    <3>1. CASE mutations[p] = 0
      BY <2>2, <2>4, <3>1 DEF Inv, SlotsHeld
    <3>2. CASE mutations[p] = 1
      <4>1. PICK m \in Mutators : Home[m] = p /\ pc[m] # "idle"
        BY <3>2 DEF Inv, OneMutation
      <4> QED BY <2>2, <2>4, <2>6, <4>1
    <3> QED BY <3>1, <3>2 DEF Inv, TypeOK
  <2>9. Cardinality(At(p, Mutators, {"conn"})) = 0
    BY <2>7, FS_EmptySet
  <2>10. Cardinality(S) < MaxConns[p]
    BY <2>2, <2>3, <2>4, <2>5, <2>8
  <2> QED BY <2>2, <2>9, <2>10 DEF S
<1> QED BY <1>1, InvHolds, PTL
-----------------------------------------------------------------------------
(* SessionOwnership *)

\* Lease ids are drawn once: the row and the tokens only carry drawn ids, a
\* context has a token exactly when it has a lease id, and two executors never
\* carry the same id.
LeasesUnique ==
    /\ lease_id <= issued
    /\ \A e \in Executors : token[e].lease <= issued
    /\ \A e \in Executors : HasToken(e) <=> token[e].lease # NoLease
    /\ \A e, f \in Executors :
        token[e].lease # NoLease /\ token[e].lease = token[f].lease => e = f

\* Only a context with a token is ever inside a guard.
GuardsHaveTokens == \A e \in Executors : guard[e] # "none" => HasToken(e)

\* Every guard belongs to the current epoch, which is not the initial one.
EpochsPositive == \A e \in Executors : HasToken(e) => token[e].epoch > 0

IInv ==
    /\ SessionTypeOK
    /\ LeasesUnique
    /\ GuardsHaveTokens
    /\ EpochsPositive
    /\ GuardPinsOwnership
    /\ WritesFollowEpochs

LEMMA InitIInv == SessionInit => IInv
  BY SessionAssumption DEF SessionInit, IInv, SessionTypeOK, LeasesUnique, GuardsHaveTokens, EpochsPositive, GuardPinsOwnership,
      WritesFollowEpochs, Token, NoToken, GuardState, HasToken, NoLease

\* The type invariant is preserved by every step.
LEMMA TypeOKStep == SessionTypeOK /\ [SessionNext]_sessionVars => SessionTypeOK'
<1> SUFFICES ASSUME SessionTypeOK, [SessionNext]_sessionVars PROVE SessionTypeOK'
  OBVIOUS
<1> USE SessionAssumption DEF SessionTypeOK, Token, GuardState, row
<1>1. CASE Tick
  BY <1>1 DEF Tick, Live
<1>2. ASSUME NEW e \in Executors, NEW r \in Runs, AcquireLease(e, r) PROVE SessionTypeOK'
  BY <1>2 DEF AcquireLease
<1>3. ASSUME NEW e \in Executors, RenewLease(e) PROVE SessionTypeOK'
  BY <1>3 DEF RenewLease
<1>4. ASSUME NEW e \in Executors, ReleaseLease(e) PROVE SessionTypeOK'
  BY <1>4 DEF ReleaseLease, NoLease
<1>5. ASSUME NEW rs \in SUBSET Runs, RevokeForControlTx(rs) PROVE SessionTypeOK'
  BY <1>5 DEF RevokeForControlTx, NoLease
<1>6. ASSUME NEW e \in Executors, Begin(e) \/ BeginTransaction(e) \/ StageWrite(e) \/ Release(e)
      PROVE SessionTypeOK'
  BY <1>6 DEF Begin, BeginTransaction, StageWrite, Release
<1>7. ASSUME NEW e \in Executors, GuardedWrite(e) PROVE SessionTypeOK'
  BY <1>7 DEF GuardedWrite
<1>8. ASSUME NEW e \in Executors, Commit(e) PROVE SessionTypeOK'
  <2>1. log' \in Seq(Nat)
    <3>1. token[e].epoch \in Nat /\ log \in Seq(Nat)
      OBVIOUS
    <3>2. Append(log, token[e].epoch) \in Seq(Nat)
      BY <3>1
    <3> QED
      BY <1>8, <3>1, <3>2 DEF Commit
  <2> QED
    BY <1>8, <2>1 DEF Commit
<1>9. ASSUME NEW e \in Executors, Crash(e) PROVE SessionTypeOK'
  BY <1>9 DEF Crash, NoToken, NoLease
<1>10. CASE UNCHANGED sessionVars
  BY <1>10 DEF sessionVars
<1> QED
  BY <1>1, <1>2, <1>3, <1>4, <1>5, <1>6, <1>7, <1>8, <1>9, <1>10 DEF SessionNext

\* Lease ids stay unique: an acquisition draws a new one.
LEMMA LeasesUniqueStep == SessionTypeOK /\ LeasesUnique /\ [SessionNext]_sessionVars => LeasesUnique'
<1> SUFFICES ASSUME SessionTypeOK, LeasesUnique, [SessionNext]_sessionVars PROVE LeasesUnique'
  BY Zenon
<1> USE DEF SessionTypeOK, Token, LeasesUnique, HasToken, NoToken, NoLease, row
<1>1. ASSUME NEW e \in Executors, NEW r \in Runs, AcquireLease(e, r) PROVE LeasesUnique'
  <2>1. /\ issued' = issued + 1 /\ lease_id' = issued + 1
        /\ token'[e] = [lease |-> issued + 1, run |-> r, epoch |-> fence_epoch + 1]
        /\ \A f \in Executors \ {e} : token'[f] = token[f]
    BY <1>1 DEF AcquireLease
  <2>2. token'[e].lease = issued + 1 /\ token'[e] # NoToken /\ issued \in Nat
    BY <2>1
  <2>3. \A f \in Executors : token[f].lease \in Nat /\ token[f].lease <= issued
    OBVIOUS
  <2>4. ASSUME NEW f \in Executors PROVE token'[f].lease <= issued'
    <3>1. CASE f = e
      BY <2>1, <2>2, <3>1
    <3>2. CASE f # e
      BY <2>1, <2>2, <2>3, <3>2, SMTT(30)
    <3> QED
      BY <3>1, <3>2
  <2>5. ASSUME NEW f \in Executors PROVE token'[f] # NoToken <=> token'[f].lease # 0
    <3>1. CASE f = e
      BY <2>2, <3>1
    <3>2. CASE f # e
      BY <2>1, <3>2
    <3> QED
      BY <3>1, <3>2
  <2>6. \A f, g \in Executors : token'[f].lease # 0 /\ token'[f].lease = token'[g].lease => f = g
    BY <2>1, <2>2, <2>3
  <2>7. lease_id' <= issued'
    BY <2>1, <2>2
  <2> QED
    BY <2>4, <2>5, <2>6, <2>7, Zenon
<1>2. ASSUME NEW e \in Executors, Crash(e) PROVE LeasesUnique'
  BY <1>2 DEF Crash
<1>3. ASSUME NEW e \in Executors, ReleaseLease(e) PROVE LeasesUnique'
  BY <1>3 DEF ReleaseLease
<1>4. ASSUME NEW rs \in SUBSET Runs, RevokeForControlTx(rs) PROVE LeasesUnique'
  BY <1>4 DEF RevokeForControlTx
<1>5. ASSUME UNCHANGED <<lease_id, issued, token>> PROVE LeasesUnique'
  BY <1>5
<1> QED
  BY <1>1, <1>2, <1>3, <1>4, <1>5
  DEF SessionNext, sessionVars, Tick, RenewLease, Begin, BeginTransaction, GuardedWrite, StageWrite, Commit, Release

\* Guards and their tokens: a guard opens only on the row's own token, and no
\* lease operation moves the row while one is open.
LEMMA GuardsStep ==
    IInv /\ [SessionNext]_sessionVars => GuardsHaveTokens' /\ EpochsPositive' /\ GuardPinsOwnership'
<1> SUFFICES ASSUME IInv, [SessionNext]_sessionVars
             PROVE GuardsHaveTokens' /\ EpochsPositive' /\ GuardPinsOwnership'
  OBVIOUS
<1> USE DEF IInv, SessionTypeOK, GuardsHaveTokens, EpochsPositive, GuardPinsOwnership, HasToken, row
<1>1. ASSUME NEW e \in Executors, NEW r \in Runs, AcquireLease(e, r)
      PROVE GuardsHaveTokens' /\ EpochsPositive' /\ GuardPinsOwnership'
  BY <1>1 DEF AcquireLease, RowUnguarded, Token
<1>2. ASSUME NEW e \in Executors, RenewLease(e) \/ ReleaseLease(e)
      PROVE GuardsHaveTokens' /\ EpochsPositive' /\ GuardPinsOwnership'
  BY <1>2 DEF RenewLease, ReleaseLease, RowUnguarded
<1>3. ASSUME NEW rs \in SUBSET Runs, RevokeForControlTx(rs)
      PROVE GuardsHaveTokens' /\ EpochsPositive' /\ GuardPinsOwnership'
  BY <1>3 DEF RevokeForControlTx, RowUnguarded
<1>4. ASSUME NEW e \in Executors, Begin(e) \/ BeginTransaction(e)
      PROVE GuardsHaveTokens' /\ EpochsPositive' /\ GuardPinsOwnership'
  BY <1>4 DEF Begin, BeginTransaction, Valid, GuardState
<1>5. ASSUME NEW e \in Executors, StageWrite(e) \/ Commit(e) \/ Release(e)
      PROVE GuardsHaveTokens' /\ EpochsPositive' /\ GuardPinsOwnership'
  BY <1>5 DEF StageWrite, Commit, Release, GuardState
<1>6. ASSUME NEW e \in Executors, Crash(e)
      PROVE GuardsHaveTokens' /\ EpochsPositive' /\ GuardPinsOwnership'
  BY <1>6 DEF Crash
<1>7. ASSUME UNCHANGED <<lease_id, fence_epoch, token, guard>>
      PROVE GuardsHaveTokens' /\ EpochsPositive' /\ GuardPinsOwnership'
  BY <1>7
<1> QED
  BY <1>1, <1>2, <1>3, <1>4, <1>5, <1>6, <1>7 DEF SessionNext, sessionVars, Tick, GuardedWrite

\* A business write is appended with the epoch that is current, and the epoch
\* never decreases.
LEMMA WriteStep ==
    ASSUME IInv, NEW e \in Executors, guard[e] # "none",
           log' = Append(log, token[e].epoch), UNCHANGED fence_epoch
    PROVE  log' = Append(log, fence_epoch) /\ fence_epoch > 0 /\ WritesFollowEpochs'
<1>1. token[e].epoch = fence_epoch /\ fence_epoch > 0
  BY DEF IInv, GuardPinsOwnership, GuardsHaveTokens, EpochsPositive
<1>2. /\ log \in Seq(Nat) /\ fence_epoch \in Nat
      /\ log' = Append(log, fence_epoch)
  BY <1>1 DEF IInv, SessionTypeOK
<1>3. /\ Len(log') = Len(log) + 1 /\ Len(log) \in Nat
      /\ \A i \in 1..Len(log) : log'[i] = log[i] /\ log[i] \in Nat
      /\ log'[Len(log) + 1] = fence_epoch
  BY <1>2
<1>4. WritesFollowEpochs'
  BY <1>2, <1>3, SMTT(30) DEF IInv, WritesFollowEpochs
<1> QED
  BY <1>1, <1>2, <1>4

LEMMA WritesStep == IInv /\ [SessionNext]_sessionVars => WritesFollowEpochs'
<1> SUFFICES ASSUME IInv, [SessionNext]_sessionVars PROVE WritesFollowEpochs'
  OBVIOUS
<1>1. ASSUME NEW e \in Executors, GuardedWrite(e) PROVE WritesFollowEpochs'
  BY <1>1, WriteStep DEF GuardedWrite, row
<1>2. ASSUME NEW e \in Executors, Commit(e) PROVE WritesFollowEpochs'
  <2>1. CASE UNCHANGED log
    BY <1>2, <2>1 DEF Commit, row, IInv, WritesFollowEpochs
  <2>2. CASE log' = Append(log, token[e].epoch)
    BY <1>2, <2>2, WriteStep DEF Commit, row
  <2> QED
    BY <1>2, <2>1, <2>2 DEF Commit
<1>3. ASSUME UNCHANGED log, fence_epoch' \in Nat, fence_epoch <= fence_epoch'
      PROVE WritesFollowEpochs'
  <2>1. log \in Seq(Nat) /\ fence_epoch \in Nat
    BY DEF IInv, SessionTypeOK
  <2> QED
    BY <1>3, <2>1 DEF IInv, WritesFollowEpochs
<1>4. ASSUME UNCHANGED <<log, fence_epoch>> PROVE WritesFollowEpochs'
  BY <1>4 DEF IInv, WritesFollowEpochs
<1>5. ASSUME NEW e \in Executors, NEW r \in Runs, AcquireLease(e, r) PROVE WritesFollowEpochs'
  BY <1>3, <1>5 DEF AcquireLease, IInv, SessionTypeOK
<1>6. ASSUME NEW rs \in SUBSET Runs, RevokeForControlTx(rs) PROVE WritesFollowEpochs'
  BY <1>3, <1>6 DEF RevokeForControlTx, IInv, SessionTypeOK
<1> QED
  BY <1>1, <1>2, <1>4, <1>5, <1>6
  DEF SessionNext, sessionVars, row, Tick, RenewLease, ReleaseLease, Begin, BeginTransaction, StageWrite, Release, Crash

\* The inductive invariant.
THEOREM Inductive == SessionSpec => []IInv
<1>1. SessionInit => IInv
  BY InitIInv
<1>2. IInv /\ [SessionNext]_sessionVars => IInv'
  BY TypeOKStep, LeasesUniqueStep, GuardsStep, WritesStep DEF IInv
<1> QED
  BY <1>1, <1>2, PTL DEF SessionSpec

\* Every reachable state of the row, the tokens and the guards is well typed.
THEOREM TypeCorrect == SessionSpec => []SessionTypeOK
<1>1. IInv => SessionTypeOK
  BY DEF IInv
<1> QED
  BY Inductive, <1>1, PTL

\* No two executors ever pass the ownership validation at the same time.
THEOREM Exclusive == SessionSpec => []OwnershipExclusive
<1>1. IInv => OwnershipExclusive
  BY DEF IInv, LeasesUnique, OwnershipExclusive, Valid, NoLease
<1> QED
  BY Inductive, <1>1, PTL

\* An open guard keeps the row with its token: takeover and control wait for it.
THEOREM GuardsPin == SessionSpec => []GuardPinsOwnership
<1>1. IInv => GuardPinsOwnership
  BY DEF IInv
<1> QED
  BY Inductive, <1>1, PTL

\* Once a write was made under an epoch no superseded executor writes again.
THEOREM NoStaleWrite == SessionSpec => []WritesFollowEpochs
<1>1. IInv => WritesFollowEpochs
  BY DEF IInv
<1> QED
  BY Inductive, <1>1, PTL

\* The lease row with its guards implements the abstract fence.
THEOREM Refinement == SessionSpec => ImplementsFence
<1>1. SessionInit => F!Init
  BY DEF SessionInit, F!Init
<1>2. IInv /\ [SessionNext]_sessionVars => [F!Next]_<<fence_epoch, log>>
  <2> SUFFICES ASSUME IInv, [SessionNext]_sessionVars PROVE [F!Next]_<<fence_epoch, log>>
    OBVIOUS
  <2>1. ASSUME NEW e \in Executors, guard[e] # "none",
               log' = Append(log, token[e].epoch), UNCHANGED fence_epoch
        PROVE F!Write
    BY <2>1, WriteStep DEF F!Write
  <2>2. ASSUME NEW e \in Executors, GuardedWrite(e) PROVE F!Write
    BY <2>1, <2>2 DEF GuardedWrite, row
  <2>3. ASSUME NEW e \in Executors, Commit(e) PROVE [F!Next]_<<fence_epoch, log>>
    BY <2>1, <2>3 DEF Commit, row, F!Next
  <2>4. ASSUME NEW e \in Executors, NEW r \in Runs, AcquireLease(e, r) PROVE F!Advance
    BY <2>4 DEF AcquireLease, F!Advance
  <2>5. ASSUME NEW rs \in SUBSET Runs, RevokeForControlTx(rs) PROVE F!Advance
    BY <2>5 DEF RevokeForControlTx, F!Advance
  <2>6. ASSUME UNCHANGED <<fence_epoch, log>> PROVE [F!Next]_<<fence_epoch, log>>
    BY <2>6
  <2> QED
    BY <2>2, <2>3, <2>4, <2>5, <2>6
    DEF F!Next, SessionNext, sessionVars, row, Tick, RenewLease, ReleaseLease, Begin, BeginTransaction,
        StageWrite, Release, Crash
<1> QED
  BY <1>1, <1>2, Inductive, PTL DEF SessionSpec, ImplementsFence, F!Spec, F!vars
=============================================================================
