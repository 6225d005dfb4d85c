--------------------------- MODULE MCAuthorityPool ---------------------------
(* AuthorityPool for TLC: two processes contend for one row.  The first has   *)
(* the smallest supported pool, two connections and one slot; the pool of the *)
(* second has four and two slots, so that two of its guards hold the row lock *)
(* together and BeginMutation takes its slots one by one between them.        *)
EXTENDS AuthorityPool

MCProcesses == {"p1", "p2"}
MCGuards == {"g1", "g2", "g3", "g4"}
MCFenced == {"f2"}
MCMutators == {"m1", "m2"}
MCReaders == {"r1"}
MCHome == [a \in MCGuards \cup MCFenced \cup MCMutators \cup MCReaders |->
            IF a \in {"g1", "g4", "m1", "r1"} THEN "p1" ELSE "p2"]
MCMaxConns == [p \in MCProcesses |-> IF p = "p1" THEN 2 ELSE 4]
=============================================================================
