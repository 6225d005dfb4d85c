------------------------------ MODULE MCBudget ------------------------------
(* Budget for TLC.  "effect" is an operation that is retried, "late" the same  *)
(* operation after midnight, "child" a delegation by the same task (which      *)
(* spends of another dimension), "local" and "local2" are local inferences of  *)
(* one run, "look" is a preflight.                                             *)
EXTENDS Budget

LiveRun == 0
Today == 1
Task == 2
Conversation == 3
Tomorrow == 4

MCScopes == {LiveRun, Today, Task, Conversation, Tomorrow}

Ask(op, scopes) == [op |-> op, scopes |-> scopes]
Asks ==
    [effect |-> Ask("e", {Task, Today}), late |-> Ask("e", {Task, Tomorrow}),
     child |-> Ask("c", {Task, Today}), local |-> Ask("l", {LiveRun, Today, Conversation}),
     local2 |-> Ask("l2", {LiveRun, Today, Conversation}), look |-> Ask("none", {Today, Task})]

MCOp == [t \in Txns |-> Asks[t].op]
MCWanted == [t \in Txns |-> Asks[t].scopes]
MCCharge == [t \in Txns |-> IF t = "child" THEN 0 ELSE 1]
MCLimit == [s \in MCScopes |-> CASE s = Conversation -> 0 [] s = Task -> 1 [] OTHER -> 2]
=============================================================================
