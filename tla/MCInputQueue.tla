---------------------------- MODULE MCInputQueue ----------------------------
(* Inputs of one session. *)
EXTENDS InputQueue, TLC

CONSTANTS w1, w2

MCSession == [i \in 1..Inputs |-> "s"]
MCWorkers == {w1, w2}
WorkerSymmetry == Permutations(MCWorkers)
=============================================================================
