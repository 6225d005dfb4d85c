---------------------------- MODULE MCExecution ----------------------------
(* Two workers, two tool calls, each of one of two intents. *)
EXTENDS Execution, TLC

CONSTANTS w1, w2

MCWorkers == {w1, w2}
MCIntents == 1..2
MCSymmetry == Permutations(MCWorkers)
=============================================================================
