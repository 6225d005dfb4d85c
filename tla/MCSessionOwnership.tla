------------------------- MODULE MCSessionOwnership -------------------------
(* SessionOwnership for TLC: two executors compete for one session under two *)
(* runs; four epochs allow a takeover, an owner control and another takeover  *)
(* after the first owner's writes.                                           *)
EXTENDS SessionOwnership

MCTTL == 2
MCMaxEpoch == 4
MCMaxWrites == 3
=============================================================================
