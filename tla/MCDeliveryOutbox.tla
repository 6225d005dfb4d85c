-------------------------- MODULE MCDeliveryOutbox --------------------------
(* DeliveryOutbox for TLC: three chunks, two workers.  Two attempts stand for *)
(* the code's six: the bound is met after one retry.                         *)
EXTENDS DeliveryOutbox
=============================================================================
