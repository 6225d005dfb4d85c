-------------------------- MODULE MCAuxiliaryJobs --------------------------
(* AuxiliaryJobs for TLC: two jobs, two workers; two attempts stand for the    *)
(* code's eight, the minutes are the code's.                                   *)
EXTENDS AuxiliaryJobs
=============================================================================
