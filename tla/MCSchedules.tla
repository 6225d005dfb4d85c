---------------------------- MODULE MCSchedules ----------------------------
(* Schedules for TLC.                                                        *)
EXTENDS Schedules

MCTimings ==
    {[kind |-> "interval", n |-> 1, policy |-> "coalesce"],
     [kind |-> "daily", n |-> 2, policy |-> "skip"],
     [kind |-> "once", n |-> 2, policy |-> "skip"]}
============================================================================
