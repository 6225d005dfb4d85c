------------------------------- MODULE Fence -------------------------------
(***************************************************************************)
(* What fencing promises the rest of the orchestrator, with no lease, no   *)
(* token, no lock and no clock: authority over one session moves forward   *)
(* through numbered epochs, and a durable write is only ever made under    *)
(* the current epoch.  SessionOwnership is shown to implement this.        *)
(***************************************************************************)
EXTENDS Naturals, Sequences

VARIABLES
    epoch,  \* the authority epoch of the session (session_ownership.fence_epoch)
    log     \* the epochs under which durable writes were made, oldest first

vars == <<epoch, log>>

Init == epoch = 0 /\ log = << >>

\* Authority changes hands, or is withdrawn: always to the next epoch.
Advance == epoch' = epoch + 1 /\ UNCHANGED log

\* The current holder makes a durable write.  Epoch 0 has no holder.
Write == epoch > 0 /\ log' = Append(log, epoch) /\ UNCHANGED epoch

Next == Advance \/ Write

Spec == Init /\ [][Next]_vars

=============================================================================
