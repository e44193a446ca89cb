----------------------------- MODULE MCCaptureLive -----------------------------
(* An instance of Capture with liveness, which TLC can exhaust. *)
EXTENDS Capture, TLC

CONSTANTS listen, poll

\* What may come together: commits, calls of track and untrack, faults, and the
\* refreshes at work.  Only steps that owe no progress lead out of it: those of the
\* tenant, faults, and the start of a refresh by listen.
Plans == {
    \* the stream, with a fault, while one refresh runs
    [commits |-> 2, changes |-> 1, faults |-> 1, refreshers |-> {poll}],
    \* two refreshes that race, and the stream
    [commits |-> 1, changes |-> 1, faults |-> 0, refreshers |-> {listen, poll}],
    \* two refreshes that race over several changes and a restart
    [commits |-> 0, changes |-> 2, faults |-> 1, refreshers |-> {listen, poll}] }

Within ==
    \E b \in Plans :
        /\ Len(wal) <= b.commits /\ Len(changes) <= b.changes /\ faults <= b.faults
        /\ \A p \in Procs : \A r \in Refreshers \ b.refreshers : refresh[p][r] = Idle
=============================================================================
