-------------------------------- MODULE MCJobs --------------------------------
(* An instance of Jobs with faults and liveness, which TLC can exhaust. *)
EXTENDS Jobs, FiniteSets

\* What may come together: jobs, cancel requests, ends of the orchestrator, store
\* calls that fail, and the preflight.  Only steps that owe no progress lead out of
\* it: those of clients, ends, failures and the start of the preflight.
Plans == {
    \* two jobs, a cycle and a cancellation
    [jobs |-> 2, asked |-> 1, ends |-> 0, faults |-> 0, preflight |-> FALSE],
    \* a cancellation around restarts, and what two orchestrators that have ended left
    [jobs |-> 1, asked |-> 1, ends |-> 2, faults |-> 0, preflight |-> FALSE],
    \* failing store calls, with a cancellation or a second job, and a restart
    [jobs |-> 1, asked |-> 1, ends |-> 1, faults |-> 1, preflight |-> FALSE],
    [jobs |-> 2, asked |-> 0, ends |-> 1, faults |-> 1, preflight |-> FALSE],
    \* preflights
    [jobs |-> 1, asked |-> 0, ends |-> 1, faults |-> 0, preflight |-> TRUE] }

Stopping == IF phase = "stopping" THEN 1 ELSE 0

Within ==
    \E b \in Plans :
        /\ \A j \in Jobs : j > b.jobs => row[j] = "absent"
        /\ Cardinality({r \in Requests : req[r].at # "off"}) <= b.asked
        /\ crashes + Stopping <= b.ends
        /\ faults <= b.faults
        /\ b.preflight \/ (child[Preflight] = "none" /\ ~Outlived(Preflight))
=============================================================================
