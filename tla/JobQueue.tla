------------------------------- MODULE JobQueue -------------------------------
(***************************************************************************)
(* What the orchestrator's job queue promises to its clients: a submitted  *)
(* job is run at most once, one job runs at a time, and an outcome, once   *)
(* reported, stays.  Once an update of a row has failed, the row of a job  *)
(* that is over may still say running while the next one starts; the other *)
(* promises last.                                                          *)
(***************************************************************************)
EXTENDS Naturals

CONSTANT Jobs

VARIABLES
    row,       \* the state of a job
    sound      \* has every access to the rows succeeded

Terminal == {"succeeded", "failed", "canceled"}

Init == row = [j \in Jobs |-> "absent"] /\ sound = TRUE

Become(j, s) == row' = [row EXCEPT ![j] = s]

Submit(j) == row[j] = "absent" /\ Become(j, "queued")
Cancel(j) == row[j] = "queued" /\ Become(j, "canceled")
Start(j) ==
    /\ row[j] = "queued"
    /\ sound => \A k \in Jobs : row[k] # "running"
    /\ Become(j, "running")
End(j) == row[j] = "running" /\ \E s \in Terminal : Become(j, s)

\* A new orchestrator fails the jobs it finds running.
Restart == row' = [j \in Jobs |-> IF row[j] = "running" THEN "failed" ELSE row[j]]

Step == Restart \/ \E j \in Jobs : Submit(j) \/ Cancel(j) \/ Start(j) \/ End(j)

Next ==
    /\ sound' => sound
    /\ row' = row \/ Step

Spec == Init /\ [][Next]_<<row, sound>>
=============================================================================
