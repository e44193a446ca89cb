------------------------------ MODULE HostedJobs ------------------------------
(***************************************************************************)
(* Storage commands in orchestrator mode: `eter snapshot`, `eter           *)
(* recover-table` and the others submit a job over HTTP and poll it to its *)
(* end (cli/internal/cmd/storage.go, cli/internal/client/jobs.go,          *)
(* orchestrator/server.go); `eter jobs <id> --cancel` cancels one.         *)
(*                                                                         *)
(* The queue behind the API is module JobQueue, which module Jobs          *)
(* implements.  A request is one step of the server; its answer may get    *)
(* lost.  A command ends with an exit status; after that the user may run  *)
(* another one, the same again for instance.                               *)
(***************************************************************************)
EXTENDS Naturals, FiniteSets

CONSTANTS
    Clients,    \* processes of the CLI
    Jobs        \* numbers of jobs, in the order of submission

ASSUME HostedAssumption == Jobs \subseteq Nat \ {0}

VARIABLES
    row,        \* the state column of eter.jobs
    ask,        \* what each job is to do, and who submitted it
    signalled,  \* running jobs that were told to stop
    orphans,    \* jobs whose process survived its orchestrator
    done,       \* jobs whose operation took effect on the database
    cmd         \* the command of each client

hvars == <<row, ask, signalled, orphans, done, cmd>>

Queue == INSTANCE JobQueue WITH sound <- TRUE

Kinds == {"snapshot", "recover-table"}
NoCmd == [step |-> "idle", kind |-> "snapshot", wait |-> TRUE, id |-> 0,
          interrupted |-> FALSE, exit |-> "none"]

HInit ==
    /\ Queue!Init
    /\ ask = [j \in Jobs |-> [kind |-> "snapshot", by |-> "none"]]
    /\ signalled = {} /\ orphans = {} /\ done = {}
    /\ cmd = [c \in Clients |-> NoCmd]

-----------------------------------------------------------------------------
(* Commands.                                                               *)

InFlight(c) == cmd[c].step \in {"submit", "poll", "cancel"}
ToStep(c, step) == cmd' = [cmd EXCEPT ![c].step = step]
Exit(c, code) == cmd' = [cmd EXCEPT ![c].step = "idle", ![c].exit = code]

\* A storage command, which reads its arguments and decides on the transport.
Run(c, kind, wait) ==
    /\ cmd[c].step = "idle"
    /\ cmd' = [cmd EXCEPT ![c] = [NoCmd EXCEPT !.step = "submit", !.kind = kind, !.wait = wait]]
    /\ UNCHANGED <<row, ask, signalled, orphans, done>>

\* `eter jobs <id> --cancel`
RunCancel(c, j) ==
    /\ cmd[c].step = "idle"
    /\ cmd' = [cmd EXCEPT ![c] = [NoCmd EXCEPT !.step = "cancel", !.kind = "cancel", !.id = j]]
    /\ UNCHANGED <<row, ask, signalled, orphans, done>>

Fresh(j) == row[j] = "absent" /\ \A k \in Jobs : k < j => row[k] # "absent"

\* What the client makes of the answer to its submission of job j.
Submitted(c, j) ==
    IF cmd[c].wait THEN [cmd[c] EXCEPT !.step = "poll", !.id = j]
    ELSE [cmd[c] EXCEPT !.step = "idle", !.id = j, !.exit = "queued"]

\* POST /v1/storage/<kind>: the job is inserted, and the client told its id or,
\* when the answer is lost, an error.
SubmitJob(c, j) ==
    /\ cmd[c].step = "submit" /\ Fresh(j)
    /\ Queue!Submit(j)
    /\ ask' = [ask EXCEPT ![j] = [kind |-> cmd[c].kind, by |-> c]]
    /\ cmd' = [cmd EXCEPT ![c] = Submitted(c, j)]
    /\ UNCHANGED <<signalled, orphans, done>>

SubmitLost(c, j) ==
    /\ cmd[c].step = "submit" /\ Fresh(j)
    /\ Queue!Submit(j)
    /\ ask' = [ask EXCEPT ![j] = [kind |-> cmd[c].kind, by |-> c]]
    /\ Exit(c, "error")
    /\ UNCHANGED <<signalled, orphans, done>>

\* A request fails without effect: no server, no token, no backup directory, a
\* bad body, no answer from the store.
RequestFails(c) ==
    /\ InFlight(c)
    /\ Exit(c, "error")
    /\ UNCHANGED <<row, ask, signalled, orphans, done>>

Outcome(state) == [succeeded |-> "ok", failed |-> "error", canceled |-> "canceled"][state]

\* GET /v1/jobs/<id>, every two seconds, until the job has ended.
Poll(c) ==
    /\ cmd[c].step = "poll"
    /\ row[cmd[c].id] \in Queue!Terminal
    /\ Exit(c, Outcome(row[cmd[c].id]))
    /\ UNCHANGED <<row, ask, signalled, orphans, done>>

\* POST /v1/jobs/<id>/cancel: a queued job is canceled, a running one told to
\* stop; otherwise 409, or 404.
CancelJob(c) ==
    /\ cmd[c].step = "cancel"
    /\ LET j == cmd[c].id IN
         \/ Queue!Cancel(j) /\ Exit(c, "ok") /\ UNCHANGED signalled
         \/ /\ row[j] = "running" /\ signalled' = signalled \cup {j}
            /\ Exit(c, "ok") /\ UNCHANGED row
         \/ /\ row[j] \notin {"queued", "running"} /\ Exit(c, "error")
            /\ UNCHANGED <<row, signalled>>
    /\ UNCHANGED <<ask, orphans, done>>

\* Ctrl-C reaches the context of the command, which these commands do not use.
Interrupt(c) ==
    /\ InFlight(c) /\ ~cmd[c].interrupted
    /\ cmd' = [cmd EXCEPT ![c].interrupted = TRUE]
    /\ UNCHANGED <<row, ask, signalled, orphans, done>>

-----------------------------------------------------------------------------
(* The orchestrator, as far as its clients can tell.                       *)

StartJob(j) ==
    /\ \A k \in Jobs : row[k] = "queued" => j <= k
    /\ Queue!Start(j)
    /\ UNCHANGED <<ask, signalled, orphans, done, cmd>>

\* Its process is at work, also when its orchestrator is gone by then.
Working(j) == j \notin done /\ (row[j] = "running" \/ j \in orphans)

\* The operation takes effect.
Work(j) ==
    /\ Working(j)
    /\ done' = done \cup {j}
    /\ orphans' = orphans \ {j}
    /\ UNCHANGED <<row, ask, signalled, cmd>>

\* Faulty variant: a job that was told to stop counts as done.
JobEnds_Anyway(j) ==
    /\ Queue!End(j)
    /\ row'[j] = "succeeded" => j \in done \cup signalled
    /\ row'[j] = "canceled" => j \in signalled
    /\ UNCHANGED <<ask, signalled, orphans, done, cmd>>

\* The process of the job ends: well after its work, stopped if it was told to,
\* or with an error at any point.
JobEnds(j) ==
    /\ Queue!End(j)
    /\ row'[j] = "succeeded" => j \in done
    /\ row'[j] = "canceled" => j \in signalled
    /\ UNCHANGED <<ask, signalled, orphans, done, cmd>>

\* The orchestrator is told to end, and tells the running job to.
Shutdown(j) ==
    /\ row[j] = "running"
    /\ signalled' = signalled \cup {j}
    /\ UNCHANGED <<row, ask, orphans, done, cmd>>

\* The orchestrator dies and comes back: the running job has failed, and its
\* process may be there still.
Reboot(j) ==
    /\ row[j] = "running"
    /\ Queue!Become(j, "failed")
    /\ orphans' = orphans \cup ({j} \ done)
    /\ UNCHANGED <<ask, signalled, done, cmd>>

-----------------------------------------------------------------------------
ClientStep(c) ==
    \/ \E j \in Jobs : SubmitJob(c, j) \/ SubmitLost(c, j)
    \/ RequestFails(c) \/ Poll(c)

\* A command that waited and exits 0 has had its own operation performed, and
\* one that reports its job canceled is right, whatever cancellations, reboots
\* and other commands came in between.
ExitTellsTruth ==
    \A c \in Clients : cmd[c].step = "idle" /\ cmd[c].wait /\ cmd[c].kind # "cancel" =>
        /\ cmd[c].exit = "canceled" => row[cmd[c].id] = "canceled" /\ ask[cmd[c].id].by = c
        /\ cmd[c].exit = "ok" =>
             /\ cmd[c].id \in done
             /\ ask[cmd[c].id] = [kind |-> cmd[c].kind, by |-> c]
=============================================================================
