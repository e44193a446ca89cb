--------------------------------- MODULE Jobs ---------------------------------
(***************************************************************************)
(* The orchestrator's job subsystem (sidecars/orchestrator): durable job   *)
(* rows in eter.jobs, one runner loop that executes them by starting the   *)
(* eter-storage binary, a scheduler that starts maintenance cycles through *)
(* the same single-flight lane, cancel requests that race with both, and   *)
(* crashes and restarts of the orchestrator, which its sidecars may        *)
(* outlive.  Storage is configured (ETER_BACKUP_DIR).                      *)
(*                                                                         *)
(* Jobs are numbered from 1 like the rows; 0 stands for no job, and for    *)
(* the maintenance cycle among the sidecar processes.                      *)
(***************************************************************************)
EXTENDS Naturals

CONSTANTS
    MaxJobs,      \* bound: jobs submitted
    Requests,     \* cancel requests
    Timed,        \* is ETER_JOB_TIMEOUT_SEC positive
    MaxCrashes,   \* bound: ends of the orchestrator process, planned or not
    MaxFaults     \* bound: store calls that fail, applied or not

ASSUME JobsAssumption ==
    /\ MaxJobs \in Nat /\ MaxCrashes \in Nat /\ MaxFaults \in Nat
    /\ Timed \in BOOLEAN

Jobs == 1..MaxJobs
Cycle == 0
Preflight == MaxJobs + 1
Laned == Jobs \cup {Cycle}
Sidecars == Laned \cup {Preflight}
Terminal == {"succeeded", "failed", "canceled"}

VARIABLES
    (* eter.jobs, and the restore directories on disk *)
    row,        \* the state column of each job
    dirs,       \* jobs whose job-<id> directory exists
    (* the orchestrator process *)
    phase,      \* up, stopping once ctx is done, or down
    wake,       \* is a token in the wake channel
    lane,       \* the owner of the lane, or free
    runner,     \* where the runner loop is
    cur,        \* the job it executes
    result,     \* what runStorage returned: no error, or one
    cycle,      \* where runCycle is
    runningID,
    cancelFn,   \* the execution it cancels, or none
    ctx,        \* runCtx of the job and of the cycle
    (* processes of eter-storage *)
    child,      \* of this orchestrator: none, up, or its exit status
    orphans,    \* those still up whose orchestrator has ended, and which end that was
    strays,     \* jobs whose sidecar had outlived its orchestrator at the last boot
    (* cancel requests *)
    req,        \* where each request is, the job it names, and the answer
    (* bookkeeping of the model *)
    starts,     \* how often the sidecar of a job was started
    crashes, faults

stored == <<row, dirs>>
process == <<phase, wake, lane, runner, cur, result, cycle, runningID, cancelFn, ctx>>
sidecars == <<child, orphans, strays, starts>>
vars == <<stored, process, sidecars, req, crashes, faults>>

Answers == {"none", "canceled", "refused", "error"}

-----------------------------------------------------------------------------
(* newRunner: the volatile state of a fresh orchestrator. *)
Fresh ==
    /\ wake' = FALSE /\ lane' = "free" /\ runner' = "idle" /\ cur' = 0
    /\ result' = "none" /\ cycle' = "off" /\ runningID' = 0 /\ cancelFn' = "none"
    /\ ctx' = [o \in {"job", "cycle"} |-> "live"]

Init ==
    /\ row = [j \in Jobs |-> "absent"]
    /\ dirs = {}
    /\ phase = "up" /\ wake = FALSE /\ lane = "free" /\ runner = "idle" /\ cur = 0
    /\ result = "none" /\ cycle = "off" /\ runningID = 0 /\ cancelFn = "none"
    /\ ctx = [o \in {"job", "cycle"} |-> "live"]
    /\ child = [s \in Sidecars |-> "none"]
    /\ orphans = {} /\ strays = {}
    /\ req = [r \in Requests |-> [at |-> "off", id |-> 0, answer |-> "none"]]
    /\ starts = [j \in Jobs |-> 0]
    /\ crashes = 0 /\ faults = 0

Up == phase # "down"

(* A store call fails, before or after it took effect; the caller sees only *)
(* the error.                                                               *)
Fault == faults < MaxFaults /\ faults' = faults + 1

(* A guarded UPDATE of one job's state. *)
SetRow(j, from, to) ==
    row' = IF row[j] = from THEN [row EXCEPT ![j] = to] ELSE row

-----------------------------------------------------------------------------
(* Submission. *)

(* POST /v1/jobs: the row is inserted and the runner poked. *)
Submit(j) ==
    /\ Up /\ row[j] = "absent"
    /\ row' = [row EXCEPT ![j] = "queued"]
    /\ wake' = TRUE
    /\ UNCHANGED <<dirs, phase, lane, runner, cur, result, cycle, runningID, cancelFn, ctx>>
    /\ UNCHANGED <<sidecars, req, crashes, faults>>

-----------------------------------------------------------------------------
(* The runner loop. *)

At(here) == Up /\ runner = here
Go(there) == runner' = there

(* Mutant: no ticker, so a queued job without a token is never looked for. *)
Wake_TokenOnly ==
    /\ At("idle")
    /\ \/ wake /\ wake' = FALSE /\ Go("drain")
       \/ phase = "stopping" /\ Go("returned") /\ UNCHANGED wake
    /\ UNCHANGED <<phase, lane, cur, result, cycle, runningID, cancelFn, ctx>>
    /\ UNCHANGED <<stored, sidecars, req, crashes, faults>>

(* The loop wakes, by a token or by its ticker, or returns when ctx is done. *)
Wake ==
    /\ At("idle")
    /\ \/ wake /\ wake' = FALSE /\ Go("drain")
       \/ Go("drain") /\ UNCHANGED wake
       \/ phase = "stopping" /\ Go("returned") /\ UNCHANGED wake
    /\ UNCHANGED <<phase, lane, cur, result, cycle, runningID, cancelFn, ctx>>
    /\ UNCHANGED <<stored, sidecars, req, crashes, faults>>

Queued == {j \in Jobs : row[j] = "queued"}

(* It looks for the oldest queued job.  The query fails once ctx is done. *)
NextQueued ==
    /\ At("drain")
    /\ \/ /\ phase = "up"
          /\ \E j \in Queued : (\A k \in Queued : j <= k) /\ cur' = j
          /\ Go("acquire")
          /\ UNCHANGED faults
       \/ /\ phase = "stopping" \/ Queued = {}
          /\ Go("idle")
          /\ UNCHANGED <<cur, faults>>
       \/ Fault /\ Go("idle") /\ UNCHANGED cur
    /\ UNCHANGED <<phase, wake, lane, result, cycle, runningID, cancelFn, ctx>>
    /\ UNCHANGED <<stored, sidecars, req, crashes>>

(* execute takes the lane, or waits for it behind a maintenance cycle.  Whoever *)
(* frees the lane hands it to a waiting runner.                                 *)
Acquire ==
    /\ At("acquire")
    /\ IF lane = "free"
       THEN lane' = "job" /\ Go("holding")
       ELSE Go("waiting") /\ UNCHANGED lane
    /\ UNCHANGED <<phase, wake, cur, result, cycle, runningID, cancelFn, ctx>>
    /\ UNCHANGED <<stored, sidecars, req, crashes, faults>>

GiveUp ==
    /\ runner \in {"acquire", "waiting"} /\ phase = "stopping"
    /\ Go("drain")
    /\ UNCHANGED <<phase, wake, lane, cur, result, cycle, runningID, cancelFn, ctx>>
    /\ UNCHANGED <<stored, sidecars, req, crashes, faults>>

Handover ==
    IF runner = "waiting"
    THEN lane' = "job" /\ Go("holding")
    ELSE lane' = "free" /\ UNCHANGED runner

(* runContext: a child of ctx, so done from the start once ctx is. *)
RunContext(owner) ==
    ctx' = [ctx EXCEPT ![owner] = IF phase = "stopping" THEN "canceled" ELSE "live"]

(* Mutant: the cancel target is registered in part. *)
Register_NoId ==
    /\ At("holding")
    /\ cancelFn' = "job" /\ RunContext("job") /\ Go("registered")
    /\ UNCHANGED <<phase, wake, lane, cur, result, cycle, runningID>>
    /\ UNCHANGED <<stored, sidecars, req, crashes, faults>>

(* The cancel target is registered before the row turns running. *)
Register ==
    /\ At("holding")
    /\ runningID' = cur /\ cancelFn' = "job"
    /\ RunContext("job")
    /\ Go("registered")
    /\ UNCHANGED <<phase, wake, lane, cur, result, cycle>>
    /\ UNCHANGED <<stored, sidecars, req, crashes, faults>>

(* MarkRunning applies only to a row that is still queued. *)
MarkRunning ==
    /\ At("registered")
    /\ \/ /\ phase = "up" /\ SetRow(cur, "queued", "running")
          /\ Go(IF row[cur] = "queued" THEN "marked" ELSE "leaving")
          /\ UNCHANGED faults
       \/ /\ phase = "stopping" /\ Go("leaving")
          /\ UNCHANGED <<row, faults>>
       \/ /\ Fault /\ Go("leaving")
          /\ SetRow(cur, "queued", "running") \/ UNCHANGED row
    /\ UNCHANGED <<dirs, phase, wake, lane, cur, result, cycle, runningID, cancelFn, ctx>>
    /\ UNCHANGED <<sidecars, req, crashes>>

(* exec.Cmd starts the sidecar unless its context is done already. *)
StartSidecar ==
    /\ At("marked")
    /\ IF ctx["job"] = "live"
       THEN /\ child' = [child EXCEPT ![cur] = "up"]
            /\ starts' = [starts EXCEPT ![cur] = @ + 1]
            /\ Go("executing")
            /\ UNCHANGED result
       ELSE /\ result' = "error" /\ Go("executed")
            /\ UNCHANGED <<child, starts>>
    /\ UNCHANGED <<phase, wake, lane, cur, cycle, runningID, cancelFn, ctx>>
    /\ UNCHANGED <<stored, orphans, strays, req, crashes, faults>>

(* Wait returns the exit status, or the context's error if the context ended *)
(* before the exit was noticed.                                              *)
Wait ==
    /\ At("executing") /\ child[cur] \in {"ok", "bad"}
    /\ \/ result' = IF child[cur] = "ok" THEN "ok" ELSE "error"
       \/ ctx["job"] # "live" /\ result' = "error"
    /\ Go("executed")
    /\ UNCHANGED <<phase, wake, lane, cur, cycle, runningID, cancelFn, ctx>>
    /\ UNCHANGED <<stored, sidecars, req, crashes, faults>>

(* Mutant: the sweep runs only after a success. *)
Sweep_OnSuccess ==
    /\ At("executed")
    /\ dirs' = IF result = "ok" THEN dirs \ {cur} ELSE dirs
    /\ Go("swept")
    /\ UNCHANGED <<phase, wake, lane, cur, result, cycle, runningID, cancelFn, ctx>>
    /\ UNCHANGED <<row, sidecars, req, crashes, faults>>

(* The restore directory is swept whatever happened. *)
Sweep ==
    /\ At("executed")
    /\ dirs' = dirs \ {cur}
    /\ Go("swept")
    /\ UNCHANGED <<phase, wake, lane, cur, result, cycle, runningID, cancelFn, ctx>>
    /\ UNCHANGED <<row, sidecars, req, crashes, faults>>

(* Mutant: the result itself is written as the state. *)
Outcome_Raw == IF ctx["job"] = "canceled" THEN "canceled" ELSE result

Outcome ==
    IF result = "ok" THEN "succeeded"
    ELSE IF ctx["job"] = "canceled" THEN "canceled" ELSE "failed"

Finish ==
    /\ At("swept")
    /\ \/ SetRow(cur, "running", Outcome) /\ UNCHANGED faults
       \/ Fault /\ (SetRow(cur, "running", Outcome) \/ UNCHANGED row)
    /\ Go("leaving")
    /\ UNCHANGED <<dirs, phase, wake, lane, cur, result, cycle, runningID, cancelFn, ctx>>
    /\ UNCHANGED <<sidecars, req, crashes>>

(* The deferred function of execute: clear the target, then free the lane. *)
ClearTarget ==
    /\ At("leaving")
    /\ runningID' = 0 /\ cancelFn' = "none"
    /\ result' = "none"
    /\ Go("cleared")
    /\ UNCHANGED <<phase, wake, lane, cur, cycle, ctx>>
    /\ UNCHANGED <<stored, sidecars, req, crashes, faults>>

FreeLane ==
    /\ At("cleared")
    /\ lane' = "free" /\ cur' = 0
    /\ Go("drain")
    /\ UNCHANGED <<phase, wake, result, cycle, runningID, cancelFn, ctx>>
    /\ UNCHANGED <<stored, sidecars, req, crashes, faults>>

Runner ==
    \/ Wake \/ NextQueued \/ Acquire \/ GiveUp \/ Register \/ MarkRunning
    \/ StartSidecar \/ Wait \/ Sweep \/ Finish \/ ClearTarget \/ FreeLane

-----------------------------------------------------------------------------
(* The maintenance cycle. *)

(* Mutant: the cycle runs without asking whether the lane is free. *)
CycleTry_Anyway ==
    /\ Up /\ cycle = "off"
    /\ lane' = "cycle" /\ cycle' = "holding"
    /\ UNCHANGED <<phase, wake, runner, cur, result, runningID, cancelFn, ctx>>
    /\ UNCHANGED <<stored, sidecars, req, crashes, faults>>

(* runCycle tries for the lane and skips its turn when it is taken.  It sets *)
(* cancelFn but not runningID.                                               *)
CycleTry ==
    /\ Up /\ cycle = "off" /\ lane = "free"
    /\ lane' = "cycle" /\ cycle' = "holding"
    /\ UNCHANGED <<phase, wake, runner, cur, result, runningID, cancelFn, ctx>>
    /\ UNCHANGED <<stored, sidecars, req, crashes, faults>>

CycleStart ==
    /\ Up /\ cycle = "holding"
    /\ cancelFn' = "cycle"
    /\ RunContext("cycle")
    /\ cycle' = "registered"
    /\ UNCHANGED <<phase, wake, lane, runner, cur, result, runningID>>
    /\ UNCHANGED <<stored, sidecars, req, crashes, faults>>

CycleExec ==
    /\ Up /\ cycle = "registered"
    /\ IF ctx["cycle"] = "live"
       THEN child' = [child EXCEPT ![Cycle] = "up"] /\ cycle' = "executing"
       ELSE cycle' = "leaving" /\ UNCHANGED child
    /\ UNCHANGED <<phase, wake, lane, runner, cur, result, runningID, cancelFn, ctx>>
    /\ UNCHANGED <<stored, orphans, strays, starts, req, crashes, faults>>

CycleWait ==
    /\ Up /\ cycle = "executing" /\ child[Cycle] # "up"
    /\ child' = [child EXCEPT ![Cycle] = "none"]
    /\ cycle' = "leaving"
    /\ UNCHANGED <<phase, wake, lane, runner, cur, result, runningID, cancelFn, ctx>>
    /\ UNCHANGED <<stored, orphans, strays, starts, req, crashes, faults>>

CycleClear ==
    /\ Up /\ cycle = "leaving"
    /\ cancelFn' = "none"
    /\ cycle' = "cleared"
    /\ UNCHANGED <<phase, wake, lane, runner, cur, result, runningID, ctx>>
    /\ UNCHANGED <<stored, sidecars, req, crashes, faults>>

CycleFree ==
    /\ Up /\ cycle = "cleared"
    /\ Handover
    /\ cycle' = "off"
    /\ UNCHANGED <<phase, wake, cur, result, runningID, cancelFn, ctx>>
    /\ UNCHANGED <<stored, sidecars, req, crashes, faults>>

CycleRun == CycleStart \/ CycleExec \/ CycleWait \/ CycleClear \/ CycleFree

-----------------------------------------------------------------------------
(* The sidecar processes. *)

(* Boot starts `eter-storage preflight` beside the runner and outside the lane. *)
(* Its context ends after two minutes, or with ctx; that ends only the process, *)
(* which Exit lets happen at any time.                                          *)
StartPreflight ==
    /\ phase = "up" /\ child[Preflight] = "none"
    /\ child' = [child EXCEPT ![Preflight] = "up"]
    /\ UNCHANGED <<stored, process, orphans, strays, starts, req, crashes, faults>>

Outlived(s) == \E o \in orphans : o[1] = s

(* A recovery job makes its restore directory. *)
MakeDir(j) ==
    /\ child[j] = "up" \/ Outlived(j)
    /\ dirs' = dirs \cup {j}
    /\ UNCHANGED <<row, process, sidecars, req, crashes, faults>>

(* The exit status of the preflight is only logged. *)
Exit(s) ==
    /\ child[s] = "up"
    /\ \E status \in (IF s = Preflight THEN {"ok"} ELSE {"ok", "bad"}) :
           child' = [child EXCEPT ![s] = status]
    /\ UNCHANGED <<stored, process, orphans, strays, starts, req, crashes, faults>>

OrphanExit ==
    /\ \E o \in orphans : orphans' = orphans \ {o}
    /\ UNCHANGED <<stored, process, child, strays, starts, req, crashes, faults>>

(* The owner of the context a sidecar of the lane runs under. *)
Owner(s) == IF s = Cycle THEN "cycle" ELSE "job"

Timeout(s) ==
    /\ Timed /\ Up /\ child[s] = "up" /\ ctx[Owner(s)] = "live"
    /\ ctx' = [ctx EXCEPT ![Owner(s)] = "timedout"]
    /\ UNCHANGED <<stored, phase, wake, lane, runner, cur, result, cycle, runningID, cancelFn>>
    /\ UNCHANGED <<sidecars, req, crashes, faults>>

-----------------------------------------------------------------------------
(* POST /v1/jobs/{id}/cancel. *)

Ask(r, id) ==
    /\ Up /\ req[r].at = "off"
    /\ id \in Jobs => row[id] # "absent"
    /\ req' = [req EXCEPT ![r] = [at |-> "store", id |-> id, answer |-> "none"]]
    /\ UNCHANGED <<stored, process, sidecars, crashes, faults>>

Answer(r, a) == req' = [req EXCEPT ![r].at = "told", ![r].answer = a]

(* Mutant: a job that is not queued is taken to be over. *)
CancelQueued_Only(r) ==
    /\ Up /\ req[r].at = "store"
    /\ IF req[r].id \in Queued
       THEN row' = [row EXCEPT ![req[r].id] = "canceled"] /\ Answer(r, "canceled")
       ELSE Answer(r, "refused") /\ UNCHANGED row
    /\ UNCHANGED <<dirs, process, sidecars, crashes, faults>>

(* cancel tries the queued row first; then, under mu, the running process. *)
CancelQueued(r) ==
    /\ Up /\ req[r].at = "store"
    /\ LET j == req[r].id
           queued == j \in Queued
           applied == row' = [row EXCEPT ![j] = "canceled"]
       IN \/ queued /\ applied /\ Answer(r, "canceled") /\ UNCHANGED faults
          \/ ~queued /\ req' = [req EXCEPT ![r].at = "mutex"] /\ UNCHANGED <<row, faults>>
          \/ /\ Fault /\ Answer(r, "error")
             /\ (queued /\ applied) \/ UNCHANGED row
    /\ UNCHANGED <<dirs, process, sidecars, crashes>>

Kill(owner) ==
    ctx' = IF ctx[owner] = "live" THEN [ctx EXCEPT ![owner] = "canceled"] ELSE ctx

(* Mutant: whatever runs is canceled. *)
CancelRunning_AnyJob(r) ==
    /\ Up /\ req[r].at = "mutex"
    /\ IF cancelFn # "none"
       THEN Kill(cancelFn) /\ Answer(r, "canceled")
       ELSE Answer(r, "refused") /\ UNCHANGED ctx
    /\ UNCHANGED <<stored, phase, wake, lane, runner, cur, result, cycle, runningID, cancelFn>>
    /\ UNCHANGED <<sidecars, crashes, faults>>

CancelRunning(r) ==
    /\ Up /\ req[r].at = "mutex"
    /\ IF runningID = req[r].id /\ cancelFn # "none"
       THEN Kill(cancelFn) /\ Answer(r, "canceled")
       ELSE Answer(r, "refused") /\ UNCHANGED ctx
    /\ UNCHANGED <<stored, phase, wake, lane, runner, cur, result, cycle, runningID, cancelFn>>
    /\ UNCHANGED <<sidecars, crashes, faults>>

-----------------------------------------------------------------------------
(* The life of the orchestrator process. *)

(* SIGTERM: ctx is done, and every context derived from it. *)
Stop ==
    /\ phase = "up" /\ crashes < MaxCrashes
    /\ phase' = "stopping"
    /\ ctx' = [o \in {"job", "cycle"} |-> IF ctx[o] = "live" THEN "canceled" ELSE ctx[o]]
    /\ UNCHANGED <<wake, lane, runner, cur, result, cycle, runningID, cancelFn>>
    /\ UNCHANGED <<stored, sidecars, req, crashes, faults>>

(* The process ends: killed, or after awaitIdle, whose wait is bounded and   *)
(* may run out with the lane still held.  Nothing ends its sidecars with it: *)
(* some do, by a signal or a broken pipe, and some outlive it.               *)
Alive == {s \in Sidecars : child[s] = "up"}

Die ==
    /\ Up /\ crashes < MaxCrashes
    /\ phase' = "down" /\ Fresh
    /\ \E survivors \in SUBSET Alive :
           orphans' = orphans \cup (survivors \X {crashes + 1})
    /\ child' = [s \in Sidecars |->
                    IF s \notin Jobs THEN "none"
                    ELSE IF s \in Alive THEN "bad" ELSE child[s]]
    /\ req' = [r \in Requests |->
                 IF req[r].at \in {"store", "mutex"}
                 THEN [req[r] EXCEPT !.at = "told", !.answer = "error"] ELSE req[r]]
    /\ crashes' = crashes + 1
    /\ UNCHANGED <<stored, strays, starts, faults>>

(* Mutants: jobs left running are queued again, or left as they are. *)
FailOrphans_Requeue ==
    row' = [j \in Jobs |-> IF row[j] = "running" THEN "queued" ELSE row[j]]
FailOrphans_None == UNCHANGED row

FailOrphans ==
    row' = [j \in Jobs |-> IF row[j] = "running" THEN "failed" ELSE row[j]]

(* bootRecover, before any request is served: fail the rows left running,    *)
(* going on if that fails, and sweep the job directories.                    *)
Boot ==
    /\ phase = "down"
    /\ \/ FailOrphans /\ UNCHANGED faults
       \/ Fault /\ (FailOrphans \/ UNCHANGED row)
    /\ dirs' = {}
    /\ strays' = {j \in Jobs : Outlived(j)}
    /\ phase' = "up"
    /\ UNCHANGED <<wake, lane, runner, cur, result, cycle, runningID, cancelFn, ctx>>
    /\ UNCHANGED <<child, orphans, starts, req, crashes>>

-----------------------------------------------------------------------------
Clients ==
    \/ \E j \in Jobs : Submit(j)
    \/ \E r \in Requests : \/ \E id \in Laned : Ask(r, id)
                           \/ CancelQueued(r) \/ CancelRunning(r)

Processes ==
    \/ StartPreflight
    \/ \E j \in Jobs : MakeDir(j)
    \/ \E s \in Sidecars : Exit(s)
    \/ \E s \in Laned : Timeout(s)
    \/ OrphanExit

Next == Runner \/ CycleTry \/ CycleRun \/ Clients \/ Processes \/ Stop \/ Die \/ Boot

Spec == Init /\ [][Next]_vars

(* The runner loop and a cycle that has begun go on, a sidecar that was told *)
(* to end does (SIGKILL follows SIGTERM), a timeout that is set fires, and a *)
(* supervisor restarts the orchestrator.  Nobody has to submit or cancel,    *)
(* and a sidecar left alone may hang.                                        *)
Fairness ==
    /\ WF_vars(Runner) /\ WF_vars(CycleRun)
    /\ \A s \in Laned : /\ WF_vars(Timeout(s))
                        /\ WF_vars(ctx[Owner(s)] # "live" /\ Exit(s))
    /\ WF_vars(phase = "stopping" /\ Die) /\ WF_vars(Boot)

FairSpec == Spec /\ Fairness

-----------------------------------------------------------------------------
(* Properties. *)

(* Every variable has its type. *)
TypeOK ==
    /\ row \in [Jobs -> {"absent", "queued", "running"} \cup Terminal]
    /\ dirs \subseteq Jobs
    /\ phase \in {"up", "stopping", "down"}
    /\ wake \in BOOLEAN
    /\ lane \in {"free", "job", "cycle"}
    /\ runner \in {"idle", "drain", "acquire", "waiting", "holding", "registered", "marked",
                   "executing", "executed", "swept", "leaving", "cleared", "returned"}
    /\ cur \in 0..MaxJobs
    /\ result \in {"none", "ok", "error"}
    /\ cycle \in {"off", "holding", "registered", "executing", "leaving", "cleared"}
    /\ runningID \in 0..MaxJobs
    /\ cancelFn \in {"none", "job", "cycle"}
    /\ ctx \in [{"job", "cycle"} -> {"live", "canceled", "timedout"}]
    /\ child \in [Sidecars -> {"none", "up", "ok", "bad"}]
    /\ orphans \subseteq Sidecars \X (1..MaxCrashes) /\ strays \subseteq Jobs
    /\ req \in [Requests -> [at : {"off", "store", "mutex", "told"},
                             id : 0..MaxJobs, answer : Answers]]
    /\ starts \in [Jobs -> Nat]
    /\ crashes \in 0..MaxCrashes /\ faults \in 0..MaxFaults

(* The lane is a single flight (jobs.go:1-8): a job and a scheduled cycle of  *)
(* one orchestrator never overlap, while it lives and after its end, so that  *)
(* each end leaves at most one of them behind.  Two may run at once only if   *)
(* one was left by an earlier orchestrator; the preflight is beside the lane. *)
SingleFlight ==
    /\ \A s, t \in Laned \cap Alive : s = t
    /\ \A o, q \in orphans : {o[1], q[1]} \subseteq Laned /\ o[2] = q[2] => o = q

(* A job is executed at most once, over crashes, restarts and failed store    *)
(* calls: never again after an end that was not recorded, and never before or *)
(* beside its row being in the state running, however a cancellation of the   *)
(* queued row races with the runner.                                          *)
RunsOnce ==
    \A j \in Jobs : /\ starts[j] <= 1
                    /\ row[j] \in {"absent", "queued"} => starts[j] = 0
                    /\ child[j] = "up" => row[j] = "running"

(* Until a store call fails, there is no window in which a job is running but *)
(* cannot be canceled (jobs.go:399-404).                                      *)
RunningIsCancelable ==
    faults = 0 =>
        \A j \in Jobs : Up /\ row[j] = "running" => runningID = j /\ cancelFn = "job"

(* The answer 409, job already finished, is true until a store call fails: a  *)
(* cancel request is refused only if its job has ended, though its two looks  *)
(* at the job, in the store and then under the mutex, are separate.           *)
RefusedMeansOver ==
    faults = 0 =>
        \A r \in Requests :
            req[r].answer = "refused" /\ req[r].id \in Jobs => row[req[r].id] \in Terminal

(* The outcome of a job tells what happened: it succeeded only if its sidecar *)
(* exited with status 0, and it was canceled after it had started only if a   *)
(* request that named it was answered so, or the orchestrator was stopped.    *)
Truthful ==
    \A j \in Jobs :
        /\ row[j] = "succeeded" => child[j] = "ok"
        /\ row[j] = "canceled" /\ starts[j] > 0 =>
              \/ \E r \in Requests : req[r].id = j /\ req[r].answer = "canceled"
              \/ phase = "stopping" \/ crashes > 0

(* A job that has ended leaves a restore directory behind only if its sidecar *)
(* outlived both its orchestrator and the sweep of the boot after it; every   *)
(* other one is gone, whether the job ended by itself, by a cancellation, by  *)
(* a timeout or by the end of the orchestrator (recovery.go:5-8).             *)
NoDebris == \A j \in dirs : Up /\ row[j] \in Terminal => j \in strays

(* Every queued job is taken or canceled eventually: the lane survives every  *)
(* job, every cycle, failed store calls and restarts.                         *)
JobsTaken == \A j \in Jobs : row[j] = "queued" ~> row[j] # "queued"

(* If the store does not fail, every running job is brought to a terminal     *)
(* state (jobs.go:396), by a later orchestrator if need be.                   *)
JobsEnd == \A j \in Jobs : row[j] = "running" ~> row[j] \in Terminal \/ faults > 0

(* The rows behave like the abstract queue: one job runs at a time until a    *)
(* store call fails, each job runs once, and its outcome stays.               *)
Queue == INSTANCE JobQueue WITH sound <- (faults = 0)
ImplementsQueue == Queue!Spec
=============================================================================
