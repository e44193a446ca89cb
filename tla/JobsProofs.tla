------------------------------ MODULE JobsProofs ------------------------------
(***************************************************************************)
(* Theorems about Jobs, for any number of jobs, cancel requests, ends of   *)
(* the orchestrator and failed store calls.                                *)
(***************************************************************************)
EXTENDS Jobs, TLAPS

-----------------------------------------------------------------------------
(* The sidecars are told apart. *)
LEMMA SidecarNames ==
    /\ Jobs \subseteq Laned /\ Laned \subseteq Sidecars
    /\ Cycle \in Laned /\ Preflight \in Sidecars
    /\ Cycle \notin Jobs /\ Preflight \notin Laned /\ Preflight \notin Jobs
BY JobsAssumption DEF JobsAssumption, Jobs, Cycle, Preflight, Laned, Sidecars

-----------------------------------------------------------------------------
(* Types. *)

LEMMA RunnerType ==
    ASSUME TypeOK, Runner
    PROVE  TypeOK'
<1>0. JobsAssumption /\ row \in [Jobs -> {"absent", "queued", "running"} \cup Terminal]
      /\ faults \in 0..MaxFaults
  BY JobsAssumption DEF TypeOK
<1>1. CASE Wake
  <2>1. wake' \in BOOLEAN
    BY <1>1 DEF Wake, TypeOK
  <2> QED
    BY <1>1, <2>1 DEF Wake, At, Go, TypeOK, stored, sidecars
<1>2. CASE NextQueued
  <2>1. Queued \subseteq Jobs
    BY DEF Queued
  <2> QED
    BY <1>0, <1>2, <2>1 DEF NextQueued, At, Go, Fault, TypeOK, Jobs, stored, sidecars
<1>3. CASE Acquire
  BY <1>3 DEF Acquire, At, Go, TypeOK, stored, sidecars
<1>4. CASE GiveUp
  BY <1>4 DEF GiveUp, At, Go, TypeOK, stored, sidecars
<1>5. CASE Register
  BY <1>5 DEF Register, RunContext, At, Go, TypeOK, stored, sidecars
<1>6. CASE MarkRunning
  BY <1>0, <1>6 DEF MarkRunning, SetRow, Fault, At, Go, TypeOK, sidecars
<1>7. CASE StartSidecar
  BY <1>7 DEF StartSidecar, At, Go, TypeOK, stored
<1>8. CASE Wait
  BY <1>8 DEF Wait, At, Go, TypeOK, stored, sidecars
<1>9. CASE Sweep
  BY <1>9 DEF Sweep, At, Go, TypeOK, sidecars
<1>10. CASE Finish
  BY <1>0, <1>10 DEF Finish, Outcome, Terminal, SetRow, Fault, At, Go, TypeOK, sidecars
<1>11. CASE ClearTarget
  BY <1>0, <1>11 DEF ClearTarget, At, Go, TypeOK, stored, sidecars, JobsAssumption
<1>12. CASE FreeLane
  BY <1>0, <1>12 DEF FreeLane, At, Go, TypeOK, stored, sidecars, JobsAssumption
<1> QED
  BY <1>1, <1>2, <1>3, <1>4, <1>5, <1>6, <1>7, <1>8, <1>9, <1>10, <1>11, <1>12 DEF Runner

LEMMA CycleType ==
    ASSUME TypeOK, CycleTry \/ CycleRun
    PROVE  TypeOK'
<1>1. CASE CycleTry
  BY <1>1 DEF CycleTry, TypeOK, stored, sidecars
<1>2. CASE CycleStart
  BY <1>2 DEF CycleStart, RunContext, TypeOK, stored, sidecars
<1>3. CASE CycleExec
  BY <1>3, SidecarNames DEF CycleExec, TypeOK, stored
<1>4. CASE CycleWait
  BY <1>4, SidecarNames DEF CycleWait, TypeOK, stored
<1>5. CASE CycleClear
  BY <1>5 DEF CycleClear, TypeOK, stored, sidecars
<1>6. CASE CycleFree
  <2>1. lane' \in {"free", "job"} /\ runner' \in {runner, "holding"}
    BY <1>6 DEF CycleFree, Handover, Go
  <2>2. UNCHANGED <<phase, wake, cur, result, runningID, cancelFn, ctx>>
        /\ UNCHANGED <<stored, sidecars, req, crashes, faults>> /\ cycle' = "off"
    BY <1>6 DEF CycleFree
  <2>3. wake' \in BOOLEAN
    BY <2>2 DEF TypeOK
  <2> QED
    BY <2>1, <2>2, <2>3 DEF TypeOK, stored, sidecars
<1> QED
  BY <1>1, <1>2, <1>3, <1>4, <1>5, <1>6 DEF CycleRun

LEMMA OutsideType ==
    ASSUME TypeOK, Clients \/ Processes
    PROVE  TypeOK'
<1>1. ASSUME NEW j \in Jobs, Submit(j) \/ MakeDir(j)
      PROVE  TypeOK'
  <2>1. CASE Submit(j)
    <3>1. wake' \in BOOLEAN
      BY <2>1 DEF Submit
    <3> QED
      BY <2>1, <3>1 DEF Submit, TypeOK, sidecars
  <2>2. CASE MakeDir(j)
    BY <2>2 DEF MakeDir, TypeOK, process, sidecars
  <2> QED
    BY <1>1, <2>1, <2>2
<1>2. ASSUME NEW s \in Sidecars, Exit(s) \/ Timeout(s) \/ OrphanExit \/ StartPreflight
      PROVE  TypeOK'
  <2>1. CASE Exit(s)
    BY <2>1 DEF Exit, TypeOK, stored, process
  <2>2. CASE OrphanExit
    BY <2>2 DEF OrphanExit, TypeOK, stored, process
  <2>3. CASE Timeout(s)
    BY <2>3 DEF Timeout, Owner, TypeOK, stored, sidecars
  <2>4. CASE StartPreflight
    BY <2>4, SidecarNames DEF StartPreflight, TypeOK, stored, process
  <2> QED
    BY <1>2, <2>1, <2>2, <2>3, <2>4
<1>3. ASSUME NEW r \in Requests, NEW id \in Laned, Ask(r, id)
      PROVE  TypeOK'
  <2>1. id \in 0..MaxJobs
    BY JobsAssumption DEF JobsAssumption, Laned, Jobs, Cycle
  <2> QED
    BY <1>3, <2>1 DEF Ask, TypeOK, Answers, stored, process, sidecars
<1>4. ASSUME NEW r \in Requests, CancelQueued(r) \/ CancelRunning(r)
      PROVE  TypeOK'
  <2>1. CASE CancelQueued(r)
    BY <2>1, JobsAssumption
       DEF CancelQueued, JobsAssumption, Answer, Answers, Fault, Terminal, Queued, TypeOK,
           process, sidecars
  <2>2. CASE CancelRunning(r)
    BY <2>2 DEF CancelRunning, Answer, Answers, Kill, TypeOK, stored, sidecars
  <2> QED
    BY <1>4, <2>1, <2>2
<1> QED
  BY <1>1, <1>2, <1>3, <1>4, SidecarNames DEF Clients, Processes

(* The life of the orchestrator. *)
LEMMA LifeType ==
    ASSUME TypeOK, Stop \/ Die \/ Boot
    PROVE  TypeOK'
<1>0. JobsAssumption
  BY JobsAssumption
<1>1. CASE Stop
  BY <1>1 DEF Stop, TypeOK, stored, sidecars
<1>2. CASE Die
  <2>1. child' \in [Sidecars -> {"none", "up", "ok", "bad"}]
    BY <1>2 DEF Die, TypeOK
  <2>7. orphans' \subseteq Sidecars \X (1..MaxCrashes)
    <3>1. crashes \in 0..MaxCrashes /\ crashes < MaxCrashes
      BY <1>2 DEF Die, TypeOK
    <3>2. crashes + 1 \in 1..MaxCrashes
      BY <1>0, <3>1 DEF JobsAssumption
    <3> QED
      BY <1>2, <3>2 DEF Die, TypeOK, Alive
  <2>2. req' \in [Requests -> [at : {"off", "store", "mutex", "told"},
                               id : 0..MaxJobs, answer : Answers]]
    BY <1>2 DEF Die, TypeOK, Answers
  <2>3. wake' \in BOOLEAN
    BY <1>2 DEF Die, Fresh
  <2>4. crashes' \in 0..MaxCrashes
    <3>1. crashes \in 0..MaxCrashes /\ crashes < MaxCrashes /\ crashes' = crashes + 1
      BY <1>2 DEF Die, TypeOK
    <3> QED
      BY <1>0, <3>1 DEF JobsAssumption
  <2>5. phase' = "down" /\ Fresh /\ UNCHANGED <<stored, strays, starts, faults>>
    BY <1>2 DEF Die
  <2>6. 0 \in 0..MaxJobs
    BY <1>0 DEF JobsAssumption
  <2> QED
    BY <2>1, <2>2, <2>3, <2>4, <2>5, <2>6, <2>7 DEF Fresh, TypeOK, stored
<1>3. CASE Boot
  BY <1>0, <1>3 DEF Boot, FailOrphans, Terminal, Fault, TypeOK, JobsAssumption
<1> QED
  BY <1>1, <1>2, <1>3

(* The variables hold values of their types, for any number of jobs, crashes *)
(* and failed store calls.                                                   *)
THEOREM TypeCorrect == Spec => []TypeOK
<1>1. Init => TypeOK
  <2> SUFFICES ASSUME Init PROVE TypeOK
    OBVIOUS
  <2>1. wake \in BOOLEAN
    BY DEF Init
  <2>2. 0 \in 0..MaxJobs /\ 0 \in 0..MaxCrashes /\ 0 \in 0..MaxFaults
    BY JobsAssumption DEF JobsAssumption
  <2>3. req \in [Requests -> [at : {"off", "store", "mutex", "told"},
                              id : 0..MaxJobs, answer : Answers]]
    BY <2>2 DEF Init, Answers
  <2> QED
    BY <2>1, <2>2, <2>3 DEF Init, TypeOK
<1>2. TypeOK /\ [Next]_vars => TypeOK'
  <2> SUFFICES ASSUME TypeOK, [Next]_vars PROVE TypeOK'
    OBVIOUS
  <2>1. CASE UNCHANGED vars
    BY <2>1 DEF TypeOK, vars, stored, process, sidecars
  <2> QED
    BY <2>1, RunnerType, CycleType, OutsideType, LifeType DEF Next
<1> QED
  BY <1>1, <1>2, PTL DEF Spec

-----------------------------------------------------------------------------
(* The inductive invariant. *)

(* Where the runner holds the lane, has a cancel target, has its row running. *)
Busy == {"holding", "registered", "marked", "executing", "executed", "swept", "leaving", "cleared"}
Targeted == {"registered", "marked", "executing", "executed", "swept", "leaving"}
Engaged == {"marked", "executing", "executed", "swept"}

(* The lane and the cancel target belong to whoever runs. *)
LaneHeld ==
    /\ lane = "job" <=> runner \in Busy
    /\ lane = "cycle" <=> cycle # "off"
    /\ runner \in Busy \cup {"acquire", "waiting"} => cur \in Jobs
    /\ runner \in Targeted => runningID = cur /\ cancelFn = "job"
    /\ phase = "down" => runner = "idle" /\ cycle = "off"

(* A sidecar of this orchestrator is alive only while its owner waits for it, *)
(* and each orchestrator that has ended left one of the lane at most.         *)
Attended ==
    /\ \A j \in Jobs : child[j] = "up" => runner = "executing" /\ cur = j
    /\ child[Cycle] = "up" => cycle = "executing"
    /\ \A o \in orphans : o[2] <= crashes
    /\ \A o, q \in orphans : {o[1], q[1]} \subseteq Laned /\ o[2] = q[2] => o = q

(* A sidecar is started for a running row that had none. *)
StartedOnce ==
    /\ \A j \in Jobs : starts[j] <= 1
    /\ \A j \in Jobs : row[j] \in {"absent", "queued"} => starts[j] = 0
    /\ runner \in Engaged => row[cur] = "running"
    /\ runner = "marked" => starts[cur] = 0

(* Restore directories belong to running rows or to strays, among them every *)
(* sidecar that survived the last boot, and the swept row has none.          *)
Tidy ==
    /\ Up => \A j \in dirs : row[j] = "running" \/ j \in strays
    /\ Up => \A j \in Jobs : Outlived(j) => j \in strays
    /\ runner = "swept" => cur \notin dirs \/ cur \in strays

(* A result of success, and a context that was canceled, have their reason. *)
Killed(j) ==
    \/ \E r \in Requests : req[r].id = j /\ req[r].answer = "canceled"
    \/ phase = "stopping" \/ crashes > 0

Reasoned ==
    /\ runner \in {"executed", "swept"} /\ result = "ok" => child[cur] = "ok"
    /\ \A j \in Jobs : row[j] = "succeeded" => child[j] = "ok"
    /\ runner \in Targeted /\ ctx["job"] = "canceled" => Killed(cur)
    /\ \A j \in Jobs : row[j] = "canceled" /\ starts[j] > 0 => Killed(j)

(* Without store errors a running row is the runner's, and requests that have *)
(* passed the store have seen their job past the queue.                       *)
Sound ==
    faults = 0 =>
        /\ Up => \A j \in Jobs : row[j] = "running" => runner \in Engaged /\ cur = j
        /\ \A j, k \in Jobs : row[j] = "running" /\ row[k] = "running" => j = k

Asked ==
    \A r \in Requests :
        /\ req[r].at # "told" => req[r].answer = "none"
        /\ req[r].id \in Jobs =>
              /\ req[r].at = "store" => row[req[r].id] # "absent"
              /\ req[r].at = "mutex" => row[req[r].id] \notin {"absent", "queued"}
              /\ faults = 0 /\ req[r].answer = "refused" => row[req[r].id] \in Terminal

IInv == TypeOK /\ LaneHeld /\ Attended /\ StartedOnce /\ Tidy /\ Reasoned /\ Sound /\ Asked

-----------------------------------------------------------------------------
(* The lane. *)

control == <<phase, lane, runner, cur, cycle, runningID, cancelFn>>

LEMMA OutsideFrame ==
    ASSUME Clients \/ Processes
    PROVE  UNCHANGED control
BY DEF control, Clients, Processes, Submit, StartPreflight, MakeDir, Exit, OrphanExit, Timeout, Ask,
       CancelQueued, CancelRunning, process

LEMMA LaneStep ==
    ASSUME TypeOK, LaneHeld, Next
    PROVE  LaneHeld'
<1> USE DEF LaneHeld, Busy, Targeted
<1>1. CASE Clients \/ Processes
  BY <1>1, OutsideFrame DEF control, Up
<1>2. CASE Runner
  <2>1. CASE Wake
    BY <2>1 DEF Wake, At, Go, Up
  <2>2. CASE NextQueued
    BY <2>2 DEF NextQueued, At, Go, Up, Queued
  <2>3. CASE Acquire
    BY <2>3 DEF Acquire, At, Go, Up
  <2>4. CASE GiveUp
    BY <2>4 DEF GiveUp, Go
  <2>5. CASE Register
    BY <2>5 DEF Register, At, Go, Up
  <2>6. CASE MarkRunning
    BY <2>6 DEF MarkRunning, At, Go, Up
  <2>7. CASE StartSidecar
    BY <2>7 DEF StartSidecar, At, Go, Up
  <2>8. CASE Wait
    BY <2>8 DEF Wait, At, Go, Up
  <2>9. CASE Sweep
    BY <2>9 DEF Sweep, At, Go, Up
  <2>10. CASE Finish
    BY <2>10 DEF Finish, At, Go, Up
  <2>11. CASE ClearTarget
    BY <2>11 DEF ClearTarget, At, Go, Up
  <2>12. CASE FreeLane
    BY <2>12 DEF FreeLane, At, Go, Up
  <2> QED
    BY <1>2, <2>1, <2>2, <2>3, <2>4, <2>5, <2>6, <2>7, <2>8, <2>9, <2>10, <2>11, <2>12 DEF Runner
<1>3. CASE CycleTry
  BY <1>3 DEF CycleTry, Up
<1>4. CASE CycleRun
  <2>1. CASE CycleStart
    BY <2>1 DEF CycleStart, Up
  <2>2. CASE CycleExec
    BY <2>2 DEF CycleExec, Up
  <2>3. CASE CycleWait
    BY <2>3 DEF CycleWait, Up
  <2>4. CASE CycleClear
    BY <2>4 DEF CycleClear, Up
  <2>5. CASE CycleFree
    BY <2>5 DEF CycleFree, Handover, Go, Up
  <2> QED
    BY <1>4, <2>1, <2>2, <2>3, <2>4, <2>5 DEF CycleRun
<1>5. CASE Stop
  BY <1>5 DEF Stop
<1>6. CASE Die
  BY <1>6 DEF Die, Fresh
<1>7. CASE Boot
  BY <1>7 DEF Boot
<1> QED
  BY <1>1, <1>2, <1>3, <1>4, <1>5, <1>6, <1>7 DEF Next

-----------------------------------------------------------------------------
(* Sidecars have an owner that waits for them. *)

(* An orchestrator runs one sidecar of its lane at a time. *)
LEMMA OneChild ==
    ASSUME LaneHeld, Attended
    PROVE  \A s, t \in Laned \cap Alive : s = t
<1> SUFFICES ASSUME NEW s \in Laned, NEW t \in Laned, child[s] = "up", child[t] = "up"
             PROVE  s = t
  BY DEF Alive
<1>1. runner = "executing" => cycle # "executing"
  BY DEF LaneHeld, Busy
<1> QED
  BY <1>1 DEF Attended, Laned

LEMMA AttendedStep ==
    ASSUME TypeOK, LaneHeld, Attended, Next
    PROVE  Attended'
<1>0. /\ Cycle \notin Jobs /\ Jobs \subseteq Sidecars /\ Cycle \in Sidecars
      /\ Preflight \notin Jobs /\ Preflight # Cycle
      /\ child \in [Sidecars -> {"none", "up", "ok", "bad"}]
      /\ orphans \subseteq Sidecars \X (1..MaxCrashes) /\ crashes \in Nat
  BY SidecarNames DEF TypeOK
<1>1. CASE Clients
  BY <1>1, OutsideFrame
     DEF Attended, control, Clients, Submit, Ask, CancelQueued, CancelRunning, process, sidecars
<1>2. CASE Processes
  <2>1. UNCHANGED control /\ crashes' = crashes
    BY <1>2, OutsideFrame
       DEF Processes, StartPreflight, MakeDir, Exit, OrphanExit, Timeout
  <2>2. \A s \in Sidecars : child'[s] = "up" => child[s] = "up" \/ s = Preflight
    BY <1>0, <1>2
       DEF Processes, StartPreflight, MakeDir, Exit, OrphanExit, Timeout, sidecars
  <2>3. orphans' \subseteq orphans
    BY <1>2 DEF Processes, StartPreflight, MakeDir, Exit, OrphanExit, Timeout, sidecars
  <2> QED
    BY <1>0, <2>1, <2>2, <2>3 DEF Attended, control
<1>3. CASE Runner
  <2>1. CASE StartSidecar
    <3>1. cur \in Jobs
      BY <2>1 DEF LaneHeld, Busy, StartSidecar, At
    <3> QED
      BY <1>0, <2>1, <3>1 DEF StartSidecar, Attended, At, Go
  <2>2. CASE Wait
    BY <1>0, <2>2 DEF Wait, Attended, At, Go, sidecars
  <2>3. CASE Wake \/ NextQueued \/ Acquire \/ GiveUp \/ Register \/ MarkRunning
             \/ Sweep \/ Finish \/ ClearTarget \/ FreeLane
    <3>1. UNCHANGED <<sidecars, cycle, crashes>> /\ runner # "executing"
      BY <2>3 DEF Wake, NextQueued, Acquire, GiveUp, Register, MarkRunning, Sweep, Finish,
                  ClearTarget, FreeLane, At
    <3> QED
      BY <3>1 DEF Attended, sidecars
  <2> QED
    BY <1>3, <2>1, <2>2, <2>3 DEF Runner
<1>4. CASE CycleTry
  BY <1>4 DEF CycleTry, Attended, sidecars
<1>5. CASE CycleRun
  <2>1. CASE CycleExec
    BY <1>0, <2>1 DEF CycleExec, Attended
  <2>2. CASE CycleWait
    BY <1>0, <2>2 DEF CycleWait, Attended
  <2>3. CASE CycleStart \/ CycleClear
    BY <2>3 DEF CycleStart, CycleClear, Attended, sidecars
  <2>4. CASE CycleFree
    BY <2>4 DEF CycleFree, Handover, Go, Attended, sidecars
  <2> QED
    BY <1>5, <2>1, <2>2, <2>3, <2>4 DEF CycleRun
<1>6. CASE Stop
  BY <1>6 DEF Stop, Attended, sidecars
<1>7. CASE Die
  <2>1. \A s \in Sidecars : child'[s] # "up"
    BY <1>0, <1>7 DEF Die, Alive
  <2>2. PICK survivors \in SUBSET Alive : orphans' = orphans \cup (survivors \X {crashes + 1})
    BY <1>7 DEF Die
  <2>3. crashes' = crashes + 1 /\ \A o \in orphans : o[2] <= crashes /\ o[2] \in Nat
    <3>1. crashes' = crashes + 1
      BY <1>7 DEF Die
    <3>2. \A o \in orphans : o[2] \in 1..MaxCrashes
      BY <1>0
    <3> QED
      BY <3>1, <3>2 DEF Attended
  <2>4. ASSUME NEW o \in survivors \X {crashes + 1}
        PROVE  o[1] \in Alive /\ o[2] = crashes + 1 /\ o = <<o[1], o[2]>>
    BY <2>2
  <2>5. \A o \in orphans' : o[2] <= crashes'
    BY <1>0, <2>2, <2>3, <2>4
  <2>6. ASSUME NEW o \in orphans', NEW q \in orphans',
               {o[1], q[1]} \subseteq Laned, o[2] = q[2]
        PROVE  o = q
    <3>1. CASE o \in orphans /\ q \in orphans
      BY <2>6, <3>1 DEF Attended
    <3>2. CASE o \in survivors \X {crashes + 1} /\ q \in survivors \X {crashes + 1}
      <4>1. o[1] = q[1]
        BY <2>4, <2>6, <3>2, OneChild
      <4> QED
        BY <2>4, <3>2, <4>1
    <3>3. CASE o \in orphans /\ q \in survivors \X {crashes + 1}
      BY <1>0, <2>3, <2>4, <2>6, <3>3
    <3>4. CASE q \in orphans /\ o \in survivors \X {crashes + 1}
      BY <1>0, <2>3, <2>4, <2>6, <3>4
    <3> QED
      BY <2>2, <3>1, <3>2, <3>3, <3>4
  <2> QED
    BY <1>0, <2>1, <2>5, <2>6 DEF Attended
<1>8. CASE Boot
  BY <1>8 DEF Boot, Attended
<1> QED
  BY <1>1, <1>2, <1>3, <1>4, <1>5, <1>6, <1>7, <1>8 DEF Next

-----------------------------------------------------------------------------
(* Rows. *)

(* Rows go forward: an outcome stays, and only a step of the runner or a boot *)
(* takes a row out of the state running.                                      *)
LEMMA RowForward ==
    ASSUME TypeOK, Next, NEW j \in Jobs
    PROVE  /\ row[j] \in Terminal => row'[j] = row[j]
           /\ row'[j] = "absent" => row[j] = "absent"
           /\ row'[j] = "queued" => row[j] \in {"absent", "queued"}
           /\ row[j] = "running" => row'[j] \in {"running"} \cup Terminal
<1>0. row \in [Jobs -> {"absent", "queued", "running"} \cup Terminal]
  BY DEF TypeOK
<1>1. CASE row' = row
  BY <1>0, <1>1 DEF Terminal
<1>2. CASE MarkRunning
  BY <1>0, <1>2 DEF MarkRunning, SetRow, Terminal
<1>3. CASE Finish
  BY <1>0, <1>3 DEF Finish, Outcome, SetRow, Terminal
<1>4. CASE Clients
  BY <1>0, <1>4 DEF Clients, Submit, Ask, CancelQueued, CancelRunning, Queued, Terminal, stored
<1>5. CASE Boot
  BY <1>0, <1>5 DEF Boot, FailOrphans, Terminal
<1>6. CASE Runner
  BY <1>1, <1>2, <1>3, <1>6
     DEF Runner, Wake, NextQueued, Acquire, GiveUp, Register, StartSidecar, Wait, Sweep,
         ClearTarget, FreeLane, stored
<1>7. CASE CycleTry \/ CycleRun \/ Processes \/ Stop \/ Die
  BY <1>1, <1>7
     DEF CycleTry, CycleRun, CycleStart, CycleExec, CycleWait, CycleClear, CycleFree, Processes,
         StartPreflight, MakeDir, Exit, OrphanExit, Timeout, Stop, Die, stored
<1> QED
  BY <1>4, <1>5, <1>6, <1>7 DEF Next

LEMMA StartedStep ==
    ASSUME TypeOK, LaneHeld, StartedOnce, Next
    PROVE  StartedOnce'
<1>0. /\ row \in [Jobs -> {"absent", "queued", "running"} \cup Terminal]
      /\ starts \in [Jobs -> Nat] /\ cur \in 0..MaxJobs
      /\ runner \in Busy => cur \in Jobs
  BY DEF TypeOK, LaneHeld
<1> USE DEF Engaged
<1>1. CASE Runner
  <2>1. CASE StartSidecar
    <3>1. cur \in Jobs /\ runner = "marked" /\ UNCHANGED <<row, cur>>
      BY <1>0, <2>1 DEF StartSidecar, Busy, At, stored
    <3> QED
      BY <1>0, <2>1, <3>1 DEF StartSidecar, StartedOnce, Go
  <2>2. CASE MarkRunning
    <3>1. cur \in Jobs /\ UNCHANGED <<starts, cur>>
      BY <1>0, <2>2 DEF MarkRunning, Busy, At, sidecars
    <3> QED
      BY <1>0, <2>2, <3>1 DEF MarkRunning, SetRow, StartedOnce, Go, Terminal
  <2>3. CASE Finish
    <3>1. cur \in Jobs /\ runner = "swept" /\ runner' = "leaving" /\ UNCHANGED <<starts, cur>>
      BY <1>0, <2>3 DEF Finish, Busy, At, Go, sidecars
    <3> QED
      BY <1>0, <2>3, <3>1 DEF Finish, SetRow, Outcome, StartedOnce
  <2>4. CASE Wait \/ Sweep
    BY <2>4 DEF Wait, Sweep, StartedOnce, At, Go, stored, sidecars
  <2>5. CASE Wake \/ NextQueued \/ Acquire \/ GiveUp \/ Register \/ ClearTarget \/ FreeLane
    <3>1. UNCHANGED <<row, starts>> /\ runner' \notin Engaged
      BY <2>5 DEF Wake, NextQueued, Acquire, GiveUp, Register, ClearTarget, FreeLane, Go,
                  stored, sidecars
    <3> QED
      BY <3>1 DEF StartedOnce
  <2> QED
    BY <1>1, <2>1, <2>2, <2>3, <2>4, <2>5 DEF Runner
<1>2. CASE Clients
  <2>1. UNCHANGED <<runner, cur, starts>>
    BY <1>2, OutsideFrame DEF control, Clients, Submit, Ask, CancelQueued, CancelRunning, sidecars
  <2>2. \A j \in Jobs : \/ row'[j] = row[j]
                        \/ row[j] \in {"absent", "queued"}
    BY <1>0, <1>2 DEF Clients, Submit, Ask, CancelQueued, CancelRunning, Queued, stored
  <2>3. runner \in Engaged => cur \in Jobs
    BY <1>0 DEF Busy
  <2>4. \A j \in Jobs : row'[j] \in {"absent", "queued"} => row[j] \in {"absent", "queued"}
    BY <1>2, RowForward DEF Next
  <2> QED
    BY <2>1, <2>2, <2>3, <2>4 DEF StartedOnce
<1>3. CASE CycleTry \/ CycleRun \/ Processes
  <2>1. UNCHANGED <<row, starts, cur>> /\ (runner' = runner \/ runner' = "holding")
    BY <1>3 DEF CycleTry, CycleRun, CycleStart, CycleExec, CycleWait, CycleClear, CycleFree,
                Handover, Go, Processes, StartPreflight, MakeDir, Exit, OrphanExit, Timeout, stored, sidecars,
                process
  <2> QED
    BY <2>1 DEF StartedOnce
<1>4. CASE Stop
  BY <1>4 DEF Stop, StartedOnce, stored, sidecars
<1>5. CASE Die
  BY <1>5 DEF Die, Fresh, StartedOnce, stored
<1>6. CASE Boot
  <2>1. runner' = "idle" /\ starts' = starts
    BY <1>6 DEF Boot, LaneHeld
  <2>2. \A j \in Jobs : row'[j] \in {"absent", "queued"} => row[j] \in {"absent", "queued"}
    BY <1>6, RowForward DEF Next
  <2> QED
    BY <2>1, <2>2 DEF StartedOnce
<1> QED
  BY <1>1, <1>2, <1>3, <1>4, <1>5, <1>6 DEF Next

-----------------------------------------------------------------------------
(* Restore directories. *)

LEMMA TidyStep ==
    ASSUME TypeOK, LaneHeld, Attended, StartedOnce, Tidy, Next
    PROVE  Tidy'
<1> SUFFICES /\ Up' => \A j \in dirs' : row'[j] = "running" \/ j \in strays'
             /\ Up' => \A j \in Jobs : Outlived(j)' => j \in strays'
             /\ runner' = "swept" => cur' \notin dirs' \/ cur' \in strays'
  BY DEF Tidy
<1>0. /\ row \in [Jobs -> {"absent", "queued", "running"} \cup Terminal] /\ dirs \subseteq Jobs
      /\ Up => \A j \in dirs : row[j] = "running" \/ j \in strays
      /\ Up => \A j \in Jobs : Outlived(j) => j \in strays
      /\ runner = "swept" => cur \notin dirs \/ cur \in strays
      /\ runner \in Busy => cur \in Jobs
  BY DEF TypeOK, Tidy, LaneHeld
<1>1. CASE Finish
  <2>1. runner = "swept" /\ runner' = "leaving" /\ cur \in Jobs /\ dirs' = dirs /\ Up
        /\ UNCHANGED <<strays, orphans>>
    BY <1>0, <1>1 DEF Finish, At, Go, Busy, sidecars
  <2>2. \A j \in Jobs : j # cur => row'[j] = row[j]
    BY <1>0, <1>1 DEF Finish, SetRow
  <2> QED
    BY <1>0, <2>1, <2>2 DEF Outlived
<1>2. CASE Sweep
  BY <1>0, <1>2 DEF Sweep, At, Go, Up, Outlived, sidecars
<1>3. CASE MarkRunning
  <2>1. Up /\ runner' # "swept" /\ dirs' = dirs /\ UNCHANGED <<strays, orphans>>
    BY <1>3 DEF MarkRunning, At, Go, sidecars
  <2>2. \A j \in Jobs : row[j] = "running" => row'[j] = "running"
    BY <1>0, <1>3 DEF MarkRunning, SetRow
  <2> QED
    BY <1>0, <2>1, <2>2 DEF Outlived
<1>4. CASE Runner
  <2>1. CASE Wake \/ NextQueued \/ Acquire \/ GiveUp \/ Register \/ StartSidecar \/ Wait
             \/ ClearTarget \/ FreeLane
    <3>1. UNCHANGED <<row, dirs, phase, strays, orphans>> /\ runner' # "swept"
      BY <2>1 DEF Wake, NextQueued, Acquire, GiveUp, Register, StartSidecar, Wait, ClearTarget,
                  FreeLane, Go, stored, sidecars
    <3> QED
      BY <1>0, <3>1 DEF Up, Outlived
  <2> QED
    BY <1>1, <1>2, <1>3, <1>4, <2>1 DEF Runner
<1>5. CASE Clients
  <2>1. UNCHANGED <<control, dirs, strays, orphans>>
    BY <1>5, OutsideFrame
       DEF Clients, Submit, Ask, CancelQueued, CancelRunning, stored, sidecars
  <2>2. \A j \in Jobs : row[j] = "running" => row'[j] = "running"
    BY <1>0, <1>5 DEF Clients, Submit, Ask, CancelQueued, CancelRunning, Queued, stored
  <2> QED
    BY <1>0, <2>1, <2>2 DEF control, Up, Outlived
<1>6. CASE Processes
  <2>1. UNCHANGED <<control, row, strays>> /\ orphans' \subseteq orphans
    BY <1>6, OutsideFrame
       DEF Processes, StartPreflight, MakeDir, Exit, OrphanExit, Timeout, stored, sidecars
  <2>2. \A j \in dirs' : j \in dirs \/ (j \in Jobs /\ (child[j] = "up" \/ Outlived(j)))
    BY <1>0, <1>6 DEF Processes, StartPreflight, MakeDir, Exit, OrphanExit, Timeout, stored
  <2>3. \A j \in Jobs : child[j] = "up" => runner = "executing" /\ row[j] = "running"
    BY DEF Attended, StartedOnce, Engaged
  <2>4. \A j \in Jobs : Outlived(j)' => Outlived(j)
    BY <2>1 DEF Outlived
  <2>5. runner = "swept" /\ Up => cur \notin dirs' \/ cur \in strays
    BY <1>0, <2>2, <2>3 DEF Busy
  <2>6. runner = "swept" => Up
    BY DEF LaneHeld, Up
  <2> QED
    BY <1>0, <2>1, <2>2, <2>3, <2>4, <2>5, <2>6 DEF control, Up
<1>7. CASE CycleTry \/ CycleRun
  <2>1. UNCHANGED <<row, dirs, phase, cur, strays, orphans>>
        /\ (runner' = runner \/ runner' = "holding")
    BY <1>7 DEF CycleTry, CycleRun, CycleStart, CycleExec, CycleWait, CycleClear, CycleFree,
                Handover, Go, stored, sidecars
  <2> QED
    BY <1>0, <2>1 DEF Up, Outlived
<1>8. CASE Stop
  BY <1>0, <1>8 DEF Stop, Up, Outlived, stored, sidecars
<1>9. CASE Die
  BY <1>9 DEF Die, Fresh, Up
<1>10. CASE Boot
  <2>1. dirs' = {} /\ runner' # "swept" /\ orphans' = orphans
        /\ strays' = {j \in Jobs : Outlived(j)}
    BY <1>10 DEF Boot, LaneHeld
  <2> QED
    BY <2>1 DEF Outlived
<1> QED
  BY <1>4, <1>5, <1>6, <1>7, <1>8, <1>9, <1>10 DEF Next

-----------------------------------------------------------------------------
(* Cancel requests. *)

(* Store errors are counted, so a step that leaves none behind had none. *)
LEMMA NoFaultYet ==
    ASSUME TypeOK, Next, faults' = 0
    PROVE  faults = 0
<1>1. faults \in Nat
  BY DEF TypeOK
<1>2. faults' = faults \/ faults' = faults + 1
  <2>1. CASE Runner
    BY <2>1 DEF Runner, Wake, NextQueued, Acquire, GiveUp, Register, MarkRunning, StartSidecar,
                Wait, Sweep, Finish, ClearTarget, FreeLane, Fault
  <2>2. CASE CycleTry \/ CycleRun
    BY <2>2 DEF CycleTry, CycleRun, CycleStart, CycleExec, CycleWait, CycleClear, CycleFree
  <2>3. CASE Clients
    BY <2>3 DEF Clients, Submit, Ask, CancelQueued, CancelRunning, Fault
  <2>4. CASE Processes
    BY <2>4 DEF Processes, StartPreflight, MakeDir, Exit, OrphanExit, Timeout
  <2>5. CASE Stop \/ Die \/ Boot
    BY <2>5 DEF Stop, Die, Boot, Fault
  <2> QED
    BY <2>1, <2>2, <2>3, <2>4, <2>5 DEF Next
<1> QED
  BY <1>1, <1>2

LEMMA AskedStep ==
    ASSUME TypeOK, LaneHeld, Sound, Asked, Next
    PROVE  Asked'
<1>0. /\ req \in [Requests -> [at : {"off", "store", "mutex", "told"},
                               id : 0..MaxJobs, answer : Answers]]
      /\ row \in [Jobs -> {"absent", "queued", "running"} \cup Terminal]
      /\ faults' = 0 => faults = 0
      /\ \A j \in Jobs : /\ row[j] \in Terminal => row'[j] = row[j]
                         /\ row'[j] = "absent" => row[j] = "absent"
                         /\ row'[j] = "queued" => row[j] \in {"absent", "queued"}
  BY RowForward, NoFaultYet DEF TypeOK
<1>1. CASE req' = req
  BY <1>0, <1>1 DEF Asked
<1>2. ASSUME NEW r \in Requests, NEW id \in Laned, Ask(r, id)
      PROVE  Asked'
  BY <1>0, <1>2 DEF Asked, Ask, stored
<1>3. ASSUME NEW r \in Requests, CancelQueued(r)
      PROVE  Asked'
  BY <1>0, <1>3 DEF Asked, CancelQueued, Answer, Queued, Fault
<1>4. ASSUME NEW r \in Requests, CancelRunning(r)
      PROVE  Asked'
  BY <1>0, <1>4 DEF Asked, CancelRunning, Answer, LaneHeld, Sound, Engaged, Targeted, stored
<1>5. CASE Die
  <2>1. \A r \in Requests :
          \/ req'[r] = req[r] /\ req[r].at \notin {"store", "mutex"}
          \/ req'[r].at = "told" /\ req'[r].id = req[r].id /\ req'[r].answer = "error"
    BY <1>0, <1>5 DEF Die
  <2> QED
    BY <1>0, <2>1 DEF Asked
<1>6. CASE Runner \/ CycleTry \/ CycleRun \/ Processes \/ Stop \/ Boot
  <2>1. req' = req
    BY <1>6
       DEF Runner, Wake, NextQueued, Acquire, GiveUp, Register, MarkRunning, StartSidecar, Wait,
           Sweep, Finish, ClearTarget, FreeLane, CycleTry, CycleRun, CycleStart, CycleExec,
           CycleWait, CycleClear, CycleFree, Processes, StartPreflight, MakeDir, Exit, OrphanExit, Timeout,
           Stop, Boot
  <2> QED
    BY <1>1, <2>1
<1>7. CASE Clients
  <2>1. ASSUME NEW j \in Jobs, Submit(j)
        PROVE  req' = req
    BY <2>1 DEF Submit
  <2> QED
    BY <1>1, <1>2, <1>3, <1>4, <1>7, <2>1 DEF Clients
<1> QED
  BY <1>5, <1>6, <1>7 DEF Next

-----------------------------------------------------------------------------
(* Without store errors. *)

LEMMA SoundStep ==
    ASSUME TypeOK, LaneHeld, StartedOnce, Sound, Next
    PROVE  Sound'
<1> SUFFICES ASSUME faults' = 0
             PROVE  /\ Up' => \A j \in Jobs :
                                  row'[j] = "running" => runner' \in Engaged /\ cur' = j
                    /\ \A j, k \in Jobs : row'[j] = "running" /\ row'[k] = "running" => j = k
  BY DEF Sound
<1>0. /\ faults = 0 /\ faults' # faults + 1
      /\ row \in [Jobs -> {"absent", "queued", "running"} \cup Terminal]
      /\ Up => \A j \in Jobs : row[j] = "running" => runner \in Engaged /\ cur = j
      /\ \A j, k \in Jobs : row[j] = "running" /\ row[k] = "running" => j = k
      /\ runner \in Busy => cur \in Jobs
  BY NoFaultYet DEF Sound, TypeOK, LaneHeld
<1> USE DEF Engaged
<1>1. CASE MarkRunning
  <2>1. Up /\ runner = "registered" /\ cur' = cur /\ cur \in Jobs
    BY <1>0, <1>1 DEF MarkRunning, At, Busy
  <2>2. \A j \in Jobs : row[j] # "running"
    BY <1>0, <2>1
  <2>3. \/ row' = row
        \/ row' = [row EXCEPT ![cur] = "running"] /\ runner' = "marked"
    BY <1>0, <1>1 DEF MarkRunning, SetRow, Fault, Go
  <2> QED
    BY <1>0, <2>1, <2>2, <2>3
<1>2. CASE Finish
  <2>1. Up /\ runner = "swept" /\ cur' = cur /\ cur \in Jobs /\ row[cur] = "running"
    BY <1>0, <1>2 DEF Finish, At, Busy, StartedOnce
  <2>2. \A j \in Jobs : row'[j] # "running"
    BY <1>0, <1>2, <2>1 DEF Finish, SetRow, Outcome, Fault
  <2> QED
    BY <2>2
<1>3. CASE StartSidecar \/ Wait \/ Sweep
  <2>1. UNCHANGED <<row, phase, cur>> /\ runner' \in Engaged
    BY <1>3 DEF StartSidecar, Wait, Sweep, Go, stored
  <2> QED
    BY <1>0, <2>1 DEF Up
<1>4. CASE Wake \/ NextQueued \/ Acquire \/ GiveUp \/ Register \/ ClearTarget \/ FreeLane
  <2>1. UNCHANGED <<row, phase>> /\ runner \notin Engaged /\ Up
    BY <1>4 DEF Wake, NextQueued, Acquire, GiveUp, Register, ClearTarget, FreeLane, At, Up, stored
  <2> QED
    BY <1>0, <2>1 DEF Up
<1>5. CASE Clients
  <2>1. UNCHANGED control
    BY <1>5, OutsideFrame
  <2>2. \A j \in Jobs : row'[j] = "running" => row[j] = "running"
    BY <1>0, <1>5 DEF Clients, Submit, Ask, CancelQueued, CancelRunning, Queued, stored
  <2> QED
    BY <1>0, <2>1, <2>2 DEF control, Up
<1>6. CASE Processes
  <2>1. UNCHANGED <<control, row>>
    BY <1>6, OutsideFrame DEF Processes, StartPreflight, MakeDir, Exit, OrphanExit, Timeout, stored
  <2> QED
    BY <1>0, <2>1 DEF control, Up
<1>7. CASE CycleTry \/ CycleRun
  <2>1. /\ UNCHANGED <<row, phase, cur>> /\ Up
        /\ runner' = runner \/ (runner = "waiting" /\ runner' = "holding")
    BY <1>7 DEF CycleTry, CycleRun, CycleStart, CycleExec, CycleWait, CycleClear, CycleFree,
                Handover, Go, stored
  <2> QED
    BY <1>0, <2>1 DEF Up
<1>8. CASE Stop
  BY <1>0, <1>8 DEF Stop, Up, stored
<1>9. CASE Die
  BY <1>0, <1>9 DEF Die, Fresh, Up, stored
<1>10. CASE Boot
  <2>1. \A j \in Jobs : row'[j] # "running"
    BY <1>0, <1>10 DEF Boot, FailOrphans, Fault
  <2> QED
    BY <2>1
<1> QED
  BY <1>1, <1>2, <1>3, <1>4, <1>5, <1>6, <1>7, <1>8, <1>9, <1>10 DEF Next, Runner

-----------------------------------------------------------------------------
(* Reasons. *)

(* What can be said of a reason stays true. *)
LEMMA KilledForever ==
    ASSUME TypeOK, Asked, Next, NEW j \in Jobs, Killed(j)
    PROVE  Killed(j)'
<1>0. /\ req \in [Requests -> [at : {"off", "store", "mutex", "told"},
                               id : 0..MaxJobs, answer : Answers]]
      /\ crashes \in Nat
      /\ \A r \in Requests : req[r].at # "told" => req[r].answer = "none"
  BY DEF TypeOK, Asked
<1>1. CASE req' = req /\ crashes' = crashes /\ (phase = "stopping" => phase' = "stopping")
  BY <1>1 DEF Killed
<1>2. ASSUME NEW r \in Requests,
             (\E id \in Laned : Ask(r, id)) \/ CancelQueued(r) \/ CancelRunning(r)
      PROVE  Killed(j)'
  <2>1. /\ \A q \in Requests \ {r} : req'[q] = req[q]
        /\ req[r].answer = "none"
        /\ crashes' = crashes /\ phase' = phase
    BY <1>0, <1>2 DEF Ask, CancelQueued, CancelRunning, Answer, process
  <2> QED
    BY <2>1 DEF Killed
<1>3. CASE Die
  <2>1. crashes' = crashes + 1
    BY <1>3 DEF Die
  <2>2. crashes' > 0
    BY <1>0, <2>1
  <2> QED
    BY <2>2 DEF Killed
<1>4. CASE Runner \/ CycleTry \/ CycleRun \/ Processes \/ Stop \/ Boot
  <2>1. req' = req /\ crashes' = crashes /\ (phase = "stopping" => phase' = "stopping")
    <3>1. CASE Runner
      BY <3>1
         DEF Runner, Wake, NextQueued, Acquire, GiveUp, Register, MarkRunning, StartSidecar, Wait,
             Sweep, Finish, ClearTarget, FreeLane
    <3>2. CASE CycleTry \/ CycleRun
      BY <3>2 DEF CycleTry, CycleRun, CycleStart, CycleExec, CycleWait, CycleClear, CycleFree
    <3>3. CASE Processes \/ Stop \/ Boot
      BY <3>3 DEF Processes, StartPreflight, MakeDir, Exit, OrphanExit, Timeout, process, Stop, Boot
    <3> QED
      BY <1>4, <3>1, <3>2, <3>3
  <2> QED
    BY <1>1, <2>1
<1>5. CASE Clients
  <2>1. ASSUME NEW i \in Jobs, Submit(i)
        PROVE  Killed(j)'
    BY <1>1, <2>1 DEF Submit
  <2> QED
    BY <1>2, <1>5, <2>1 DEF Clients
<1> QED
  BY <1>3, <1>4, <1>5 DEF Next

(* The exit status of a sidecar stays, but for a row that runs. *)
LEMMA StatusStays ==
    ASSUME TypeOK, LaneHeld, StartedOnce, Next, NEW j \in Jobs, child[j] = "ok"
    PROVE  /\ row[j] # "running" => child'[j] = "ok"
           /\ ~StartSidecar => child'[j] = "ok"
<1>0. /\ child \in [Sidecars -> {"none", "up", "ok", "bad"}]
      /\ j # Cycle /\ j # Preflight /\ j \in Sidecars
  BY SidecarNames DEF TypeOK
<1>1. CASE StartSidecar
  <2>1. row[cur] = "running" /\ cur \in Jobs
    BY <1>1 DEF StartSidecar, At, StartedOnce, Engaged, LaneHeld, Busy
  <2> QED
    BY <1>0, <1>1, <2>1 DEF StartSidecar
<1>2. CASE CycleRun \/ CycleTry
  BY <1>0, <1>2 DEF CycleTry, CycleRun, CycleStart, CycleExec, CycleWait, CycleClear, CycleFree,
                    sidecars
<1>3. CASE Processes
  BY <1>0, <1>3 DEF Processes, StartPreflight, MakeDir, Exit, OrphanExit, Timeout, sidecars
<1>4. CASE Die
  BY <1>0, <1>4 DEF Die, Alive
<1>5. CASE Clients \/ Stop \/ Boot
  BY <1>5 DEF Clients, Submit, Ask, CancelQueued, CancelRunning, Stop, Boot, sidecars
<1>6. CASE Runner /\ ~StartSidecar
  BY <1>6 DEF Runner, Wake, NextQueued, Acquire, GiveUp, Register, MarkRunning, Wait,
              Sweep, Finish, ClearTarget, FreeLane, sidecars
<1> QED
  BY <1>1, <1>2, <1>3, <1>4, <1>5, <1>6 DEF Next

(* A result of success comes from the sidecar of the current job. *)
LEMMA ResultStep ==
    ASSUME TypeOK, LaneHeld, StartedOnce, Reasoned, Next,
           runner' \in {"executed", "swept"}, result' = "ok"
    PROVE  child'[cur'] = "ok"
<1>0. runner \in Busy => cur \in Jobs
  BY DEF LaneHeld
<1>1. CASE Wait
  BY <1>1 DEF Wait, At, sidecars
<1>2. CASE Sweep
  BY <1>2 DEF Sweep, At, Reasoned, sidecars
<1>3. CASE Runner /\ ~Wait /\ ~Sweep
  <2>1. CASE StartSidecar
    BY <2>1 DEF StartSidecar, Go
  <2> QED
    BY <1>3, <2>1 DEF Runner, Wake, NextQueued, Acquire, GiveUp, Register, MarkRunning,
                      Finish, ClearTarget, FreeLane, Go
<1>4. CASE ~Runner
  <2>1. UNCHANGED <<runner, cur, result>>
    <3>1. CASE Clients \/ Processes
      BY <3>1 DEF Clients, Processes, Submit, StartPreflight, MakeDir, Exit, OrphanExit, Timeout, Ask,
                  CancelQueued, CancelRunning, process
    <3>2. CASE CycleTry \/ CycleRun
      BY <3>2 DEF CycleTry, CycleRun, CycleStart, CycleExec, CycleWait, CycleClear, CycleFree,
                  Handover, Go
    <3>3. CASE Stop
      BY <3>3 DEF Stop
    <3>4. CASE Die
      BY <3>4 DEF Die, Fresh
    <3>5. CASE Boot
      BY <3>5 DEF Boot
    <3> QED
      BY <1>4, <3>1, <3>2, <3>3, <3>4, <3>5 DEF Next
  <2>2. child[cur] = "ok" /\ cur \in Jobs
    BY <1>0, <2>1 DEF Reasoned, Busy
  <2>3. ~StartSidecar
    BY <1>4 DEF Runner
  <2> QED
    BY <2>1, <2>2, <2>3, StatusStays
<1> QED
  BY <1>1, <1>2, <1>3, <1>4

(* The context of the current job was canceled for a reason. *)
LEMMA ContextStep ==
    ASSUME TypeOK, LaneHeld, Reasoned, Asked, Next,
           runner' \in Targeted, ctx'["job"] = "canceled"
    PROVE  Killed(cur)'
<1>0. /\ ctx \in [{"job", "cycle"} -> {"live", "canceled", "timedout"}]
      /\ runner \in Targeted => cur \in Jobs /\ runningID = cur /\ cancelFn = "job"
      /\ req \in [Requests -> [at : {"off", "store", "mutex", "told"},
                               id : 0..MaxJobs, answer : Answers]]
  BY DEF TypeOK, LaneHeld, Targeted, Busy
<1>1. CASE runner \in Targeted /\ cur' = cur /\ ctx["job"] = "canceled"
  <2>1. Killed(cur) /\ cur \in Jobs
    BY <1>0, <1>1 DEF Reasoned
  <2> QED
    BY <1>1, <2>1, KilledForever DEF Killed
<1>2. CASE Register
  BY <1>0, <1>2 DEF Register, RunContext, Killed
<1>3. CASE Stop
  BY <1>3 DEF Stop, Killed
<1>4. ASSUME NEW r \in Requests, CancelRunning(r)
      PROVE  Killed(cur)'
  <2>1. UNCHANGED <<runner, cur>>
    BY <1>4 DEF CancelRunning
  <2>2. CASE ctx["job"] = "canceled"
    BY <1>1, <2>1, <2>2
  <2>3. CASE ctx["job"] # "canceled"
    <3>1. runningID = req[r].id /\ req'[r].answer = "canceled" /\ req'[r].id = req[r].id
      BY <1>0, <1>4, <2>3 DEF CancelRunning, Answer
    <3> QED
      BY <1>0, <2>1, <3>1 DEF Killed
  <2> QED
    BY <2>2, <2>3
<1>5. CASE Runner /\ ~Register
  <2>1. UNCHANGED <<ctx, cur>> /\ runner \in Targeted
    BY <1>5 DEF Runner, Wake, NextQueued, Acquire, GiveUp, MarkRunning, StartSidecar, Wait,
                Sweep, Finish, ClearTarget, FreeLane, At, Go, Targeted
  <2> QED
    BY <1>1, <2>1
<1>6. CASE CycleTry \/ CycleRun
  <2>1. cur' = cur /\ runner \in Targeted /\ ctx'["job"] = ctx["job"]
    BY <1>0, <1>6 DEF CycleTry, CycleRun, CycleStart, CycleExec, CycleWait, CycleClear, CycleFree,
                      Handover, Go, RunContext, Targeted
  <2> QED
    BY <1>1, <2>1
<1>7. CASE Processes
  <2>1. UNCHANGED control /\ (ctx' = ctx \/ ctx'["job"] = ctx["job"] \/ ctx'["job"] = "timedout")
    BY <1>0, <1>7, OutsideFrame
       DEF Processes, StartPreflight, MakeDir, Exit, OrphanExit, Timeout, Owner, process
  <2> QED
    BY <1>1, <2>1 DEF control
<1>8. CASE Clients
  <2>1. ASSUME (\E j \in Jobs : Submit(j))
               \/ (\E r \in Requests : (\E id \in Laned : Ask(r, id)) \/ CancelQueued(r))
        PROVE  Killed(cur)'
    <3>1. UNCHANGED <<runner, cur, ctx>>
      BY <2>1 DEF Submit, Ask, CancelQueued, process
    <3> QED
      BY <1>1, <3>1
  <2> QED
    BY <1>4, <1>8, <2>1 DEF Clients
<1>9. CASE Die
  BY <1>9 DEF Die, Fresh, Targeted
<1>10. CASE Boot
  BY <1>1, <1>10 DEF Boot
<1> QED
  BY <1>2, <1>3, <1>5, <1>6, <1>7, <1>8, <1>9, <1>10 DEF Next

LEMMA ReasonedStep ==
    ASSUME TypeOK, LaneHeld, StartedOnce, Reasoned, Asked, Next
    PROVE  Reasoned'
<1>0. /\ row \in [Jobs -> {"absent", "queued", "running"} \cup Terminal]
      /\ starts \in [Jobs -> Nat]
      /\ runner \in Busy => cur \in Jobs
  BY DEF TypeOK, LaneHeld
<1>1. ASSUME NEW j \in Jobs, row'[j] = "succeeded"
      PROVE  child'[j] = "ok"
  <2>1. CASE row[j] = "succeeded"
    BY <2>1, StatusStays DEF Reasoned
  <2>2. CASE row[j] # "succeeded"
    <3>1. Finish
      <4>1. CASE Runner
        BY <1>0, <1>1, <2>2, <4>1
           DEF Runner, Wake, NextQueued, Acquire, GiveUp, Register, MarkRunning, SetRow,
               StartSidecar, Wait, Sweep, ClearTarget, FreeLane, stored
      <4>2. CASE Clients
        BY <1>0, <1>1, <2>2, <4>2
           DEF Clients, Submit, Ask, CancelQueued, CancelRunning, Queued, stored
      <4>3. CASE CycleTry \/ CycleRun \/ Processes \/ Stop \/ Die
        BY <1>1, <2>2, <4>3
           DEF CycleTry, CycleRun, CycleStart, CycleExec, CycleWait, CycleClear, CycleFree,
               Processes, StartPreflight, MakeDir, Exit, OrphanExit, Timeout, Stop, Die, stored
      <4>4. CASE Boot
        BY <1>0, <1>1, <2>2, <4>4 DEF Boot, FailOrphans
      <4> QED
        BY <4>1, <4>2, <4>3, <4>4 DEF Next
    <3>2. runner = "swept" /\ cur \in Jobs /\ child' = child
      BY <1>0, <3>1 DEF Finish, At, Busy, sidecars
    <3>3. j = cur /\ result = "ok"
      BY <1>0, <1>1, <2>2, <3>1, <3>2 DEF Finish, SetRow, Outcome
    <3> QED
      BY <3>2, <3>3 DEF Reasoned
  <2> QED
    BY <2>1, <2>2
<1>2. ASSUME NEW j \in Jobs, row'[j] = "canceled", starts'[j] > 0
      PROVE  Killed(j)'
  <2>1. CASE row[j] = "canceled" /\ starts[j] > 0
    BY <2>1, KilledForever DEF Reasoned
  <2>2. CASE Finish
    <3>1. runner = "swept" /\ cur \in Jobs /\ starts' = starts
      BY <1>0, <2>2 DEF Finish, At, Busy, sidecars
    <3>2. row[j] # "canceled" => j = cur /\ ctx["job"] = "canceled"
      BY <1>0, <1>2, <2>2, <3>1 DEF Finish, SetRow, Outcome
    <3>3. Killed(j)
      BY <1>2, <3>1, <3>2 DEF Reasoned, Targeted
    <3> QED
      BY <3>3, KilledForever
  <2>3. CASE StartSidecar
    <3>1. row' = row /\ cur \in Jobs /\ row[cur] = "running"
      BY <1>0, <2>3 DEF StartSidecar, At, StartedOnce, Engaged, Busy, stored
    <3>2. starts'[j] = starts[j]
      BY <1>0, <1>2, <2>3, <3>1 DEF StartSidecar
    <3> QED
      BY <1>2, <2>1, <3>1, <3>2
  <2>4. CASE ~Finish /\ ~StartSidecar
    <3>1. starts' = starts
      <4>1. CASE Runner
        BY <2>4, <4>1
           DEF Runner, Wake, NextQueued, Acquire, GiveUp, Register, MarkRunning, Wait, Sweep,
               ClearTarget, FreeLane, sidecars
      <4>2. CASE Clients \/ Processes
        BY <4>2 DEF Clients, Submit, Ask, CancelQueued, CancelRunning, Processes, StartPreflight,
                    MakeDir, Exit, OrphanExit, Timeout, sidecars
      <4>3. CASE CycleTry \/ CycleRun \/ Stop \/ Die \/ Boot
        BY <4>3
           DEF CycleTry, CycleRun, CycleStart, CycleExec, CycleWait, CycleClear, CycleFree,
               Stop, Die, Boot, sidecars
      <4> QED
        BY <4>1, <4>2, <4>3 DEF Next
    <3>2. row[j] \notin {"absent", "queued"}
      BY <1>2, <3>1 DEF StartedOnce
    <3>3. row'[j] = row[j]
      <4>1. CASE Runner
        BY <1>0, <1>2, <2>4, <4>1
           DEF Runner, Wake, NextQueued, Acquire, GiveUp, Register, MarkRunning, SetRow, Wait,
               Sweep, ClearTarget, FreeLane, stored
      <4>2. CASE Clients
        BY <1>0, <3>2, <4>2
           DEF Clients, Submit, Ask, CancelQueued, CancelRunning, Queued, stored
      <4>3. CASE CycleTry \/ CycleRun \/ Processes \/ Stop \/ Die
        BY <4>3
           DEF CycleTry, CycleRun, CycleStart, CycleExec, CycleWait, CycleClear, CycleFree,
               Processes, StartPreflight, MakeDir, Exit, OrphanExit, Timeout, Stop, Die, stored
      <4>4. CASE Boot
        BY <1>0, <1>2, <4>4 DEF Boot, FailOrphans
      <4> QED
        BY <4>1, <4>2, <4>3, <4>4 DEF Next
    <3> QED
      BY <1>2, <2>1, <3>1, <3>3
  <2> QED
    BY <2>2, <2>3, <2>4
<1> QED
  BY <1>1, <1>2, ResultStep, ContextStep DEF Reasoned, Killed

-----------------------------------------------------------------------------
(* The invariant, and what follows from it. *)

LEMMA InitInv ==
    ASSUME Init
    PROVE  IInv
<1>1. TypeOK
  <2>1. wake \in BOOLEAN
    BY DEF Init
  <2>2. 0 \in 0..MaxJobs /\ 0 \in 0..MaxCrashes /\ 0 \in 0..MaxFaults
    BY JobsAssumption DEF JobsAssumption
  <2>3. req \in [Requests -> [at : {"off", "store", "mutex", "told"},
                              id : 0..MaxJobs, answer : Answers]]
    BY <2>2 DEF Init, Answers
  <2> QED
    BY <2>1, <2>2, <2>3 DEF Init, TypeOK
<1>2. LaneHeld /\ Attended /\ StartedOnce /\ Tidy
  BY SidecarNames
     DEF Init, LaneHeld, Attended, StartedOnce, Tidy, Busy, Targeted, Engaged, Up, Outlived
<1>3. Reasoned /\ Sound /\ Asked
  BY DEF Init, Reasoned, Sound, Asked, Killed, Engaged, Targeted, Up
<1> QED
  BY <1>1, <1>2, <1>3 DEF IInv

LEMMA IInvStep ==
    ASSUME IInv, [Next]_vars
    PROVE  IInv'
<1>1. CASE Next
  <2>1. TypeOK'
    BY <1>1, RunnerType, CycleType, OutsideType, LifeType DEF IInv, Next
  <2> QED
    BY <1>1, <2>1, LaneStep, AttendedStep, StartedStep, TidyStep, ReasonedStep, SoundStep, AskedStep
       DEF IInv
<1>2. CASE UNCHANGED vars
  <2>1. UNCHANGED <<row, dirs, phase, wake, lane, runner, cur, result, cycle, runningID, cancelFn,
                    ctx, child, orphans, strays, starts, req, crashes, faults>>
    BY <1>2 DEF vars, stored, process, sidecars
  <2>2. TypeOK'
    BY <2>1 DEF IInv, TypeOK
  <2>3. LaneHeld' /\ Attended' /\ StartedOnce' /\ Tidy'
    BY <2>1 DEF IInv, LaneHeld, Attended, StartedOnce, Tidy, Up, Outlived
  <2>4. Reasoned' /\ Sound' /\ Asked'
    BY <2>1 DEF IInv, Reasoned, Killed, Sound, Asked, Up
  <2> QED
    BY <2>2, <2>3, <2>4 DEF IInv
<1> QED
  BY <1>1, <1>2

LEMMA Invariance == Spec => []IInv
<1>1. Init => IInv
  BY InitInv
<1>2. IInv /\ [Next]_vars => IInv'
  BY IInvStep
<1> QED
  BY <1>1, <1>2, PTL DEF Spec

(* A job is started at most once, and only for a row that runs, whatever the *)
(* orchestrator, the store and the cancel requests do (jobs.go:399-452).     *)
THEOREM JobsRunOnce == Spec => []RunsOnce
<1>1. IInv => RunsOnce
  <2> SUFFICES ASSUME IInv, NEW j \in Jobs
               PROVE  /\ starts[j] <= 1
                      /\ row[j] \in {"absent", "queued"} => starts[j] = 0
                      /\ child[j] = "up" => row[j] = "running"
    BY DEF RunsOnce
  <2> QED
    BY DEF IInv, Attended, StartedOnce, Engaged
<1> QED
  BY <1>1, Invariance, PTL

(* Outcomes are true: a success was one, and a cancellation was asked for or  *)
(* comes from the end of the orchestrator (jobs.go:434-452).                  *)
THEOREM OutcomesAreTruthful == Spec => []Truthful
<1>1. IInv => Truthful
  BY DEF IInv, Reasoned, Killed, Truthful
<1> QED
  BY <1>1, Invariance, PTL

(* A job and a maintenance cycle of one orchestrator never overlap: it has    *)
(* one process of its lane alive at most, and leaves at most one behind when  *)
(* it ends (jobs.go:1-8).                                                     *)
THEOREM OneFlightAtATime == Spec => []SingleFlight
<1>1. IInv => SingleFlight
  <2> SUFFICES ASSUME IInv PROVE SingleFlight
    OBVIOUS
  <2>1. \A s, t \in Laned \cap Alive : s = t
    BY OneChild DEF IInv
  <2> QED
    BY <2>1 DEF IInv, Attended, SingleFlight
<1> QED
  BY <1>1, Invariance, PTL

(* However a job or the orchestrator ended, the restore directory of a job    *)
(* that is over is gone, unless its sidecar outlived the orchestrator and the *)
(* sweep of the boot that followed (recovery.go:5-8, jobs.go:468-470).        *)
THEOREM EndedJobsAreSwept == Spec => []NoDebris
<1>1. IInv => NoDebris
  BY DEF IInv, Tidy, NoDebris, Terminal
<1> QED
  BY <1>1, Invariance, PTL

(* As long as no store call has failed, there is no window in which a job is *)
(* running but cannot be canceled (jobs.go:399-404).                         *)
THEOREM NoUncancelableWindow == Spec => []RunningIsCancelable
<1>1. IInv => RunningIsCancelable
  BY DEF IInv, Sound, LaneHeld, Engaged, Targeted, RunningIsCancelable
<1> QED
  BY <1>1, Invariance, PTL

(* As long as no store call has failed, a refused cancel request named a job *)
(* that had ended, though the request looks at the store and at the runner   *)
(* at two different moments (jobs.go:291-313).                               *)
THEOREM RefusalsAreTrue == Spec => []RefusedMeansOver
<1>1. IInv => RefusedMeansOver
  BY DEF IInv, Asked, RefusedMeansOver
<1> QED
  BY <1>1, Invariance, PTL

-----------------------------------------------------------------------------
(* The rows implement the abstract queue. *)

LEMMA RowStep ==
    ASSUME IInv, Next
    PROVE  Queue!Step \/ UNCHANGED row
<1>0. /\ row \in [Jobs -> {"absent", "queued", "running"} \cup Terminal]
      /\ faults = 0 /\ Up => \A j \in Jobs : row[j] = "running" => runner \in Engaged
      /\ runner \in Busy => cur \in Jobs
  BY DEF IInv, TypeOK, Sound, LaneHeld
<1>1. ASSUME NEW j \in Jobs,
             Queue!Submit(j) \/ Queue!Cancel(j) \/ Queue!Start(j) \/ Queue!End(j)
      PROVE  Queue!Step
  BY <1>1 DEF Queue!Step
<1>2. ASSUME NEW j \in Jobs, Submit(j)
      PROVE  Queue!Step
  <2>1. Queue!Submit(j)
    BY <1>2 DEF Submit, Queue!Submit, Queue!Become
  <2> QED
    BY <1>1, <2>1
<1>3. ASSUME NEW r \in Requests, CancelQueued(r)
      PROVE  Queue!Step \/ UNCHANGED row
  <2>1. CASE req[r].id \in Queued
    <3>1. Queue!Cancel(req[r].id) \/ UNCHANGED row
      BY <1>0, <1>3, <2>1 DEF CancelQueued, Queued, Queue!Cancel, Queue!Become
    <3> QED
      BY <1>1, <2>1, <3>1 DEF Queued
  <2>2. CASE req[r].id \notin Queued
    BY <1>0, <1>3, <2>2 DEF CancelQueued
  <2> QED
    BY <2>1, <2>2
<1>4. CASE MarkRunning
  <2>1. cur \in Jobs /\ (faults = 0 => \A k \in Jobs : row[k] # "running")
    BY <1>0, <1>4 DEF MarkRunning, At, Busy, Engaged
  <2>2. Queue!Start(cur) \/ UNCHANGED row
    BY <1>0, <1>4, <2>1 DEF MarkRunning, SetRow, Queue!Start, Queue!Become
  <2> QED
    BY <1>1, <2>1, <2>2
<1>5. CASE Finish
  <2>1. cur \in Jobs
    BY <1>0, <1>5 DEF Finish, At, Busy
  <2>2. Queue!End(cur) \/ UNCHANGED row
    BY <1>0, <1>5, <2>1 DEF Finish, SetRow, Outcome, Queue!End, Queue!Become, Queue!Terminal
  <2> QED
    BY <1>1, <2>1, <2>2
<1>6. CASE Boot
  <2>1. FailOrphans \/ UNCHANGED row
    BY <1>6 DEF Boot
  <2> QED
    BY <2>1 DEF FailOrphans, Queue!Restart, Queue!Step
<1>7. CASE Runner
  BY <1>4, <1>5, <1>7
     DEF Runner, Wake, NextQueued, Acquire, GiveUp, Register, StartSidecar, Wait, Sweep,
         ClearTarget, FreeLane, stored
<1>8. CASE CycleTry \/ CycleRun \/ Processes \/ Stop \/ Die
  BY <1>8 DEF CycleTry, CycleRun, CycleStart, CycleExec, CycleWait, CycleClear, CycleFree,
              Processes, StartPreflight, MakeDir, Exit, OrphanExit, Timeout, Stop, Die, stored
<1>9. CASE Clients
  <2>1. ASSUME NEW r \in Requests, (\E id \in Laned : Ask(r, id)) \/ CancelRunning(r)
        PROVE  UNCHANGED row
    BY <2>1 DEF Ask, CancelRunning, stored
  <2> QED
    BY <1>2, <1>3, <1>9, <2>1 DEF Clients
<1> QED
  BY <1>6, <1>7, <1>8, <1>9 DEF Next

(* The rows are the abstract queue: each job runs once and its outcome stays, *)
(* over crashes, restarts and failed store calls, and one job runs at a time  *)
(* until a store call fails (jobs.go:1-8, 396-452; recovery.go's bootRecover). *)
THEOREM JobsAreAQueue == Spec => ImplementsQueue
<1> SUFFICES Spec => Queue!Spec
  BY DEF ImplementsQueue
<1>1. Init => Queue!Init
  BY DEF Init, Queue!Init
<1>2. IInv /\ [Next]_vars => [Queue!Next]_<<row, faults = 0>>
  <2> SUFFICES ASSUME IInv, [Next]_vars
               PROVE  Queue!Next \/ (row' = row /\ ((faults = 0)' = (faults = 0)))
    BY Zenon
  <2>1. CASE UNCHANGED vars
    BY <2>1 DEF vars, stored
  <2>2. CASE Next
    <3>1. faults' = 0 => faults = 0
      BY <2>2, NoFaultYet DEF IInv
    <3> QED
      BY <2>2, <3>1, RowStep DEF Queue!Next
  <2> QED
    BY <2>1, <2>2
<1> QED
  BY <1>1, <1>2, Invariance, PTL DEF Spec, Queue!Spec
=============================================================================
