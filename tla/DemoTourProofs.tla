---------------------------- MODULE DemoTourProofs ----------------------------
(***************************************************************************)
(* Theorems about the hosted system of DemoTour: storage commands as jobs, *)
(* undo over two databases, and the walkthrough that uses both, for any    *)
(* number of clients, jobs, walkthroughs, reboots and transactions.        *)
(***************************************************************************)
EXTENDS DemoTour, TwoDbUndoProofs

-----------------------------------------------------------------------------
(* Jobs and the commands that wait for them.                               *)

States == {"absent", "queued", "running", "succeeded", "failed", "canceled"}
Asks == [kind : Kinds, by : Clients \cup {"none"}]
Command == [step : {"idle", "submit", "poll", "cancel"}, kind : Kinds \cup {"cancel"},
            wait : BOOLEAN, id : Jobs \cup {0}, interrupted : BOOLEAN,
            exit : {"none", "ok", "error", "canceled", "queued"}]

JTypes ==
    /\ row \in [Jobs -> States] /\ ask \in [Jobs -> Asks]
    /\ done \subseteq Jobs /\ orphans \subseteq Jobs
    /\ cmd \in [Clients -> Command]

Started(j) == row[j] \in {"running", "succeeded", "failed"} \/ j \in done

\* Jobs are submitted in the order of their numbers and run in that order, one
\* at a time; a job whose operation took effect had started.
Lined ==
    /\ \A j, k \in Jobs : k < j /\ row[j] # "absent" => row[k] # "absent"
    /\ \A j, k \in Jobs : row[j] = "running" /\ row[k] = "running" => j = k
    /\ \A j, k \in Jobs : k < j /\ Started(j) => row[k] \in {"succeeded", "failed", "canceled"}
    /\ \A j \in Jobs :
         /\ j \in done => row[j] \notin {"absent", "queued"}
         /\ j \in orphans => row[j] = "failed"
         /\ row[j] = "succeeded" => j \in done

\* The job a command waits for, or waited for with success, is its own, and the
\* last one its client submitted.
Own(q, c, r, a) ==
    /\ q.id \in Jobs /\ r[q.id] # "absent" /\ a[q.id] = [kind |-> q.kind, by |-> c]
    /\ \A k \in Jobs : r[k] # "absent" /\ a[k].by = c => k <= q.id

CommandOk(q, c, r, a, effects) ==
    /\ q.step = "submit" => q.kind \in Kinds
    /\ q.step = "cancel" => q.kind = "cancel" /\ q.id \in Jobs
    /\ q.step = "poll" => q.wait /\ q.kind \in Kinds /\ Own(q, c, r, a)
    /\ q.step = "idle" /\ q.wait /\ q.kind # "cancel" =>
         /\ q.exit = "canceled" => q.id \in Jobs /\ r[q.id] = "canceled" /\ a[q.id].by = c
         /\ q.exit = "ok" => q.id \in effects /\ Own(q, c, r, a)

JInv == JTypes /\ Lined /\ \A c \in Clients : CommandOk(cmd[c], c, row, ask, done)

-----------------------------------------------------------------------------
(* The walkthrough.                                                        *)

Stages == Resting \cup Busy \cup {"off"}
Steps == {"none", "schema", "track", "job", "wait", "drain", "fire", "land", "ask",
          "count", "drop"}
Tour == [stage : Stages, step : Steps,
         kind : {"tui", "up"}, mark : Nat, incident : Nat, dependents : SUBSET Nat,
         before : Images, counted : Nat, after : Images, back : Nat, current : BOOLEAN]
Drop == [at : Nat, image : Images]
Spending == [tours : Nat, writes : Nat, commands : Nat, reboots : Nat]

DTypes ==
    /\ trip \in Trips
    /\ spent \in Spending
    /\ there \in BOOLEAN /\ ddl \in Seq(Drop) /\ \A i \in 1..Len(ddl) : ddl[i].at <= Len(log)
    /\ fwd \in 0..Len(ddl) /\ backups \subseteq 0..Here
    /\ look \in [Jobs -> Nat] /\ \A j \in Jobs : look[j] <= Len(ddl)
    /\ made \in [Jobs -> Nat]
    /\ \A j \in Jobs : made[j] <= Len(log) + 1 /\ (made[j] > 0 => look[j] > 0)
    /\ tour \in Tour
    /\ tour.mark <= Len(log) /\ tour.incident <= Len(log) /\ tour.back <= Len(log)
    /\ tour.counted <= Len(log)

Shown == {"damage", "investigating", "log", "previewing", "preview"}
Later == {"undoing", "restored", "dropping", "dropped", "recovering", "done"}

\* The incident is a transaction of the application, and captured when it is told of.
Incident ==
    /\ At("firing", "land") =>
         tour.incident \in Apps /\ tour.mark \in Apps /\ tour.incident <= tour.mark
    /\ tour.stage \in Shown => tour.incident \in Apps /\ tour.incident <= captured
    /\ tour.stage \in Later => tour.incident \in Apps

Final == At("recovering", "wait") \/ tour.stage = "done"
Attached(q) == q.step = "poll" \/ (q.step = "idle" /\ q.exit = "ok")

\* The walkthrough waits for its own commands.
Waits ==
    /\ tour.stage # "off" => trip.tours > 0
    /\ At("seeding", "job") => tour.kind = "tui"
    /\ At("seeding", "wait") =>
         tour.kind = "tui" /\ cmd[Tourist].kind = "snapshot" /\ cmd[Tourist].wait
    /\ Final =>
         cmd[Tourist].kind = "recover-table" /\ cmd[Tourist].wait
    /\ tour.stage = "done" => cmd[Tourist].step = "idle" /\ cmd[Tourist].exit = "ok"

Saved == \A j \in done : ask[j].kind = "snapshot" => backups # {}

\* Only the interactive walkthrough goes on to its second act, and it has a backup.
Provided ==
    /\ tour.kind = "up" => tour.stage \in {"off", "seeding", "seeded", "firing", "damage", "error"}
    /\ tour.kind = "tui" /\ tour.stage \in {"seeded", "firing"} \cup Shown \cup Later => backups # {}
    /\ tour.stage \in {"dropped", "recovering"} => \E b \in backups : b < Here

\* Somebody has written orders since the walkthrough counted them; somebody
\* beside the last recovery has.
Touched == \E i \in tour.counted + 1..Len(log) : Orders \in KeysOf(i)
Changed == \E i \in tour.counted + 1..Len(log) : i # tour.back /\ Orders \in KeysOf(i)

\* What was counted is still there when the table is dropped.
CountStands == At("dropping", "drop") => there /\ (Held = tour.before \/ Touched)

\* The drop the walkthrough made is the last one.
Dropped ==
    tour.stage \in {"dropped", "recovering", "done"} =>
        Len(ddl) > 0 /\ (ddl[Len(ddl)].image = tour.before \/ Touched)

Looked ==
    \A j \in Jobs :
        /\ look[j] > 0 => ask[j].kind = "recover-table" /\ row[j] \notin {"absent", "queued"}
        /\ j \in done /\ ask[j].kind = "recover-table" => look[j] > 0

\* What the walkthrough's own recovery has done so far.
Recovering ==
    Final /\ Attached(cmd[Tourist]) =>
        LET j == cmd[Tourist].id
        IN  /\ Started(j) /\ look[j] > 0 /\ tour.current => look[j] = Len(ddl)
            /\ j \in done => there /\ ~Empty /\ (tour.current => Held = tour.before \/ Changed)

Told == tour.stage = "done" /\ tour.current => tour.after = tour.before \/ Changed

Tale ==
    Incident /\ Waits /\ Saved /\ Provided /\ CountStands /\ Dropped /\ Looked /\ Recovering /\ Told

DInv == UInv /\ Chained /\ JInv /\ DTypes /\ Tale

-----------------------------------------------------------------------------
(* Steps of the jobs.                                                      *)

LEMMA Numbers == Jobs \subseteq Nat \ {0}
BY HostedAssumption DEF HostedAssumption

\* What a command is told stays true while jobs go on.
LEMMA CommandKept ==
    ASSUME NEW q \in Command, NEW c, NEW r, NEW a, NEW e, CommandOk(q, c, r, a, e),
           NEW s, NEW b, NEW f, e \subseteq f,
           \A j \in Jobs : r[j] # "absent" => s[j] # "absent" /\ b[j] = a[j],
           \A j \in Jobs : r[j] = "canceled" => s[j] = "canceled",
           q.step \in {"poll", "idle"} =>
               \A j \in Jobs : r[j] = "absent" /\ s[j] # "absent" => b[j].by # c
    PROVE  CommandOk(q, c, s, b, f)
<1>1. ASSUME Own(q, c, r, a), q.step \in {"poll", "idle"}
      PROVE  Own(q, c, s, b)
  <2>1. q.id \in Jobs /\ s[q.id] # "absent" /\ b[q.id] = [kind |-> q.kind, by |-> c]
    BY <1>1 DEF Own
  <2>2. \A k \in Jobs : s[k] # "absent" /\ b[k].by = c => k <= q.id
    BY <1>1 DEF Own
  <2> QED
    BY <2>1, <2>2 DEF Own
<1>2. ASSUME q.step = "idle", q.wait, q.kind # "cancel"
      PROVE  /\ q.exit = "canceled" => q.id \in Jobs /\ s[q.id] = "canceled" /\ b[q.id].by = c
             /\ q.exit = "ok" => q.id \in f /\ Own(q, c, s, b)
  <2>1. CASE q.exit = "canceled"
    <3>1. q.id \in Jobs /\ r[q.id] = "canceled" /\ a[q.id].by = c
      BY <1>2, <2>1 DEF CommandOk
    <3> QED
      BY <2>1, <3>1
  <2>2. CASE q.exit = "ok"
    <3>1. q.id \in e /\ Own(q, c, r, a)
      BY <1>2, <2>2 DEF CommandOk
    <3> QED
      BY <1>1, <1>2, <2>2, <3>1
  <2> QED
    BY <2>1, <2>2
<1>3. ASSUME q.step = "poll"
      PROVE  q.wait /\ q.kind \in Kinds /\ Own(q, c, s, b)
  <2>1. q.wait /\ q.kind \in Kinds /\ Own(q, c, r, a)
    BY <1>3 DEF CommandOk
  <2> QED
    BY <1>1, <1>3, <2>1
<1>4. /\ q.step = "submit" => q.kind \in Kinds
      /\ q.step = "cancel" => q.kind = "cancel" /\ q.id \in Jobs
  BY DEF CommandOk
<1> QED
  BY <1>2, <1>3, <1>4 DEF CommandOk

\* Only the commands change.
LEMMA CommandStep ==
    ASSUME JInv, NEW c \in Clients, NEW q \in Command, cmd' = [cmd EXCEPT ![c] = q],
           CommandOk(q, c, row, ask, done), UNCHANGED <<row, ask, orphans, done>>
    PROVE  JInv'
<1>1. JTypes'
  BY DEF JInv, JTypes
<1>2. Lined'
  BY DEF JInv, Lined, Started
<1>3. \A d \in Clients : CommandOk(cmd'[d], d, row', ask', done')
  BY DEF JInv, JTypes
<1> QED
  BY <1>1, <1>2, <1>3 DEF JInv

LEMMA NoCmdRecord ==
    /\ NoCmd \in Command /\ NoCmd.step = "idle" /\ NoCmd.exit = "none"
    /\ \A c, r, a, e : CommandOk(NoCmd, c, r, a, e)
<1>1. NoCmd \in Command
  BY DEF NoCmd, Command, Kinds
<1>2. NoCmd.step = "idle" /\ NoCmd.exit = "none"
  BY DEF NoCmd
<1> QED
  BY <1>1, <1>2 DEF CommandOk

Ordering(kind, wait) == [NoCmd EXCEPT !.step = "submit", !.kind = kind, !.wait = wait]
Canceling(j) == [NoCmd EXCEPT !.step = "cancel", !.kind = "cancel", !.id = j]

LEMMA OrderingRecord ==
    ASSUME NEW kind \in Kinds, NEW wait \in BOOLEAN
    PROVE  LET q == Ordering(kind, wait)
           IN  /\ q \in Command /\ q.step = "submit" /\ q.kind = kind /\ q.wait = wait
               /\ \A c, r, a, e : CommandOk(q, c, r, a, e)
<1> DEFINE q == Ordering(kind, wait)
<1>1. q \in Command /\ q.step = "submit" /\ q.kind = kind /\ q.wait = wait
  BY NoCmdRecord DEF Ordering, Command
<1> HIDE DEF q
<1>2. \A c, r, a, e : CommandOk(q, c, r, a, e)
  BY <1>1 DEF CommandOk
<1> QED
  BY <1>1, <1>2 DEF q

LEMMA CancelingRecord ==
    ASSUME NEW j \in Jobs
    PROVE  LET q == Canceling(j)
           IN  q \in Command /\ \A c, r, a, e : CommandOk(q, c, r, a, e)
<1> DEFINE q == Canceling(j)
<1>1. q \in Command /\ q.step = "cancel" /\ q.kind = "cancel" /\ q.id = j
  BY NoCmdRecord DEF Canceling, Command
<1> HIDE DEF q
<1>2. \A c, r, a, e : CommandOk(q, c, r, a, e)
  BY <1>1 DEF CommandOk
<1> QED
  BY <1>1, <1>2 DEF q

LEMMA RunStep ==
    ASSUME JInv, NEW c \in Clients,
           \/ \E kind \in Kinds, wait \in BOOLEAN : Run(c, kind, wait)
           \/ \E j \in Jobs : RunCancel(c, j)
    PROVE  JInv'
<1>1. ASSUME NEW kind \in Kinds, NEW wait \in BOOLEAN, Run(c, kind, wait)
      PROVE  JInv'
  <2>1. cmd' = [cmd EXCEPT ![c] = Ordering(kind, wait)] /\ UNCHANGED <<row, ask, orphans, done>>
    BY <1>1 DEF Run, Ordering
  <2> QED
    BY <2>1, OrderingRecord, CommandStep
<1>2. ASSUME NEW j \in Jobs, RunCancel(c, j)
      PROVE  JInv'
  <2>1. cmd' = [cmd EXCEPT ![c] = Canceling(j)] /\ UNCHANGED <<row, ask, orphans, done>>
    BY <1>2 DEF RunCancel, Canceling
  <2> QED
    BY <2>1, CancelingRecord, CommandStep
<1> QED
  BY <1>1, <1>2

LEMMA ForgetStep ==
    ASSUME JInv, NEW c \in Clients, cmd' = [cmd EXCEPT ![c] = NoCmd],
           UNCHANGED <<row, ask, orphans, done>>
    PROVE  JInv'
BY NoCmdRecord, CommandStep

\* The command ends.
Ended(q, code) == [q EXCEPT !.step = "idle", !.exit = code]

LEMMA EndedRecord ==
    ASSUME NEW q \in Command, NEW code \in {"none", "ok", "error", "canceled", "queued"}
    PROVE  LET p == Ended(q, code)
           IN  /\ p \in Command /\ p.step = "idle" /\ p.exit = code
               /\ p.id = q.id /\ p.wait = q.wait /\ p.kind = q.kind
BY DEF Ended, Command

LEMMA ExitIsEnd ==
    ASSUME JInv, NEW c \in Clients, NEW code, Exit(c, code)
    PROVE  cmd' = [cmd EXCEPT ![c] = Ended(cmd[c], code)]
BY DEF Exit, Ended, JInv, JTypes

LEMMA ErrorIsOk ==
    ASSUME NEW q \in Command, NEW c, NEW r, NEW a, NEW e
    PROVE  Ended(q, "error") \in Command /\ CommandOk(Ended(q, "error"), c, r, a, e)
<1> DEFINE p == Ended(q, "error")
<1>1. p \in Command /\ p.step = "idle" /\ p.exit = "error"
  BY EndedRecord
<1> HIDE DEF p
<1>2. CommandOk(p, c, r, a, e)
  BY <1>1 DEF CommandOk
<1> QED
  BY <1>1, <1>2 DEF p

LEMMA FailsStep ==
    ASSUME JInv, NEW c \in Clients, RequestFails(c)
    PROVE  JInv'
<1>1. cmd[c] \in Command
  BY DEF JInv, JTypes
<1>2. cmd' = [cmd EXCEPT ![c] = Ended(cmd[c], "error")] /\ UNCHANGED <<row, ask, orphans, done>>
  BY ExitIsEnd DEF RequestFails
<1> QED
  BY <1>1, <1>2, ErrorIsOk, CommandStep

LEMMA PollStep ==
    ASSUME JInv, NEW c \in Clients, Poll(c)
    PROVE  JInv'
<1> DEFINE q == cmd[c]
           code == Outcome(row[q.id])
           p == Ended(q, code)
<1>1. q \in Command /\ CommandOk(q, c, row, ask, done) /\ q.step = "poll"
      /\ row[q.id] \in {"succeeded", "failed", "canceled"}
  BY DEF JInv, JTypes, Poll, Queue!Terminal
<1>2. q.wait /\ Own(q, c, row, ask)
  BY <1>1 DEF CommandOk
<1>3. /\ code \in {"none", "ok", "error", "canceled", "queued"}
      /\ code = "ok" => row[q.id] = "succeeded"
      /\ code = "canceled" => row[q.id] = "canceled"
  <2>1. CASE row[q.id] = "succeeded"
    BY <2>1 DEF Outcome
  <2>2. CASE row[q.id] = "failed"
    BY <2>2 DEF Outcome
  <2>3. CASE row[q.id] = "canceled"
    BY <2>3 DEF Outcome
  <2> QED
    BY <1>1, <2>1, <2>2, <2>3
<1>4. cmd' = [cmd EXCEPT ![c] = p] /\ UNCHANGED <<row, ask, orphans, done>>
  BY ExitIsEnd DEF Poll
<1> HIDE DEF q, code
<1>5. p \in Command /\ p.step = "idle" /\ p.exit = code
      /\ p.id = q.id /\ p.wait = q.wait /\ p.kind = q.kind
  BY <1>1, <1>3, EndedRecord
<1> HIDE DEF p
<1>6. CommandOk(p, c, row, ask, done)
  <2>1. q.id \in Jobs /\ ask[q.id].by = c /\ Own(p, c, row, ask)
    BY <1>2, <1>5 DEF Own
  <2>2. code = "ok" => q.id \in done
    BY <1>3, <2>1 DEF JInv, Lined
  <2> QED
    BY <1>3, <1>5, <2>1, <2>2 DEF CommandOk
<1> QED
  BY <1>4, <1>5, <1>6, CommandStep

LEMMA InterruptStep ==
    ASSUME JInv, NEW c \in Clients, Interrupt(c)
    PROVE  JInv'
<1> DEFINE q == cmd[c]
           p == [q EXCEPT !.interrupted = TRUE]
<1>1. q \in Command /\ CommandOk(q, c, row, ask, done)
  BY DEF JInv, JTypes
<1>2. cmd' = [cmd EXCEPT ![c] = p] /\ UNCHANGED <<row, ask, orphans, done>>
  BY DEF Interrupt, JInv, JTypes
<1> HIDE DEF q
<1>3. p \in Command /\ p.step = q.step /\ p.exit = q.exit /\ p.id = q.id /\ p.wait = q.wait
      /\ p.kind = q.kind
  BY <1>1 DEF Command
<1> HIDE DEF p
<1>4. CommandOk(p, c, row, ask, done)
  BY <1>1, <1>3 DEF CommandOk, Own
<1> QED
  BY <1>2, <1>3, <1>4, CommandStep

\* A job that has been submitted and not ended changes its state.
LEMMA RowStep ==
    ASSUME JInv, NEW j \in Jobs, NEW s \in States, row[j] \in {"queued", "running"}, s # "absent",
           row' = [row EXCEPT ![j] = s], UNCHANGED <<ask, done>>
    PROVE  /\ row' \in [Jobs -> States] /\ row'[j] = s
           /\ \A k \in Jobs : k # j => row'[k] = row[k]
           /\ \A d \in Clients : CommandOk(cmd[d], d, row', ask', done')
<1>1. /\ row' \in [Jobs -> States] /\ row'[j] = s
      /\ \A k \in Jobs : k # j => row'[k] = row[k]
  BY DEF JInv, JTypes
<1>2. \A d \in Clients : cmd[d] \in Command /\ CommandOk(cmd[d], d, row, ask, done)
  BY DEF JInv, JTypes
<1>3. /\ \A k \in Jobs : row[k] # "absent" => row'[k] # "absent" /\ ask'[k] = ask[k]
      /\ \A k \in Jobs : row[k] = "canceled" => row'[k] = "canceled"
      /\ \A k \in Jobs : ~(row[k] = "absent" /\ row'[k] # "absent")
      /\ done \subseteq done'
  BY <1>1
<1>4. ASSUME NEW d \in Clients
      PROVE  CommandOk(cmd[d], d, row', ask', done')
  <2> DEFINE q == cmd[d]
  <2>1. q \in Command /\ CommandOk(q, d, row, ask, done)
    BY <1>2
  <2> HIDE DEF q
  <2>2. CommandOk(q, d, row', ask', done')
    BY <1>3, <2>1, CommandKept
  <2> QED
    BY <2>2 DEF q
<1> QED
  BY <1>1, <1>4

Terminals == {"succeeded", "failed", "canceled"}

LEMMA CancelStep ==
    ASSUME JInv, NEW c \in Clients, CancelJob(c)
    PROVE  JInv'
<1> DEFINE q == cmd[c]
           j == q.id
<1>1. q \in Command /\ CommandOk(q, c, row, ask, done) /\ q.step = "cancel"
  BY DEF JInv, JTypes, CancelJob
<1>2. j \in Jobs /\ q.kind = "cancel"
  BY <1>1 DEF CommandOk
<1>3. \A code, r, a, e : code \in {"ok", "error"} =>
          Ended(q, code) \in Command /\ CommandOk(Ended(q, code), c, r, a, e)
  <2> SUFFICES ASSUME NEW code \in {"ok", "error"}, NEW r, NEW a, NEW e
               PROVE  Ended(q, code) \in Command /\ CommandOk(Ended(q, code), c, r, a, e)
    OBVIOUS
  <2> DEFINE p == Ended(q, code)
  <2> HIDE DEF q
  <2>1. p \in Command /\ p.step = "idle" /\ p.kind = q.kind
    BY <1>1, EndedRecord
  <2> HIDE DEF p
  <2>2. CommandOk(p, c, r, a, e)
    BY <1>2, <2>1 DEF CommandOk
  <2> QED
    BY <2>1, <2>2 DEF p
<1>4. PICK code \in {"ok", "error"} : Exit(c, code)
  BY DEF CancelJob
<1>5. cmd' = [cmd EXCEPT ![c] = Ended(q, code)]
  BY <1>4, ExitIsEnd
<1>6. UNCHANGED <<ask, orphans, done>>
      /\ (UNCHANGED row \/ (row[j] = "queued" /\ row' = [row EXCEPT ![j] = "canceled"]))
  BY DEF CancelJob, Queue!Cancel, Queue!Become
<1> HIDE DEF q, j
<1>7. CASE UNCHANGED row
  <2>1. Ended(q, code) \in Command /\ CommandOk(Ended(q, code), c, row, ask, done)
    BY <1>3
  <2> QED
    BY <1>5, <1>6, <1>7, <2>1, CommandStep
<1>8. CASE row[j] = "queued" /\ row' = [row EXCEPT ![j] = "canceled"]
  <2>1. /\ row' \in [Jobs -> States] /\ row'[j] = "canceled"
        /\ \A k \in Jobs : k # j => row'[k] = row[k]
        /\ \A d \in Clients : CommandOk(cmd[d], d, row', ask', done')
    <3>1. "canceled" \in States
      BY DEF States
    <3> QED
      BY <1>2, <1>6, <1>8, <3>1, RowStep
  <2>2. Lined'
    BY <1>2, <1>6, <1>8, <2>1 DEF JInv, Lined, Started
  <2>3. JTypes'
    BY <1>3, <1>5, <1>6, <2>1 DEF JInv, JTypes
  <2>4. \A d \in Clients : CommandOk(cmd'[d], d, row', ask', done')
    <3>1. CommandOk(Ended(q, code), c, row', ask', done')
      BY <1>3
    <3> QED
      BY <1>5, <2>1, <3>1 DEF JInv, JTypes
  <2> QED
    BY <2>2, <2>3, <2>4 DEF JInv
<1> QED
  BY <1>6, <1>7, <1>8

\* The orchestrator's own steps.
LEMMA StartStep ==
    ASSUME JInv, NEW j \in Jobs, StartJob(j)
    PROVE  JInv'
<1>1. /\ row[j] = "queued" /\ (\A k \in Jobs : row[k] # "running")
      /\ (\A k \in Jobs : row[k] = "queued" => j <= k)
      /\ row' = [row EXCEPT ![j] = "running"] /\ UNCHANGED <<ask, orphans, done, cmd>>
  BY DEF StartJob, Queue!Start, Queue!Become
<1>2. /\ row' \in [Jobs -> States] /\ row'[j] = "running"
      /\ \A k \in Jobs : k # j => row'[k] = row[k]
      /\ \A d \in Clients : CommandOk(cmd[d], d, row', ask', done')
  <2>1. "running" \in States
    BY DEF States
  <2> QED
    BY <1>1, <2>1, RowStep
<1>3. Lined /\ row \in [Jobs -> States]
  BY DEF JInv, JTypes
<1>4. Lined'
  <2>1. \A m, k \in Jobs : k < m /\ row'[m] # "absent" => row'[k] # "absent"
    BY <1>1, <1>2, <1>3 DEF Lined
  <2>2. \A m, k \in Jobs : row'[m] = "running" /\ row'[k] = "running" => m = k
    BY <1>1, <1>2
  <2>3. ASSUME NEW m \in Jobs, NEW k \in Jobs, k < m, Started(m)'
        PROVE  row'[k] \in {"succeeded", "failed", "canceled"}
    <3>1. CASE m = j
      <4>1. k # j /\ row[k] # "absent" /\ row[k] # "queued" /\ row[k] # "running"
        BY <1>1, <1>3, <2>3, <3>1, Numbers DEF Lined
      <4> QED
        BY <1>2, <1>3, <4>1 DEF States
    <3>2. CASE m # j
      <4>1. Started(m)
        BY <1>1, <1>2, <2>3, <3>2 DEF Started
      <4>2. row[k] \in {"succeeded", "failed", "canceled"}
        BY <1>3, <2>3, <4>1 DEF Lined
      <4> QED
        BY <1>1, <1>2, <4>2
    <3> QED
      BY <3>1, <3>2
  <2>4. \A m \in Jobs :
          /\ m \in done' => row'[m] \notin {"absent", "queued"}
          /\ m \in orphans' => row'[m] = "failed"
          /\ row'[m] = "succeeded" => m \in done'
    BY <1>1, <1>2, <1>3 DEF Lined
  <2> QED
    BY <2>1, <2>2, <2>3, <2>4 DEF Lined
<1> QED
  BY <1>1, <1>2, <1>4 DEF JInv, JTypes

\* A running job ends, by itself or with its orchestrator.
LEMMA JobOverStep ==
    ASSUME JInv, NEW j \in Jobs, JobEnds(j) \/ Reboot(j)
    PROVE  JInv'
<1>1. /\ row[j] = "running" /\ UNCHANGED <<ask, done, cmd>>
      /\ orphans' \subseteq orphans \cup {j}
  BY DEF JobEnds, Reboot, Queue!End
<1>2. PICK s \in {"succeeded", "failed", "canceled"} :
         /\ row' = [row EXCEPT ![j] = s]
         /\ j \in orphans' => j \in orphans \/ s = "failed"
  BY DEF JobEnds, Reboot, Queue!End, Queue!Become, Queue!Terminal
<1>3. /\ row' \in [Jobs -> States] /\ row'[j] = s
      /\ \A k \in Jobs : k # j => row'[k] = row[k]
      /\ \A d \in Clients : CommandOk(cmd[d], d, row', ask', done')
  <2>1. s \in States /\ s # "absent"
    BY DEF States
  <2> QED
    BY <1>1, <1>2, <2>1, RowStep
<1>4. s = "succeeded" => j \in done
  <2>1. CASE JobEnds(j)
    BY <1>3, <2>1 DEF JobEnds
  <2>2. CASE Reboot(j)
    <3>1. row' = [row EXCEPT ![j] = "failed"]
      BY <2>2 DEF Reboot, Queue!Become
    <3>2. row'[j] = "failed"
      BY <3>1 DEF JInv, JTypes
    <3> QED
      BY <1>3, <3>2
  <2> QED
    BY <2>1, <2>2
<1>5. Lined'
  <2>1. Lined /\ row[j] # "failed" /\ j \notin orphans
    BY <1>1 DEF JInv, Lined
  <2>2. ASSUME NEW m \in Jobs, Started(m)'
        PROVE  Started(m)
    BY <1>1, <1>3, <2>2 DEF Started
  <2>3. \A m, k \in Jobs : k < m /\ Started(m)' => row'[k] \in {"succeeded", "failed", "canceled"}
    BY <1>2, <1>3, <2>1, <2>2 DEF Lined
  <2>4. \A m, k \in Jobs : k < m /\ row'[m] # "absent" => row'[k] # "absent"
    BY <1>1, <1>2, <1>3, <2>1 DEF Lined
  <2>5. \A m, k \in Jobs : row'[m] = "running" /\ row'[k] = "running" => m = k
    BY <1>2, <1>3, <2>1 DEF Lined
  <2>6. \A m \in Jobs :
          /\ m \in done' => row'[m] \notin {"absent", "queued"}
          /\ m \in orphans' => row'[m] = "failed"
          /\ row'[m] = "succeeded" => m \in done'
    BY <1>1, <1>2, <1>3, <1>4, <2>1 DEF Lined
  <2> QED
    BY <2>3, <2>4, <2>5, <2>6 DEF Lined
<1> QED
  BY <1>1, <1>3, <1>5 DEF JInv, JTypes

LEMMA WorkStep ==
    ASSUME JInv, NEW j \in Jobs, Work(j)
    PROVE  JInv' /\ Started(j)
<1>1. /\ row[j] = "running" \/ j \in orphans
      /\ done' = done \cup {j} /\ orphans' \subseteq orphans /\ UNCHANGED <<row, ask, cmd>>
  BY DEF Work, Working
<1>2. row[j] \in {"running", "failed"} /\ Started(j)
  BY <1>1 DEF JInv, Lined, Started
<1>3. Lined'
  <2>1. \A m \in Jobs : Started(m)' => Started(m)
    BY <1>1, <1>2 DEF Started
  <2> QED
    BY <1>1, <1>2, <2>1 DEF JInv, Lined
<1>4. \A d \in Clients : CommandOk(cmd'[d], d, row', ask', done')
  <2> SUFFICES ASSUME NEW d \in Clients
               PROVE  CommandOk(cmd[d], d, row, ask, done')
    BY <1>1
  <2> DEFINE q == cmd[d]
  <2>1. q \in Command /\ CommandOk(q, d, row, ask, done) /\ done \subseteq done'
    BY <1>1 DEF JInv, JTypes
  <2> HIDE DEF q
  <2>2. CommandOk(q, d, row, ask, done')
    BY <2>1, CommandKept
  <2> QED
    BY <2>2 DEF q
<1> QED
  BY <1>1, <1>2, <1>3, <1>4 DEF JInv, JTypes

Polling(q, j) == [q EXCEPT !.step = "poll", !.id = j]
Dismissed(q, j) == [q EXCEPT !.step = "idle", !.id = j, !.exit = "queued"]

LEMMA PollingRecord ==
    ASSUME NEW q \in Command, NEW j \in Jobs
    PROVE  LET p == Polling(q, j)
           IN  /\ p \in Command /\ p.step = "poll" /\ p.id = j /\ p.wait = q.wait /\ p.kind = q.kind
BY DEF Polling, Command

LEMMA DismissedRecord ==
    ASSUME NEW q \in Command, NEW j \in Jobs
    PROVE  LET p == Dismissed(q, j)
           IN  /\ p \in Command /\ p.step = "idle" /\ p.id = j /\ p.wait = q.wait /\ p.kind = q.kind
BY DEF Dismissed, Command

\* What becomes of the queue when job j is submitted by c.
Submission(c, j) ==
    /\ cmd[c].step = "submit" /\ Fresh(j)
    /\ row' = [row EXCEPT ![j] = "queued"]
    /\ ask' = [ask EXCEPT ![j] = [kind |-> cmd[c].kind, by |-> c]]
    /\ UNCHANGED <<orphans, done>>

LEMMA SubmissionFacts ==
    ASSUME JInv, NEW c \in Clients, NEW j \in Jobs, Submission(c, j)
    PROVE  /\ row' \in [Jobs -> States] /\ ask' \in [Jobs -> Asks] /\ Lined'
           /\ row[j] = "absent" /\ row'[j] = "queued" /\ cmd[c].kind \in Kinds
           /\ ask'[j] = [kind |-> cmd[c].kind, by |-> c]
           /\ \A k \in Jobs : k # j => row'[k] = row[k] /\ ask'[k] = ask[k]
           /\ \A k \in Jobs : row'[k] # "absent" => k <= j
           /\ \A d \in Clients : d # c => CommandOk(cmd[d], d, row', ask', done')
<1>1. cmd[c] \in Command /\ CommandOk(cmd[c], c, row, ask, done) /\ cmd[c].step = "submit"
  BY DEF JInv, JTypes, Submission
<1>2. cmd[c].kind \in Kinds
  BY <1>1 DEF CommandOk
<1>3. [kind |-> cmd[c].kind, by |-> c] \in Asks
  BY <1>2 DEF Asks
<1>4. /\ row' \in [Jobs -> States] /\ row'[j] = "queued"
      /\ ask' \in [Jobs -> Asks] /\ ask'[j] = [kind |-> cmd[c].kind, by |-> c]
      /\ \A k \in Jobs : k # j => row'[k] = row[k] /\ ask'[k] = ask[k]
  BY <1>3 DEF JInv, JTypes, Submission, States
<1>5. row[j] = "absent" /\ (\A k \in Jobs : k < j => row[k] # "absent")
      /\ UNCHANGED <<orphans, done>> /\ Lined
  BY DEF Submission, Fresh, JInv
<1>6. \A k \in Jobs : row'[k] # "absent" => k <= j
  <2> SUFFICES ASSUME NEW k \in Jobs, row'[k] # "absent", ~(k <= j)
               PROVE  FALSE
    OBVIOUS
  <2>1. k \in Nat /\ j \in Nat
    BY Numbers
  <2>2. j < k /\ k # j
    BY <2>1
  <2>3. row[k] # "absent"
    BY <1>4, <2>2
  <2> QED
    BY <1>5, <2>2, <2>3 DEF Lined
<1>7. Lined'
  <2>1. \A m, k \in Jobs : k < m /\ row'[m] # "absent" => row'[k] # "absent"
    <3> SUFFICES ASSUME NEW m \in Jobs, NEW k \in Jobs, k < m, row'[m] # "absent"
                 PROVE  row'[k] # "absent"
      OBVIOUS
    <3>1. m <= j /\ m \in Nat /\ k \in Nat /\ j \in Nat
      BY <1>6, Numbers
    <3>2. k < j /\ k # j
      BY <3>1
    <3> QED
      BY <1>4, <1>5, <3>2
  <2>2. \A m, k \in Jobs : row'[m] = "running" /\ row'[k] = "running" => m = k
    BY <1>4, <1>5 DEF Lined
  <2>3. ASSUME NEW m \in Jobs, NEW k \in Jobs, k < m, Started(m)'
        PROVE  row'[k] \in {"succeeded", "failed", "canceled"}
    <3>1. Started(m)
      BY <1>4, <1>5, <2>3 DEF Started, Lined
    <3>2. row[k] \in {"succeeded", "failed", "canceled"}
      BY <1>5, <2>3, <3>1 DEF Lined
    <3> QED
      BY <1>4, <1>5, <3>2
  <2>4. \A m \in Jobs :
          /\ m \in done' => row'[m] \notin {"absent", "queued"}
          /\ m \in orphans' => row'[m] = "failed"
          /\ row'[m] = "succeeded" => m \in done'
    BY <1>4, <1>5 DEF Lined
  <2> QED
    BY <2>1, <2>2, <2>3, <2>4 DEF Lined
<1>8. ASSUME NEW d \in Clients, d # c
      PROVE  CommandOk(cmd[d], d, row', ask', done')
  <2> DEFINE q == cmd[d]
  <2>1. q \in Command /\ CommandOk(q, d, row, ask, done)
    BY DEF JInv, JTypes
  <2>2. /\ \A k \in Jobs : row[k] # "absent" => row'[k] # "absent" /\ ask'[k] = ask[k]
        /\ \A k \in Jobs : row[k] = "canceled" => row'[k] = "canceled"
        /\ done \subseteq done'
    BY <1>4, <1>5
  <2>3. \A k \in Jobs : row[k] = "absent" /\ row'[k] # "absent" => ask'[k].by # d
    BY <1>4, <1>8
  <2> HIDE DEF q
  <2>4. CommandOk(q, d, row', ask', done')
    BY <2>1, <2>2, <2>3, CommandKept
  <2> QED
    BY <2>4 DEF q
<1> QED
  BY <1>2, <1>4, <1>5, <1>6, <1>7, <1>8

LEMMA SubmitStep ==
    ASSUME JInv, NEW c \in Clients, NEW j \in Jobs, SubmitJob(c, j) \/ SubmitLost(c, j)
    PROVE  JInv'
<1> DEFINE q == cmd[c]
<1>1. Submission(c, j)
  BY DEF SubmitJob, SubmitLost, Submission, Queue!Submit, Queue!Become
<1>2. q \in Command
  BY DEF JInv, JTypes
<1>3. PICK p \in {Polling(q, j), Dismissed(q, j), Ended(q, "error")} :
         /\ cmd' = [cmd EXCEPT ![c] = p]
         /\ p = Polling(q, j) => q.wait
         /\ p = Dismissed(q, j) => ~q.wait
  <2>1. CASE SubmitJob(c, j)
    <3>1. CASE q.wait
      <4>1. cmd' = [cmd EXCEPT ![c] = Polling(q, j)]
        BY <2>1, <3>1 DEF SubmitJob, Submitted, Polling
      <4>2. Polling(q, j).step = "poll" /\ Dismissed(q, j).step = "idle"
        BY <1>2, PollingRecord, DismissedRecord
      <4> QED
        BY <3>1, <4>1, <4>2
    <3>2. CASE ~q.wait
      <4>1. cmd' = [cmd EXCEPT ![c] = Dismissed(q, j)]
        BY <2>1, <3>2 DEF SubmitJob, Submitted, Dismissed
      <4>2. Polling(q, j).step = "poll" /\ Dismissed(q, j).step = "idle"
        BY <1>2, PollingRecord, DismissedRecord
      <4> QED
        BY <3>2, <4>1, <4>2
    <3> QED
      BY <3>1, <3>2
  <2>2. CASE SubmitLost(c, j)
    <3>1. cmd' = [cmd EXCEPT ![c] = Ended(q, "error")]
      BY <2>2, ExitIsEnd DEF SubmitLost
    <3>2. Ended(q, "error").exit = "error" /\ Polling(q, j).step = "poll"
          /\ Ended(q, "error").step = "idle"
      BY <1>2, EndedRecord, PollingRecord
    <3>3. Dismissed(q, j).exit = "queued"
      BY <1>2 DEF Dismissed, Command
    <3> QED
      BY <3>1, <3>2, <3>3
  <2> QED
    BY <2>1, <2>2
<1>4. /\ row' \in [Jobs -> States] /\ ask' \in [Jobs -> Asks] /\ Lined'
      /\ row'[j] = "queued" /\ q.kind \in Kinds
      /\ ask'[j] = [kind |-> q.kind, by |-> c]
      /\ \A k \in Jobs : row'[k] # "absent" => k <= j
      /\ \A d \in Clients : d # c => CommandOk(cmd[d], d, row', ask', done')
  BY <1>1, SubmissionFacts
<1> HIDE DEF q
<1>5. p \in Command /\ CommandOk(p, c, row', ask', done')
  <2>1. CASE p = Polling(q, j)
    <3>1. p \in Command /\ p.step = "poll" /\ p.id = j /\ p.wait /\ p.kind = q.kind
      BY <1>2, <1>3, <2>1, PollingRecord
    <3>2. Own(p, c, row', ask')
      BY <1>4, <3>1 DEF Own
    <3> QED
      BY <1>4, <3>1, <3>2 DEF CommandOk
  <2>2. CASE p = Dismissed(q, j)
    <3>1. p \in Command /\ p.step = "idle" /\ ~p.wait
      BY <1>2, <1>3, <2>2, DismissedRecord
    <3> QED
      BY <3>1 DEF CommandOk
  <2>3. CASE p = Ended(q, "error")
    BY <1>2, <2>3, ErrorIsOk
  <2> QED
    BY <1>3, <2>1, <2>2, <2>3
<1>6. /\ cmd' \in [Clients -> Command]
      /\ \A d \in Clients : CommandOk(cmd'[d], d, row', ask', done')
  BY <1>3, <1>4, <1>5 DEF JInv, JTypes
<1>7. UNCHANGED <<orphans, done>>
  BY <1>1 DEF Submission
<1> QED
  BY <1>4, <1>6, <1>7 DEF JInv, JTypes

LEMMA FirstJobs ==
    ASSUME HInit
    PROVE  JInv
<1>1. /\ \A j \in Jobs : row[j] = "absent"
      /\ done = {} /\ orphans = {}
      /\ \A c \in Clients : cmd[c] = NoCmd
  BY DEF HInit, Queue!Init
<1>2. row \in [Jobs -> States] /\ ask \in [Jobs -> Asks] /\ cmd \in [Clients -> Command]
  BY NoCmdRecord DEF HInit, Queue!Init, States, Asks, Kinds
<1>3. Lined
  BY <1>1 DEF Lined, Started
<1> QED
  BY <1>1, <1>2, <1>3, NoCmdRecord DEF JInv, JTypes

LEMMA JInvImpliesTruth == JInv => ExitTellsTruth
BY DEF JInv, CommandOk, Own, ExitTellsTruth

-----------------------------------------------------------------------------
(* A step of the jobs.                                                     *)

HStep ==
    \/ \E c \in Clients :
         \/ \E kind \in Kinds, wait \in BOOLEAN : Run(c, kind, wait)
         \/ \E j \in Jobs : RunCancel(c, j) \/ SubmitJob(c, j) \/ SubmitLost(c, j)
         \/ RequestFails(c) \/ Poll(c) \/ CancelJob(c) \/ Interrupt(c)
         \/ cmd' = [cmd EXCEPT ![c] = NoCmd] /\ UNCHANGED <<row, ask, signalled, orphans, done>>
    \/ \E j \in Jobs : StartJob(j) \/ Work(j) \/ JobEnds(j) \/ Shutdown(j) \/ Reboot(j)

LEMMA HStepKeeps ==
    ASSUME JInv, HStep \/ UNCHANGED hvars
    PROVE  JInv'
<1>1. CASE UNCHANGED hvars \/ \E j \in Jobs : Shutdown(j)
  BY <1>1 DEF hvars, Shutdown, JInv, JTypes, Lined, Started
<1> QED
  BY <1>1, RunStep, SubmitStep, FailsStep, PollStep, CancelStep, InterruptStep, ForgetStep,
     StartStep, WorkStep, JobOverStep
     DEF HStep

-----------------------------------------------------------------------------
(* What every step keeps.                                                  *)

\* The log grows, and a row that changed was written by a new transaction.
LogGrows ==
    /\ Extends(log, log') /\ captured <= captured' /\ case' = case
    /\ \A k \in Keys : \/ rows'[k] = rows[k]
                       \/ \E i \in Len(log) + 1..Len(log') : k \in DOMAIN log'[i].after

LEMMA CommitGrows ==
    ASSUME UInv, NEW of \in Nat, NEW read \in SUBSET Keys, NEW after \in Writes,
           Commit(of, read, after), captured' = captured, case' = case
    PROVE  LogGrows
<1>1. Committed(of, read, after)
  BY CommitFacts DEF UInv
<1>2. Extends(log, log') /\ captured \in Nat
  BY <1>1, CommitExtends DEF UInv
<1>3. ASSUME NEW k \in Keys
      PROVE  \/ rows'[k] = rows[k]
             \/ \E i \in Len(log) + 1..Len(log') : k \in DOMAIN log'[i].after
  <2>1. CASE k \notin DOMAIN after
    BY <2>1 DEF Commit
  <2>2. CASE k \in DOMAIN after
    <3>1. Len(log) \in Nat /\ Len(log') = Len(log) + 1
          /\ log'[Len(log) + 1].after = after
      BY <1>1 DEF Committed
    <3>2. Len(log) + 1 \in Len(log) + 1..Len(log') /\ k \in DOMAIN log'[Len(log) + 1].after
      BY <2>2, <3>1
    <3> QED
      BY <3>2
  <2> QED
    BY <2>1, <2>2
<1> QED
  BY <1>2, <1>3 DEF LogGrows

LEMMA QuietGrows ==
    ASSUME UInv, UNCHANGED <<case, rows, log>>, captured' \in Nat, captured <= captured'
    PROVE  LogGrows
BY SameLog DEF LogGrows, UInv

LEMMA UStepGrows ==
    ASSUME UInv, UStep \/ UNCHANGED uvars
    PROVE  LogGrows
<1>0. captured \in Nat
  BY DEF UInv
<1>1. CASE Writing
  <2>1. PICK after \in Writes, R \in SUBSET Keys : Commit(0, R, after) /\ UNCHANGED others
    BY <1>1 DEF Writing
  <2> QED
    BY <2>1, CommitGrows DEF others
<1>2. CASE CaptureCommit
  BY <1>0, <1>2, QuietGrows DEF CaptureCommit
<1>3. ASSUME NEW c \in Callers, Calling(c) \/ Leaving(c) \/ CallStep(c)
      PROVE  LogGrows
  <2>1. CASE Apply(c)
    <3> DEFINE S == Reversed(call[c])
    <3>1. call[c].step = "apply" /\ Commit(call[c].target, {}, Restored(S))
          /\ UNCHANGED <<case, captured>>
      BY <2>1 DEF Apply, Done
    <3>2. call[c].target \in Nat /\ S \in SUBSET (1..Len(log)) /\ {} \in SUBSET Keys
      BY <3>1, ReversedFacts
    <3> HIDE DEF S
    <3>3. Restored(S) \in Writes
      BY <3>2, RestoredFacts DEF UInv
    <3> QED
      BY <3>1, <3>2, <3>3, CommitGrows
  <2>2. CASE ~Apply(c)
    <3>1. UNCHANGED <<case, rows, log, captured>>
      BY <1>3, <2>2
         DEF Calling, Begin, Leaving, CallStep, Check, Plan, Raise, Mark, LoseMark, CutShort
    <3> QED
      BY <1>0, <3>1, QuietGrows
  <2> QED
    BY <2>1, <2>2
<1>4. CASE UNCHANGED uvars
  BY <1>0, <1>4, QuietGrows DEF uvars
<1> QED
  BY <1>1, <1>2, <1>3, <1>4 DEF UStep

\* A job that has been submitted stays what it is, and goes forward.
JobsGoOn ==
    /\ done \subseteq done'
    /\ \A j \in Jobs :
         /\ row[j] # "absent" => row'[j] # "absent" /\ ask'[j] = ask[j]
         /\ row[j] \notin {"absent", "queued"} =>
              row'[j] \notin {"absent", "queued"} /\ (Started(j)' => Started(j))

LEMMA HStepGoesOn ==
    ASSUME JInv, HStep \/ UNCHANGED hvars
    PROVE  JobsGoOn
<1>0. Lined /\ row \in [Jobs -> States]
  BY DEF JInv, JTypes
<1>1. ASSUME UNCHANGED <<row, ask, done>>
      PROVE  JobsGoOn
  BY <1>1 DEF JobsGoOn, Started
<1>2. ASSUME NEW j \in Jobs, StartJob(j) \/ JobEnds(j) \/ Reboot(j)
      PROVE  JobsGoOn
  <2>1. PICK s \in {"running", "succeeded", "failed", "canceled"} :
           /\ row' = [row EXCEPT ![j] = s]
           /\ row[j] = "queued" \/ row[j] = "running"
           /\ UNCHANGED <<ask, done>>
    BY <1>2 DEF StartJob, JobEnds, Reboot, Queue!Start, Queue!End, Queue!Become, Queue!Terminal
  <2>2. row'[j] = s /\ \A k \in Jobs : k # j => row'[k] = row[k]
    BY <1>0, <2>1
  <2> QED
    BY <2>1, <2>2 DEF JobsGoOn, Started
<1>3. ASSUME NEW j \in Jobs, Work(j)
      PROVE  JobsGoOn
  <2>1. done' = done \cup {j} /\ UNCHANGED <<row, ask>> /\ Started(j)
    BY <1>3, WorkStep DEF Work
  <2> QED
    BY <2>1 DEF JobsGoOn, Started
<1>4. ASSUME NEW c \in Clients, CancelJob(c)
      PROVE  JobsGoOn
  <2>1. /\ UNCHANGED <<ask, done>>
        /\ UNCHANGED row \/ (row[cmd[c].id] = "queued"
                             /\ row' = [row EXCEPT ![cmd[c].id] = "canceled"])
    BY <1>4 DEF CancelJob, Queue!Cancel, Queue!Become
  <2> QED
    BY <1>0, <2>1 DEF JobsGoOn, Started
<1>5. ASSUME NEW c \in Clients, NEW j \in Jobs, SubmitJob(c, j) \/ SubmitLost(c, j)
      PROVE  JobsGoOn
  <2>1. Submission(c, j) /\ UNCHANGED done
    BY <1>5 DEF SubmitJob, SubmitLost, Submission, Queue!Submit, Queue!Become
  <2>2. row[j] = "absent" /\ ask \in [Jobs -> Asks]
        /\ (\E s : row' = [row EXCEPT ![j] = s]) /\ (\E a : ask' = [ask EXCEPT ![j] = a])
    BY <2>1 DEF Submission, Fresh, JInv, JTypes
  <2>3. \A k \in Jobs : k # j => row'[k] = row[k] /\ ask'[k] = ask[k]
    BY <1>0, <2>2
  <2> QED
    BY <2>1, <2>2, <2>3 DEF JobsGoOn, Started
<1> QED
  BY <1>1, <1>2, <1>3, <1>4, <1>5 DEF HStep, hvars, Run, RunCancel, RequestFails, Poll, Interrupt, Shutdown

-----------------------------------------------------------------------------
(* The demo's steps, as steps of the jobs and of undo.                     *)

LEMMA TripFacts ==
    /\ Tourist \in Callers /\ Tourist \in Clients
    /\ Keys = {Invoices, Orders} /\ Invoices # Orders
    /\ \A t \in Trips : /\ t.kinds \subseteq {"tui", "up"} /\ t.others \subseteq Clients
                        /\ t.tours \in Nat /\ (t.tours > 0 => Tourist \notin t.others)
BY TourAssumption DEF TourAssumption, Trip

LEMMA DirectWriting ==
    ASSUME UInv, NEW keys \in SUBSET Keys, NEW image \in [keys -> Images],
           Commit(0, {}, image), UNCHANGED others
    PROVE  Writing
<1>1. image \in Writes
  BY DEF Writes
<1>2. {} \in SUBSET Keys
  OBVIOUS
<1> QED
  BY <1>1, <1>2 DEF Writing

LEMMA WriteIsWriting ==
    ASSUME UInv, NEW keys \in SUBSET Keys, Write(keys)
    PROVE  Writing
<1>1. Len(log) + 1 \in Images
  BY LogFacts DEF UInv, Images
<1>2. [k \in keys |-> Len(log) + 1] \in [keys -> Images]
  BY <1>1
<1> QED
  BY <1>2, DirectWriting DEF Write, others

LEMMA DropFacts ==
    ASSUME ddl \in Seq(Drop)
    PROVE  /\ Len(ddl) \in Nat
           /\ \A i \in 1..Len(ddl) : ddl[i].at \in Nat /\ ddl[i].image \in Images
<1>1. Len(ddl) \in Nat /\ \A i \in 1..Len(ddl) : ddl[i] \in Drop
  BY ElementOfSeq, LenProperties
<1> QED
  BY <1>1 DEF Drop

\* The image that a recovery brings back.
LEMMA RecoveryIsWriting ==
    ASSUME UInv, DTypes, NEW j \in Jobs, LoadTable(j)
    PROVE  /\ look[j] \in 1..Len(ddl)
           /\ [k \in {Orders} |-> ddl[look[j]].image] \in Writes
           /\ Commit(0, {}, [k \in {Orders} |-> ddl[look[j]].image])
           /\ UNCHANGED others /\ Writing
<1>1. look[j] \in 1..Len(ddl)
  BY DropFacts DEF DTypes, LoadTable
<1>2. ddl[look[j]].image \in Images
  BY <1>1, DropFacts DEF DTypes
<1>3. {Orders} \in SUBSET Keys
  BY TripFacts
<1>4. [k \in {Orders} |-> ddl[look[j]].image] \in [{Orders} -> Images]
  BY <1>2
<1>5. /\ Commit(0, {}, [k \in {Orders} |-> ddl[look[j]].image])
      /\ UNCHANGED others
  BY DEF LoadTable, others
<1>6. [k \in {Orders} |-> ddl[look[j]].image] \in Writes
  BY <1>3, <1>4 DEF Writes
<1> QED
  BY <1>1, <1>3, <1>4, <1>5, <1>6, DirectWriting

LEMMA DemoUndoes ==
    ASSUME UInv, DTypes, Incident, [DNext]_dvars
    PROVE  UStep \/ UNCHANGED uvars
<1>0. Tourist \in Callers /\ {Orders} \in SUBSET Keys /\ {Invoices} \in SUBSET Keys
  BY TripFacts
<1>1. CASE SeedShop
  <2>1. Commit(0, {}, [k \in Keys |-> Len(log) + 1]) /\ UNCHANGED others
    BY <1>1 DEF SeedShop, others
  <2>2. Len(log) + 1 \in Images
    BY LogFacts DEF UInv, Images
  <2>3. [k \in Keys |-> Len(log) + 1] \in [Keys -> Images] /\ Keys \in SUBSET Keys
    BY <2>2
  <2> QED
    BY <2>1, <2>3, DirectWriting DEF UStep
<1>2. CASE SeedWatermark
  BY <1>0, <1>2, WriteIsWriting DEF SeedWatermark, UStep
<1>3. CASE FireIncident
  BY <1>0, <1>3, WriteIsWriting DEF FireIncident, UStep
<1>4. CASE FireDependent
  BY <1>0, <1>4, WriteIsWriting DEF FireDependent, UStep
<1>5. CASE \E keys \in SUBSET Keys \ {{}} : OtherSession(keys)
  BY <1>5, WriteIsWriting DEF OtherSession, UStep
<1>6. CASE \E j \in Jobs : LoadTable(j)
  BY <1>6, RecoveryIsWriting DEF UStep
<1>7. CASE Quit
  <2>1. Leaving(Tourist)
    BY <1>7 DEF Quit, Leaving, Goto
  <2> QED
    BY <1>0, <2>1 DEF UStep
<1>8. CASE AskUndo
  <2> DEFINE m == tour.incident
             mode == IF tour.dependents = {} THEN "clean_only" ELSE "cascade"
  <2>1. Begin(Tourist, mode, {m}, FALSE) /\ tour.stage = "undoing"
    BY <1>8 DEF AskUndo, Undo, At
  <2>2. m \in Apps
    BY <2>1 DEF Incident, Later
  <2>3. {m} \in SUBSET (1..Len(log)) /\ {m} # {} /\ FALSE \in BOOLEAN /\ mode \in Modes
    BY <2>2 DEF Apps, Modes
  <2> HIDE DEF mode, m
  <2>4. Calling(Tourist)
    BY <2>1, <2>3 DEF Calling
  <2> QED
    BY <1>0, <2>4 DEF UStep
<1>9. CASE UndoStep
  BY <1>9, AskedIsStep, ServedIsStep DEF UndoStep
<1>10. CASE UNCHANGED dvars
  BY <1>10 DEF dvars
<1>11. ASSUME UNCHANGED uvars
       PROVE  UStep \/ UNCHANGED uvars
  BY <1>11
<1>12. CASE \E kind \in trip.kinds : Launch(kind)
  BY <1>12 DEF Launch
<1>13. CASE Advance \/ Fail \/ SnapshotTaken \/ Drained \/ Landed \/ ReadLog
  BY <1>13 DEF Advance, Fail, SnapshotTaken, Drained, Landed, ReadLog
<1>14. CASE ShowPreview \/ UndoAnswered \/ CountOrders \/ DropOrders \/ OrdersBack
            \/ AskJob("seeding", "snapshot") \/ AskJob("recovering", "recover-table")
  BY <1>14 DEF ShowPreview, UndoAnswered, CountOrders, DropOrders, OrdersBack, AskJob
<1>15. CASE \E j \in Jobs : Snapshot(j) \/ PickDrop(j) \/ CreateTable(j)
  BY <1>15 DEF Snapshot, PickDrop, CreateTable
<1>16. CASE ForwardDdl \/ HostedStep \/ RebootStep \/ ShutdownStep
            \/ \E c \in trip.others : OtherCommand(c)
  BY <1>16 DEF ForwardDdl, HostedStep, RebootStep, ShutdownStep, OtherCommand
<1> QED
  BY <1>1, <1>2, <1>3, <1>4, <1>5, <1>6, <1>7, <1>8, <1>9, <1>10, <1>12, <1>13, <1>14, <1>15, <1>16
     DEF DNext

LEMMA DemoRuns ==
    ASSUME trip \in Trips, [DNext]_dvars
    PROVE  HStep \/ UNCHANGED hvars
<1>0. Tourist \in Clients /\ trip.others \subseteq Clients
  BY TripFacts
<1>1. CASE Quit
  BY <1>0, <1>1 DEF Quit, HStep
<1>2. CASE \E j \in Jobs : Snapshot(j) \/ LoadTable(j)
  BY <1>2 DEF Snapshot, LoadTable, HStep
<1>3. CASE HostedStep
  BY <1>0, <1>3 DEF HostedStep, ClientStep, HStep
<1>4. CASE RebootStep \/ ShutdownStep
  BY <1>4 DEF RebootStep, ShutdownStep, HStep
<1>5. CASE \E c \in trip.others : OtherCommand(c)
  BY <1>0, <1>5 DEF OtherCommand, HStep
<1>6. ASSUME NEW stage, NEW kind \in Kinds, AskJob(stage, kind)
      PROVE  HStep
  <2>1. Run(Tourist, kind, TRUE) /\ TRUE \in BOOLEAN
    BY <1>6 DEF AskJob
  <2> QED
    BY <1>0, <2>1 DEF HStep
<1>7. CASE AskJob("seeding", "snapshot") \/ AskJob("recovering", "recover-table")
  <2>1. "snapshot" \in Kinds /\ "recover-table" \in Kinds
    BY DEF Kinds
  <2> QED
    BY <1>6, <1>7, <2>1
<1>8. CASE UNCHANGED dvars
  BY <1>8 DEF dvars
<1>9. CASE (\E kind \in trip.kinds : Launch(kind)) \/ Advance \/ Fail \/ SnapshotTaken
  BY <1>9 DEF Launch, Advance, Fail, SnapshotTaken
<1>10. CASE SeedShop \/ SeedWatermark \/ Drained \/ FireIncident \/ FireDependent \/ Landed
  BY <1>10 DEF SeedShop, SeedWatermark, Drained, FireIncident, FireDependent, Landed, Rest
<1>11. CASE ReadLog \/ ShowPreview \/ AskUndo \/ UndoAnswered \/ CountOrders \/ DropOrders \/ OrdersBack
  BY <1>11 DEF ReadLog, ShowPreview, AskUndo, UndoAnswered, CountOrders, DropOrders, OrdersBack, Rest
<1>12. CASE (\E j \in Jobs : PickDrop(j) \/ CreateTable(j)) \/ ForwardDdl \/ UndoStep
            \/ \E keys \in SUBSET Keys \ {{}} : OtherSession(keys)
  BY <1>12 DEF PickDrop, CreateTable, ForwardDdl, UndoStep, OtherSession
<1> QED
  BY <1>1, <1>2, <1>3, <1>4, <1>5, <1>7, <1>8, <1>9, <1>10, <1>11, <1>12 DEF DNext

-----------------------------------------------------------------------------
(* The steps of the walkthrough: where it goes, and what else it changes.  *)

Goes(stage, step) == tour' \in Tour /\ tour'.stage = stage /\ tour'.step = step
SameScene == tour'.stage = tour.stage /\ tour'.step = tour.step
SameTale ==
    /\ tour'.kind = tour.kind /\ tour'.mark = tour.mark /\ tour'.incident = tour.incident
    /\ tour'.before = tour.before /\ tour'.counted = tour.counted /\ tour'.after = tour.after
    /\ tour'.back = tour.back /\ tour'.current = tour.current

Moved(r, stage, step) == [r EXCEPT !.stage = stage, !.step = step]

LEMMA MovedRecord ==
    ASSUME NEW r \in Tour, NEW stage \in Stages, NEW step \in Steps
    PROVE  LET p == Moved(r, stage, step)
           IN  /\ p \in Tour /\ p.stage = stage /\ p.step = step
               /\ p.kind = r.kind /\ p.mark = r.mark /\ p.incident = r.incident
               /\ p.before = r.before /\ p.counted = r.counted /\ p.after = r.after
               /\ p.back = r.back /\ p.current = r.current
BY DEF Moved, Tour

LEMMA ToFacts ==
    ASSUME tour \in Tour, NEW stage \in Stages, NEW step \in Steps, To(stage, step)
    PROVE  Goes(stage, step) /\ SameTale
<1>1. tour' = Moved(tour, stage, step)
  BY DEF To, Moved
<1> QED
  BY <1>1, MovedRecord DEF Goes, SameTale

LEMMA Places ==
    /\ Stages = {"intro", "seeded", "damage", "log", "preview", "restored", "dropped", "done", "error",
                 "seeding", "firing", "investigating", "previewing", "undoing", "dropping",
                 "recovering", "off"}
    /\ \A s \in {"intro", "seeded", "damage", "log", "preview", "restored", "dropped", "done", "error",
                 "seeding", "firing", "investigating", "previewing", "undoing", "dropping",
                 "recovering", "off"} : s \in Stages
    /\ \A s \in {"none", "schema", "track", "job", "wait", "drain", "fire", "land", "ask",
                 "count", "drop"} : s \in Steps
BY DEF Stages, Resting, Busy, Steps

LEMMA NoTourRecord ==
    /\ NoTour \in Tour /\ NoTour.stage = "off" /\ NoTour.mark = 0 /\ NoTour.incident = 0
    /\ NoTour.back = 0 /\ NoTour.counted = 0
BY Places DEF NoTour, Tour, Images

LEMMA LaunchTale ==
    ASSUME NEW kind \in {"tui", "up"}, Launch(kind)
    PROVE  /\ IF kind = "up" THEN Goes("seeding", "schema") ELSE Goes("intro", "none")
           /\ tour'.kind = kind /\ tour'.mark = 0 /\ tour'.incident = 0 /\ tour'.back = 0
           /\ tour'.counted = 0
<1> DEFINE stage == IF kind = "up" THEN "seeding" ELSE "intro"
           step == IF kind = "up" THEN "schema" ELSE "none"
<1>1. tour' = [NoTour EXCEPT !.kind = kind, !.stage = stage, !.step = step]
  BY DEF Launch
<1>2. stage \in Stages /\ step \in Steps
  BY Places
<1>3. /\ kind = "up" => stage = "seeding" /\ step = "schema"
      /\ kind # "up" => stage = "intro" /\ step = "none"
  OBVIOUS
<1> HIDE DEF stage, step
<1>4. /\ tour' \in Tour /\ tour'.stage = stage /\ tour'.step = step
      /\ tour'.kind = kind /\ tour'.mark = 0 /\ tour'.incident = 0 /\ tour'.back = 0
      /\ tour'.counted = 0
  BY <1>1, <1>2, NoTourRecord DEF Tour
<1> QED
  BY <1>3, <1>4 DEF Goes

LEMMA AdvanceTale ==
    ASSUME tour \in Tour, Advance
    PROVE  /\ SameTale
           /\ \/ tour.stage = "intro" /\ Goes("seeding", "schema")
              \/ tour.stage = "seeded" /\ Goes("firing", "drain")
              \/ tour.stage = "damage" /\ tour.kind # "up" /\ Goes("investigating", "none")
              \/ tour.stage = "log" /\ Goes("previewing", "none")
              \/ tour.stage = "preview" /\ Goes("undoing", "ask")
              \/ tour.stage = "restored" /\ Goes("dropping", "count")
              \/ tour.stage = "dropped" /\ Goes("recovering", "ask")
              \/ Goes("off", "none")
<1>1. \/ tour.stage = "intro" /\ To("seeding", "schema")
      \/ tour.stage = "seeded" /\ To("firing", "drain")
      \/ tour.stage = "damage" /\ tour.kind # "up" /\ To("investigating", "none")
      \/ tour.stage = "log" /\ To("previewing", "none")
      \/ tour.stage = "preview" /\ To("undoing", "ask")
      \/ tour.stage = "restored" /\ To("dropping", "count")
      \/ tour.stage = "dropped" /\ To("recovering", "ask")
      \/ To("off", "none")
  <2>1. CASE tour.kind = "up" /\ tour.stage = "damage"
    BY <2>1 DEF Advance
  <2>2. CASE ~(tour.kind = "up" /\ tour.stage = "damage")
    <3>1. To(Start[tour.stage][1], Start[tour.stage][2]) /\ tour.stage \in Resting
      BY <2>2 DEF Advance
    <3>2. /\ Start["intro"] = <<"seeding", "schema">> /\ Start["seeded"] = <<"firing", "drain">>
          /\ Start["damage"] = <<"investigating", "none">>
          /\ Start["log"] = <<"previewing", "none">> /\ Start["preview"] = <<"undoing", "ask">>
          /\ Start["restored"] = <<"dropping", "count">>
          /\ Start["dropped"] = <<"recovering", "ask">>
          /\ Start["done"] = <<"off", "none">> /\ Start["error"] = <<"off", "none">>
      BY DEF Start
    <3> QED
      BY <2>2, <3>1, <3>2 DEF Resting
  <2> QED
    BY <2>1, <2>2
<1> QED
  BY <1>1, ToFacts, Places

LEMMA WatermarkTale ==
    ASSUME tour \in Tour, Len(log) \in Nat, SeedWatermark
    PROVE  /\ IF tour.kind = "up" THEN Goes("seeded", "none") ELSE Goes("seeding", "job")
           /\ tour'.kind = tour.kind /\ tour'.mark = Len(log) + 1
           /\ tour'.incident = tour.incident /\ tour'.before = tour.before
           /\ tour'.back = tour.back /\ tour'.counted = tour.counted
<1> DEFINE stage == IF tour.kind = "up" THEN "seeded" ELSE "seeding"
           step == IF tour.kind = "up" THEN "none" ELSE "job"
<1>1. tour' = [tour EXCEPT !.mark = Len(log) + 1, !.stage = stage, !.step = step]
  BY DEF SeedWatermark
<1>2. stage \in Stages /\ step \in Steps /\ Len(log) + 1 \in Nat
  BY Places
<1>3. /\ tour.kind = "up" => stage = "seeded" /\ step = "none"
      /\ tour.kind # "up" => stage = "seeding" /\ step = "job"
  OBVIOUS
<1> HIDE DEF stage, step
<1>4. /\ tour' \in Tour /\ tour'.stage = stage /\ tour'.step = step
      /\ tour'.kind = tour.kind /\ tour'.mark = Len(log) + 1
      /\ tour'.incident = tour.incident /\ tour'.before = tour.before
      /\ tour'.back = tour.back /\ tour'.counted = tour.counted
  BY <1>1, <1>2 DEF Tour
<1> QED
  BY <1>3, <1>4 DEF Goes

LEMMA FireTale ==
    ASSUME tour \in Tour, Len(log) \in Nat, FireIncident \/ FireDependent
    PROVE  /\ Goes("firing", "land")
           /\ tour'.kind = tour.kind /\ tour'.mark = Len(log) + 1
           /\ FireIncident => tour'.incident = Len(log) + 1
           /\ ~FireIncident => tour'.incident = tour.incident
           /\ tour'.before = tour.before /\ tour'.back = tour.back /\ tour'.counted = tour.counted
<1>0. "land" \in Steps /\ "firing" \in Stages /\ Len(log) + 1 \in Nat
  BY Places
<1>1. CASE FireIncident
  <2>1. tour' = [tour EXCEPT !.incident = Len(log) + 1, !.mark = Len(log) + 1, !.step = "land"]
        /\ tour.stage = "firing"
    BY <1>1 DEF FireIncident, At
  <2>2. /\ tour' \in Tour /\ tour'.stage = tour.stage /\ tour'.step = "land"
        /\ tour'.kind = tour.kind /\ tour'.mark = Len(log) + 1
        /\ tour'.incident = Len(log) + 1 /\ tour'.before = tour.before
        /\ tour'.back = tour.back /\ tour'.counted = tour.counted
    BY <1>0, <2>1 DEF Tour
  <2> QED
    BY <1>1, <2>1, <2>2 DEF Goes
<1>2. CASE ~FireIncident
  <2>1. tour' = [tour EXCEPT !.mark = Len(log) + 1] /\ tour.stage = "firing" /\ tour.step = "land"
    BY <1>2 DEF FireDependent, At
  <2>2. /\ tour' \in Tour /\ tour'.stage = tour.stage /\ tour'.step = tour.step
        /\ tour'.kind = tour.kind /\ tour'.mark = Len(log) + 1
        /\ tour'.incident = tour.incident /\ tour'.before = tour.before
        /\ tour'.back = tour.back /\ tour'.counted = tour.counted
    BY <1>0, <2>1 DEF Tour
  <2> QED
    BY <1>2, <2>1, <2>2 DEF Goes
<1> QED
  BY <1>1, <1>2

LEMMA PreviewTale ==
    ASSUME UInv, tour \in Tour, ShowPreview
    PROVE  Goes("preview", "none") /\ SameTale
<1> DEFINE S == Conflicts(tour.incident)
           r == [tour EXCEPT !.dependents = S]
<1>1. tour' = Moved(r, "preview", "none")
  BY DEF ShowPreview, Has, Moved
<1>2. S \in SUBSET Nat
  BY DEF Conflicts, Tracked, UInv
<1> HIDE DEF S
<1>3. /\ r \in Tour /\ r.kind = tour.kind /\ r.mark = tour.mark /\ r.incident = tour.incident
      /\ r.before = tour.before /\ r.counted = tour.counted /\ r.after = tour.after
      /\ r.back = tour.back /\ r.current = tour.current
  BY <1>2 DEF Tour
<1> HIDE DEF r
<1>4. "preview" \in Stages /\ "none" \in Steps
  BY Places
<1> QED
  BY <1>1, <1>3, <1>4, MovedRecord DEF Goes, SameTale

LEMMA HeldFacts ==
    ASSUME UInv
    PROVE  Held \in Images
BY TripFacts DEF Held, UInv, Images

LEMMA CountTale ==
    ASSUME UInv, tour \in Tour, CountOrders
    PROVE  /\ Goes("dropping", "drop") /\ tour'.before = Held /\ tour'.counted = Len(log)
           /\ tour'.kind = tour.kind /\ tour'.mark = tour.mark /\ tour'.incident = tour.incident
           /\ tour'.back = tour.back
<1> DEFINE image == Held
<1>1. tour' = [tour EXCEPT !.before = image, !.counted = Len(log), !.step = "drop"]
      /\ tour.stage = "dropping"
  BY DEF CountOrders, At
<1>2. image \in Images /\ Len(log) \in Nat /\ "drop" \in Steps /\ "dropping" \in Stages
  BY HeldFacts, LogFacts, Places DEF UInv
<1> HIDE DEF image
<1>3. /\ tour' \in Tour /\ tour'.stage = "dropping" /\ tour'.step = "drop"
      /\ tour'.before = image /\ tour'.counted = Len(log)
      /\ tour'.kind = tour.kind /\ tour'.mark = tour.mark /\ tour'.incident = tour.incident
      /\ tour'.back = tour.back
  BY <1>1, <1>2 DEF Tour
<1> QED
  BY <1>3 DEF Goes, image

LEMMA BackTale ==
    ASSUME UInv, tour \in Tour, OrdersBack, cmd[Tourist].exit = "ok"
    PROVE  /\ Goes("done", "none") /\ tour'.after = Held
           /\ tour'.kind = tour.kind /\ tour'.mark = tour.mark /\ tour'.incident = tour.incident
           /\ tour'.before = tour.before /\ tour'.back = tour.back /\ tour'.current = tour.current
           /\ tour'.counted = tour.counted
<1> DEFINE image == Held
           r == [tour EXCEPT !.after = image]
<1>1. tour' = Moved(r, "done", "none")
  BY DEF OrdersBack, Has, Moved
<1>2. image \in Images
  BY HeldFacts
<1> HIDE DEF image
<1>3. /\ r \in Tour /\ r.kind = tour.kind /\ r.mark = tour.mark /\ r.incident = tour.incident
      /\ r.before = tour.before /\ r.after = image /\ r.back = tour.back /\ r.current = tour.current /\ r.counted = tour.counted
  BY <1>2 DEF Tour
<1> HIDE DEF r
<1>0. "done" \in Stages /\ "none" \in Steps
  BY Places
<1>4. Goes("done", "none") /\ tour'.after = image
      /\ tour'.kind = tour.kind /\ tour'.mark = tour.mark /\ tour'.incident = tour.incident
      /\ tour'.before = tour.before /\ tour'.back = tour.back /\ tour'.current = tour.current
      /\ tour'.counted = tour.counted
  BY <1>0, <1>1, <1>3, MovedRecord DEF Goes
<1> QED
  BY <1>4 DEF image

LEMMA PickTale ==
    ASSUME tour \in Tour, NEW j \in Jobs, PickDrop(j)
    PROVE  /\ tour' \in Tour /\ SameScene
           /\ tour'.kind = tour.kind /\ tour'.mark = tour.mark /\ tour'.incident = tour.incident
           /\ tour'.before = tour.before /\ tour'.after = tour.after /\ tour'.back = tour.back
           /\ tour'.counted = tour.counted
           /\ IF ask[j].by = Tourist THEN tour'.current = (fwd \in {0, Len(ddl)})
              ELSE tour'.current = tour.current
<1> DEFINE b == fwd \in {0, Len(ddl)}
<1>1. tour' = IF ask[j].by = Tourist THEN [tour EXCEPT !.current = b] ELSE tour
  BY DEF PickDrop
<1>2. b \in BOOLEAN
  OBVIOUS
<1> HIDE DEF b
<1>3. CASE ask[j].by = Tourist
  <2>1. /\ tour' \in Tour /\ tour'.stage = tour.stage /\ tour'.step = tour.step
        /\ tour'.kind = tour.kind /\ tour'.mark = tour.mark /\ tour'.incident = tour.incident
        /\ tour'.before = tour.before /\ tour'.after = tour.after /\ tour'.back = tour.back
           /\ tour'.counted = tour.counted
        /\ tour'.current = b
    BY <1>1, <1>2, <1>3 DEF Tour
  <2> QED
    BY <1>3, <2>1 DEF SameScene, b
<1>4. CASE ask[j].by # Tourist
  BY <1>1, <1>4 DEF SameScene
<1> QED
  BY <1>3, <1>4

LEMMA LoadTale ==
    ASSUME tour \in Tour, Len(log) \in Nat, NEW j \in Jobs, LoadTable(j)
    PROVE  /\ tour' \in Tour /\ SameScene /\ tour'.back = Len(log) + 1
           /\ tour'.kind = tour.kind /\ tour'.mark = tour.mark /\ tour'.incident = tour.incident
           /\ tour'.before = tour.before /\ tour'.after = tour.after
           /\ tour'.current = tour.current /\ tour'.counted = tour.counted
<1>1. tour' = [tour EXCEPT !.back = Len(log) + 1] /\ Len(log) + 1 \in Nat
  BY DEF LoadTable
<1> QED
  BY <1>1 DEF Tour, SameScene

-----------------------------------------------------------------------------
(* Types, and what only grows.                                             *)

LEMMA DdlGrows ==
    ASSUME DTypes, UInv, LogGrows, UNCHANGED ddl \/ DropTable
    PROVE  /\ ddl' \in Seq(Drop) /\ \A i \in 1..Len(ddl') : ddl'[i].at <= Len(log')
           /\ Len(ddl) \in Nat /\ Len(ddl') \in Nat /\ Len(ddl) <= Len(ddl')
           /\ \A i \in 1..Len(ddl) : ddl'[i] = ddl[i]
           /\ Here \in Nat /\ Here' \in Nat /\ Here <= Here'
           /\ DropTable => /\ Len(ddl') = Len(ddl) + 1 /\ ddl'[Len(ddl')].image = Held
                           /\ Here < Here'
<1>0. /\ Len(log) \in Nat /\ Len(log') \in Nat /\ Len(log) <= Len(log')
      /\ Len(ddl) \in Nat /\ \A i \in 1..Len(ddl) : ddl[i].at \in Nat /\ ddl[i].at <= Len(log)
      /\ ddl \in Seq(Drop)
  BY DropFacts DEF LogGrows, Extends, DTypes
<1>1. CASE UNCHANGED ddl /\ ~DropTable
  BY <1>0, <1>1 DEF Here
<1>2. CASE DropTable
  <2> DEFINE d == [at |-> Len(log), image |-> Held]
  <2>1. d \in Drop /\ d.at = Len(log) /\ d.image = Held
    BY <1>0, HeldFacts DEF Drop
  <2>2. ddl' = Append(ddl, d)
    BY <1>2 DEF DropTable
  <2> HIDE DEF d
  <2>3. /\ ddl' \in Seq(Drop) /\ Len(ddl') = Len(ddl) + 1
        /\ ddl'[Len(ddl) + 1] = d
        /\ \A i \in 1..Len(ddl) : ddl'[i] = ddl[i]
    BY <1>0, <2>1, <2>2, AppendProperties
  <2>4. \A i \in 1..Len(ddl') : ddl'[i].at <= Len(log')
    BY <1>0, <2>1, <2>3
  <2> QED
    BY <1>0, <2>1, <2>3, <2>4 DEF Here
<1> QED
  BY <1>1, <1>2

\* What happens to the rest of the demo's world.
World ==
    /\ trip' = trip /\ there' \in BOOLEAN
    /\ UNCHANGED ddl \/ DropTable
    /\ backups' = backups \/ backups' = backups \cup {Here}
    /\ fwd' = fwd \/ (fwd < Len(ddl) /\ fwd' = fwd + 1)
    /\ look' = look \/ \E j \in Jobs : PickDrop(j)
    /\ made' = made \/ \E j \in Jobs : CreateTable(j)
    /\ spent' \in Spending

LEMMA SpendFacts ==
    ASSUME DTypes
    PROVE  /\ [spent EXCEPT !["tours"] = @ + 1] \in Spending
           /\ [spent EXCEPT !["writes"] = @ + 1] \in Spending
           /\ [spent EXCEPT !["commands"] = @ + 1] \in Spending
           /\ [spent EXCEPT !["reboots"] = @ + 1] \in Spending
           /\ spent' = spent => spent' \in Spending
BY DEF DTypes, Spending

LEMMA WorldStep ==
    ASSUME DTypes, [DNext]_dvars
    PROVE  World
<1>0. there \in BOOLEAN
  BY DEF DTypes
<1>1. CASE \E kind \in trip.kinds : Launch(kind)
  BY <1>0, <1>1, SpendFacts DEF World, Launch
<1>2. CASE Advance \/ Fail \/ SnapshotTaken \/ Drained \/ Landed \/ ReadLog \/ Quit
  BY <1>0, <1>2, SpendFacts DEF World, Advance, Fail, SnapshotTaken, Drained, Landed, ReadLog, Quit, Rest
<1>3. CASE SeedShop \/ SeedWatermark \/ FireIncident \/ FireDependent \/ ShowPreview \/ AskUndo
  BY <1>0, <1>3, SpendFacts DEF World, SeedShop, SeedWatermark, FireIncident, FireDependent, ShowPreview, AskUndo, Rest
<1>4. CASE UndoAnswered \/ CountOrders \/ DropOrders \/ OrdersBack
            \/ AskJob("seeding", "snapshot") \/ AskJob("recovering", "recover-table")
  BY <1>0, <1>4, SpendFacts
     DEF World, UndoAnswered, CountOrders, DropOrders, OrdersBack, AskJob, Rest
<1>5. CASE \E j \in Jobs : Snapshot(j) \/ LoadTable(j)
  BY <1>0, <1>5, SpendFacts DEF World, Snapshot, LoadTable
<1>6. CASE \E j \in Jobs : PickDrop(j)
  <2>1. PICK j \in Jobs : PickDrop(j)
    BY <1>6
  <2>2. UNCHANGED <<trip, there, ddl, fwd, backups, made, spent>>
    BY <2>1 DEF PickDrop
  <2> QED
    BY <1>0, <2>1, <2>2, SpendFacts DEF World
<1>7. CASE \E keys \in SUBSET Keys \ {{}} : OtherSession(keys)
  BY <1>0, <1>7, SpendFacts DEF World, OtherSession, Spend, Unchanged
<1>8. CASE ForwardDdl \/ HostedStep \/ ShutdownStep \/ UndoStep
  BY <1>0, <1>8, SpendFacts DEF World, ForwardDdl, HostedStep, ShutdownStep, UndoStep, Unchanged
<1>9. CASE RebootStep \/ \E c \in trip.others : OtherCommand(c)
  BY <1>0, <1>9, SpendFacts DEF World, RebootStep, OtherCommand, Spend, Unchanged
<1>10. CASE UNCHANGED dvars
  BY <1>0, <1>10, SpendFacts DEF World, dvars, demo
<1>11. CASE \E j \in Jobs : CreateTable(j)
  <2>1. PICK j \in Jobs : CreateTable(j)
    BY <1>11
  <2>2. UNCHANGED <<trip, ddl, fwd, backups, look, spent>> /\ there' = TRUE
    BY <2>1 DEF CreateTable
  <2> QED
    BY <2>1, <2>2, SpendFacts DEF World
<1> QED
  BY <1>1, <1>2, <1>3, <1>4, <1>5, <1>6, <1>7, <1>8, <1>9, <1>10, <1>11 DEF DNext

LEMMA WriteFacts ==
    ASSUME UInv, NEW keys \in SUBSET Keys, Write(keys)
    PROVE  /\ Len(log) \in Nat /\ Len(log') = Len(log) + 1
           /\ Apps' = Apps \cup {Len(log) + 1}
<1>1. Len(log) + 1 \in Images
  BY LogFacts DEF UInv, Images
<1>2. [k \in keys |-> Len(log) + 1] \in [keys -> Images]
  BY <1>1
<1>3. [k \in keys |-> Len(log) + 1] \in Writes /\ {} \in SUBSET Keys
  BY <1>2 DEF Writes
<1>4. Committed(0, {}, [k \in keys |-> Len(log) + 1])
  BY <1>3, CommitFacts DEF Write, UInv
<1> QED
  BY <1>4, AppsGrow DEF Committed

LEMMA AppsKept ==
    ASSUME LogGrows
    PROVE  Apps \subseteq Apps'
BY DEF LogGrows, Extends, Apps

Bounded ==
    /\ tour.mark <= Len(log) /\ tour.incident <= Len(log) /\ tour.back <= Len(log)
    /\ tour.counted <= Len(log)

LEMMA TourStep ==
    ASSUME UInv, DTypes, LogGrows, [DNext]_dvars
    PROVE  tour' \in Tour /\ Bounded'
<1>0. /\ tour \in Tour /\ Bounded /\ trip \in Trips
      /\ tour.mark \in Nat /\ tour.incident \in Nat /\ tour.back \in Nat
      /\ tour.counted \in Nat
      /\ Len(log) \in Nat /\ Len(log') \in Nat /\ Len(log) <= Len(log')
      /\ {Orders} \in SUBSET Keys /\ {Invoices} \in SUBSET Keys
  BY TripFacts DEF DTypes, Bounded, Tour, LogGrows, Extends
<1>1. CASE UNCHANGED tour
  BY <1>0, <1>1 DEF Bounded
<1>2. CASE \E kind \in trip.kinds : Launch(kind)
  <2>1. PICK kind \in {"tui", "up"} : Launch(kind)
    BY <1>0, <1>2, TripFacts
  <2>2. tour' \in Tour /\ tour'.mark = 0 /\ tour'.incident = 0 /\ tour'.back = 0
        /\ tour'.counted = 0
    BY <2>1, LaunchTale DEF Goes
  <2> QED
    BY <1>0, <2>2 DEF Bounded
<1>3. CASE SeedWatermark
  <2>1. Len(log') = Len(log) + 1
    BY <1>0, <1>3, WriteFacts DEF SeedWatermark
  <2>2. /\ tour' \in Tour /\ tour'.mark = Len(log) + 1
        /\ tour'.incident = tour.incident /\ tour'.back = tour.back
        /\ tour'.counted = tour.counted
    BY <1>0, <1>3, WatermarkTale DEF Goes
  <2> QED
    BY <1>0, <2>1, <2>2 DEF Bounded
<1>4. CASE FireIncident \/ FireDependent
  <2>1. Len(log') = Len(log) + 1
    BY <1>0, <1>4, WriteFacts DEF FireIncident, FireDependent
  <2>2. /\ tour' \in Tour /\ tour'.mark = Len(log) + 1 /\ tour'.back = tour.back
        /\ tour'.counted = tour.counted
        /\ tour'.incident = Len(log) + 1 \/ tour'.incident = tour.incident
    BY <1>0, <1>4, FireTale DEF Goes
  <2> QED
    BY <1>0, <2>1, <2>2 DEF Bounded
<1>5. CASE \E j \in Jobs : LoadTable(j)
  <2>1. PICK j \in Jobs : LoadTable(j)
    BY <1>5
  <2>2. Len(log') = Len(log) + 1
    BY <2>1, RecoveryIsWriting, CommitFacts DEF UInv, Committed
  <2>3. /\ tour' \in Tour /\ tour'.back = Len(log) + 1
        /\ tour'.mark = tour.mark /\ tour'.incident = tour.incident
        /\ tour'.counted = tour.counted
    BY <1>0, <2>1, LoadTale
  <2> QED
    BY <1>0, <2>2, <2>3 DEF Bounded
<1>6. ASSUME tour' \in Tour, tour'.mark = tour.mark, tour'.incident = tour.incident,
             tour'.back = tour.back, tour'.counted = tour.counted
      PROVE  tour' \in Tour /\ Bounded'
  BY <1>0, <1>6 DEF Bounded
<1>7. CASE ShowPreview \/ \E j \in Jobs : PickDrop(j)
  BY <1>0, <1>6, <1>7, PreviewTale, PickTale DEF Goes, SameTale
<1>8. CASE OrdersBack /\ cmd[Tourist].exit = "ok"
  BY <1>0, <1>6, <1>8, BackTale DEF Goes
<1>9. CASE Advance
  BY <1>0, <1>6, <1>9, AdvanceTale DEF Goes, SameTale
<1>10. ASSUME NEW stage \in Stages, NEW step \in Steps, To(stage, step)
       PROVE  tour' \in Tour /\ Bounded'
  BY <1>0, <1>6, <1>10, ToFacts DEF Goes, SameTale
<1>11. CASE Quit \/ Fail \/ SeedShop \/ SnapshotTaken \/ Drained \/ Landed \/ DropOrders
  BY <1>10, <1>11, Places DEF Quit, Fail, SeedShop, SnapshotTaken, Drained, Landed, DropOrders
<1>12. CASE ReadLog \/ AskUndo \/ UndoAnswered \/ (OrdersBack /\ cmd[Tourist].exit # "ok")
            \/ AskJob("seeding", "snapshot") \/ AskJob("recovering", "recover-table")
  BY <1>10, <1>12, Places DEF ReadLog, AskUndo, UndoAnswered, Restored_, OrdersBack, AskJob
<1>13. CASE \E j \in Jobs : Snapshot(j) \/ CreateTable(j)
  BY <1>1, <1>13 DEF Snapshot, CreateTable
<1>14. CASE \E keys \in SUBSET Keys \ {{}} : OtherSession(keys)
  BY <1>1, <1>14 DEF OtherSession, Unchanged
<1>15. CASE ForwardDdl \/ HostedStep \/ RebootStep \/ ShutdownStep \/ UndoStep
            \/ \E c \in trip.others : OtherCommand(c)
  BY <1>1, <1>15 DEF ForwardDdl, HostedStep, RebootStep, ShutdownStep, UndoStep, OtherCommand, Unchanged
<1>16. CASE UNCHANGED dvars
  BY <1>1, <1>16 DEF dvars, demo
<1>17. CASE CountOrders
  <2>1. /\ tour' \in Tour /\ tour'.counted = Len(log)
        /\ tour'.mark = tour.mark /\ tour'.incident = tour.incident /\ tour'.back = tour.back
    BY <1>0, <1>17, CountTale DEF Goes
  <2> QED
    BY <1>0, <2>1 DEF Bounded
<1> QED
  BY <1>2, <1>3, <1>4, <1>5, <1>7, <1>8, <1>9, <1>11, <1>12, <1>13, <1>14, <1>15, <1>16, <1>17 DEF DNext

LEMMA DTypesStep ==
    ASSUME UInv, DTypes, LogGrows, [DNext]_dvars
    PROVE  DTypes'
<1>1. World
  BY WorldStep
<1>2. /\ ddl' \in Seq(Drop) /\ \A i \in 1..Len(ddl') : ddl'[i].at <= Len(log')
      /\ Len(ddl) \in Nat /\ Len(ddl') \in Nat /\ Len(ddl) <= Len(ddl')
      /\ Here \in Nat /\ Here' \in Nat /\ Here <= Here'
  BY <1>1, DdlGrows DEF World
<1>3. fwd' \in 0..Len(ddl')
  BY <1>1, <1>2 DEF World, DTypes
<1>4. backups' \subseteq 0..Here'
  <2>1. backups \subseteq 0..Here /\ (backups' = backups \/ backups' = backups \cup {Here})
    BY <1>1 DEF World, DTypes
  <2>2. Here \in 0..Here' /\ \A b \in 0..Here : b \in 0..Here'
    BY <1>2
  <2> QED
    BY <2>1, <2>2
<1>5. look' \in [Jobs -> Nat] /\ \A j \in Jobs : look'[j] <= Len(ddl')
  <2>1. CASE look' = look
    BY <1>2, <2>1 DEF DTypes
  <2>2. CASE \E j \in Jobs : PickDrop(j)
    <3>1. PICK j \in Jobs : PickDrop(j)
      BY <2>2
    <3>2. NewestDrop \in Nat /\ NewestDrop <= Len(ddl) /\ look' = [look EXCEPT ![j] = NewestDrop]
      BY <1>2, <3>1 DEF PickDrop, NewestDrop, DTypes
    <3> QED
      BY <1>2, <3>2 DEF DTypes
  <2> QED
    BY <1>1, <2>1, <2>2 DEF World
<1>6. tour' \in Tour /\ Bounded'
  BY TourStep
<1>7. /\ made' \in [Jobs -> Nat]
      /\ \A j \in Jobs : made'[j] <= Len(log') + 1 /\ (made'[j] > 0 => look'[j] > 0)
  <2>0. Len(log) \in Nat /\ Len(log') \in Nat /\ Len(log) <= Len(log')
    BY DEF LogGrows, Extends
  <2>1. /\ made \in [Jobs -> Nat] /\ look \in [Jobs -> Nat]
        /\ \A j \in Jobs : made[j] <= Len(log) + 1 /\ (made[j] > 0 => look[j] > 0)
    BY DEF DTypes
  <2>2. \A j \in Jobs : look[j] > 0 => look'[j] > 0
    <3>1. CASE look' = look
      BY <3>1
    <3>2. CASE \E j \in Jobs : PickDrop(j)
      <4>1. PICK j \in Jobs : look' = [look EXCEPT ![j] = NewestDrop] /\ NewestDrop > 0
        BY <3>2 DEF PickDrop
      <4> QED
        BY <2>1, <4>1
    <3> QED
      BY <1>1, <3>1, <3>2 DEF World
  <2>3. CASE made' = made
    BY <2>0, <2>1, <2>2, <2>3
  <2>4. CASE \E j \in Jobs : CreateTable(j)
    <3>1. PICK j \in Jobs : made' = [made EXCEPT ![j] = Len(log) + 1] /\ look[j] > 0
      BY <2>4 DEF CreateTable
    <3>2. /\ made' \in [Jobs -> Nat] /\ made'[j] = Len(log) + 1
          /\ \A k \in Jobs : k # j => made'[k] = made[k]
      BY <2>0, <2>1, <3>1
    <3> QED
      BY <2>0, <2>1, <2>2, <3>1, <3>2
  <2> QED
    BY <1>1, <2>3, <2>4 DEF World
<1> QED
  BY <1>1, <1>2, <1>3, <1>4, <1>5, <1>6, <1>7 DEF DTypes, Bounded, World

-----------------------------------------------------------------------------
(* Steps of the others.                                                    *)

\* What may happen to the walkthrough's own command meanwhile.
Fresher(q) ==
    /\ q.id \in Jobs /\ row'[q.id] = "queued" /\ look[q.id] = 0 /\ q.id \notin done'

Follows ==
    LET q == cmd[Tourist]
        p == cmd'[Tourist]
    IN  /\ p.kind = q.kind /\ p.wait = q.wait
        /\ q.step = "idle" => p = q
        /\ Attached(p) => (Attached(q) /\ p.id = q.id) \/ Fresher(p)

LEMMA SubmitFollows ==
    ASSUME JInv, Looked, DTypes, Tourist \in Clients,
           NEW j \in Jobs, SubmitJob(Tourist, j) \/ SubmitLost(Tourist, j)
    PROVE  Follows
<1> DEFINE q == cmd[Tourist]
           p == cmd'[Tourist]
<1>1. q \in Command /\ q.step = "submit" /\ cmd \in [Clients -> Command]
  BY DEF JInv, JTypes, SubmitJob, SubmitLost
<1>2. CASE SubmitLost(Tourist, j)
  <2>1. p = Ended(q, "error")
    BY <1>1, <1>2, ExitIsEnd DEF SubmitLost
  <2>2. p.kind = q.kind /\ p.wait = q.wait /\ p.step = "idle" /\ p.exit = "error"
    BY <1>1, <2>1, EndedRecord
  <2> QED
    BY <1>1, <2>2 DEF Follows, Attached
<1>3. CASE SubmitJob(Tourist, j) /\ ~q.wait
  <2>1. p = Dismissed(q, j)
    BY <1>1, <1>3 DEF SubmitJob, Submitted, Dismissed
  <2>2. p.kind = q.kind /\ p.wait = q.wait /\ p.step = "idle" /\ p.exit = "queued"
    BY <1>1, <2>1 DEF Dismissed, Command
  <2> QED
    BY <1>1, <2>2 DEF Follows, Attached
<1>4. CASE SubmitJob(Tourist, j) /\ q.wait
  <2>1. p = Polling(q, j)
    BY <1>1, <1>4 DEF SubmitJob, Submitted, Polling
  <2>2. p.kind = q.kind /\ p.wait = q.wait /\ p.id = j
    BY <1>1, <2>1, PollingRecord
  <2>3. row[j] = "absent" /\ row' = [row EXCEPT ![j] = "queued"] /\ done' = done
    BY <1>4 DEF SubmitJob, Fresh, Queue!Submit, Queue!Become
  <2>4. row'[j] = "queued" /\ look[j] = 0 /\ j \notin done'
    BY <2>3 DEF Looked, JInv, JTypes, Lined, DTypes
  <2> QED
    BY <1>1, <2>2, <2>4 DEF Follows, Fresher
<1> QED
  BY <1>2, <1>3, <1>4

LEMMA HostedFollows ==
    ASSUME JInv, Looked, DTypes, trip.tours > 0, HostedStep
    PROVE  Follows
<1>0. Tourist \in Clients /\ trip.others \subseteq Clients /\ Tourist \notin trip.others
  BY TripFacts DEF DTypes
<1>1. cmd[Tourist] \in Command /\ cmd \in [Clients -> Command]
  BY <1>0 DEF JInv, JTypes
<1>2. ASSUME cmd'[Tourist] = cmd[Tourist]
      PROVE  Follows
  BY <1>2 DEF Follows
<1>3. CASE \E c \in trip.others : CancelJob(c) \/ Interrupt(c)
  <2>1. cmd'[Tourist] = cmd[Tourist]
    BY <1>0, <1>1, <1>3 DEF CancelJob, Interrupt, Exit
  <2> QED
    BY <1>2, <2>1
<1>4. CASE \E j \in Jobs : StartJob(j) \/ JobEnds(j)
  BY <1>2, <1>4 DEF StartJob, JobEnds
<1>5. ASSUME NEW c \in Clients, ClientStep(c), c # Tourist
      PROVE  Follows
  <2>1. cmd'[Tourist] = cmd[Tourist]
    BY <1>0, <1>1, <1>5 DEF ClientStep, SubmitJob, SubmitLost, RequestFails, Poll, Exit
  <2> QED
    BY <1>2, <2>1
<1>6. CASE RequestFails(Tourist) \/ Poll(Tourist)
  <2> DEFINE q == cmd[Tourist]
             code == IF RequestFails(Tourist) THEN "error" ELSE Outcome(row[q.id])
             p == Ended(q, code)
  <2>1. cmd' = [cmd EXCEPT ![Tourist] = p] /\ q.step \in {"submit", "poll", "cancel"}
        /\ (~RequestFails(Tourist) => q.step = "poll")
    BY <1>0, <1>6, ExitIsEnd DEF RequestFails, Poll, InFlight
  <2>2. ~RequestFails(Tourist) => row[q.id] \in {"succeeded", "failed", "canceled"}
    BY <1>6 DEF Poll, Queue!Terminal
  <2>3. code \in {"ok", "error", "canceled"}
    BY <2>2 DEF Outcome
  <2>4. p.kind = q.kind /\ p.wait = q.wait /\ p.step = "idle" /\ p.exit = code /\ p.id = q.id
    BY <1>1, <2>3, EndedRecord
  <2>5. code # "error" => q.step = "poll"
    BY <2>1
  <2>6. cmd'[Tourist] = p
    BY <1>0, <1>1, <2>1
  <2> HIDE DEF p, code
  <2> QED
    BY <2>1, <2>4, <2>5, <2>6 DEF Follows, Attached
<1>7. CASE \E j \in Jobs : SubmitJob(Tourist, j) \/ SubmitLost(Tourist, j)
  BY <1>0, <1>7, SubmitFollows
<1> QED
  BY <1>0, <1>3, <1>4, <1>5, <1>6, <1>7 DEF HostedStep, ClientStep

\* The job that the walkthrough's recovery waits for, or has waited for.
LEMMA OwnJob ==
    ASSUME JInv, Waits, Final, Attached(cmd[Tourist]), Tourist \in Clients
    PROVE  LET j == cmd[Tourist].id
           IN  /\ j \in Jobs /\ row[j] # "absent"
               /\ ask[j].kind = "recover-table" /\ ask[j].by = Tourist
               /\ \A k \in Jobs : row[k] # "absent" /\ ask[k].by = Tourist => k <= j
               /\ tour.stage = "done" => j \in done
<1> DEFINE q == cmd[Tourist]
<1>1. q.kind = "recover-table" /\ q.wait /\ CommandOk(q, Tourist, row, ask, done)
      /\ (tour.stage = "done" => q.step = "idle" /\ q.exit = "ok")
  BY DEF Waits, JInv
<1>2. q.step = "poll" \/ (q.step = "idle" /\ q.exit = "ok")
  BY DEF Attached
<1>3. Own(q, Tourist, row, ask) /\ (q.step = "idle" => q.id \in done)
  BY <1>1, <1>2 DEF CommandOk
<1> QED
  BY <1>1, <1>3 DEF Own

\* Once written, orders stay written; a recovery makes the one before count.
LEMMA ChangedKept ==
    ASSUME DTypes, LogGrows, tour'.counted = tour.counted
    PROVE  /\ Touched => Touched'
           /\ tour'.back \in {tour.back, Len(log) + 1} /\ Changed => Changed'
           /\ tour'.back = Len(log) + 1 /\ Touched => Changed'
           /\ \A i \in Len(log) + 1..Len(log') : Orders \in DOMAIN log'[i].after =>
                Touched' /\ (tour'.back = tour.back => Changed')
<1>1. /\ Len(log) \in Nat /\ Len(log') \in Nat /\ Len(log) <= Len(log')
      /\ \A i \in 1..Len(log) : log'[i] = log[i]
      /\ tour.counted \in Nat /\ tour.counted <= Len(log)
      /\ tour.back \in Nat /\ tour.back <= Len(log)
  BY DEF LogGrows, Extends, DTypes, Tour
<1>2. ASSUME NEW i \in tour.counted + 1..Len(log), Orders \in KeysOf(i)
      PROVE  i \in tour'.counted + 1..Len(log') /\ Orders \in DOMAIN log'[i].after /\ i # Len(log) + 1
  <2>1. i \in 1..Len(log) /\ i \in tour'.counted + 1..Len(log')
    BY <1>1
  <2> QED
    BY <1>1, <1>2, <2>1 DEF KeysOf
<1>3. Touched => Touched'
  BY <1>2 DEF Touched, KeysOf
<1>4. tour'.back \in {tour.back, Len(log) + 1} /\ Changed => Changed'
  BY <1>2 DEF Changed, KeysOf
<1>5. tour'.back = Len(log) + 1 /\ Touched => Changed'
  BY <1>2 DEF Changed, Touched, KeysOf
<1>6. ASSUME NEW i \in Len(log) + 1..Len(log'), Orders \in DOMAIN log'[i].after
      PROVE  Touched' /\ (tour'.back = tour.back => Changed')
  <2>1. i \in tour'.counted + 1..Len(log') /\ i # tour.back
    BY <1>1
  <2> QED
    BY <1>6, <2>1 DEF Touched, Changed, KeysOf
<1> QED
  BY <1>3, <1>4, <1>5, <1>6

\* What the table holds changes when somebody writes it only.
LEMMA HeldKept ==
    ASSUME UInv, DTypes, LogGrows, UNCHANGED <<there, made>>, tour'.counted = tour.counted,
           tour'.back = tour.back
    PROVE  /\ Held' = Held \/ Changed'
           /\ Held' = Held \/ Touched'
           /\ there /\ ~Empty => ~Empty'
<1>1. /\ Len(log) \in Nat /\ Len(log') \in Nat /\ Len(log) <= Len(log')
      /\ \A i \in 1..Len(log) : log'[i] = log[i]
  BY DEF LogGrows, Extends
<1>2. there /\ ~Empty => ~Empty'
  <2> SUFFICES ASSUME there, NEW i \in 1..Len(log), Orders \in KeysOf(i),
                      ~\E j \in Jobs : made[j] > i
               PROVE  ~Empty'
    BY DEF Empty
  <2>1. i \in 1..Len(log') /\ Orders \in DOMAIN log'[i].after
    BY <1>1 DEF KeysOf
  <2> QED
    BY <2>1 DEF Empty, KeysOf
<1>3. CASE \E i \in Len(log) + 1..Len(log') : Orders \in DOMAIN log'[i].after
  BY <1>2, <1>3, ChangedKept
<1>4. CASE ~\E i \in Len(log) + 1..Len(log') : Orders \in DOMAIN log'[i].after
  <2>1. rows'[Orders] = rows[Orders]
    BY <1>4, TripFacts DEF LogGrows
  <2>2. \A i \in 1..Len(log') : Orders \in DOMAIN log'[i].after =>
            i \in 1..Len(log) /\ Orders \in KeysOf(i)
    BY <1>1, <1>4 DEF KeysOf
  <2>3. Empty => Empty'
    BY <2>2 DEF Empty, KeysOf
  <2>4. Held' = Held
    BY <1>2, <2>1, <2>3 DEF Held
  <2> QED
    BY <1>2, <2>4
<1> QED
  BY <1>3, <1>4

\* A step of the world, with all that it keeps.
Onward ==
    /\ DInv /\ UInv' /\ JInv' /\ DTypes' /\ LogGrows /\ JobsGoOn
    /\ World /\ Here \in Nat /\ Here' \in Nat /\ Here <= Here'

Story == Incident /\ Waits /\ Provided /\ CountStands /\ Dropped

LEMMA StoryFacts ==
    ASSUME Onward
    PROVE  /\ Story /\ tour \in Tour /\ trip' = trip
           /\ backups \subseteq backups' /\ \A b \in backups : b \in Nat
           /\ Here \in Nat /\ Here' \in Nat /\ Here <= Here'
           /\ Apps \subseteq Apps' /\ captured \in Nat /\ captured' \in Nat
           /\ captured <= captured' /\ tour.incident \in Nat /\ Len(log) \in Nat
           /\ Tourist \in Clients /\ Orders \in Keys /\ Invoices \in Keys
<1>1. Story /\ tour \in Tour /\ LogGrows /\ World /\ UInv /\ DTypes
  BY DEF Onward, DInv, Tale, Story, DTypes
<1>2. backups \subseteq backups' /\ \A b \in backups : b \in Nat
  BY <1>1 DEF World, DTypes
<1>3. trip' = trip /\ Here \in Nat /\ Here' \in Nat /\ Here <= Here'
  BY DEF Onward, World
<1>4. Apps \subseteq Apps' /\ captured \in Nat /\ captured' \in Nat /\ captured <= captured'
  BY <1>1, AppsKept DEF Onward, LogGrows, UInv
<1>5. tour.incident \in Nat /\ Len(log) \in Nat
  BY <1>1 DEF Tour, LogGrows, Extends
<1> QED
  BY <1>1, <1>2, <1>3, <1>4, <1>5, TripFacts

LEMMA JobsMarked ==
    ASSUME Onward, \A j \in Jobs : look'[j] > 0 => look[j] > 0
                       \/ (ask[j].kind = "recover-table" /\ row[j] = "running"),
           \A j \in Jobs : look[j] > 0 => look'[j] > 0,
           \A j \in Jobs : j \in done' /\ j \notin done =>
               /\ row[j] # "absent"
               /\ ask[j].kind = "snapshot" => backups' # {}
               /\ ask[j].kind = "recover-table" => look'[j] > 0
    PROVE  Saved' /\ Looked'
<1>1. JInv /\ Saved /\ Looked /\ JobsGoOn /\ done' \subseteq Jobs
      /\ backups \subseteq backups'
  BY DEF Onward, DInv, Tale, JInv, JTypes, World
<1>2. \A j \in done : row[j] # "absent" /\ j \in Jobs
  BY <1>1 DEF JInv, JTypes, Lined
<1>3. \A j \in done' : ask'[j] = ask[j]
  BY <1>1, <1>2 DEF JobsGoOn
<1>4. Saved'
  BY <1>1, <1>3 DEF Saved
<1>5. ASSUME NEW j \in Jobs, look'[j] > 0
      PROVE  ask'[j].kind = "recover-table" /\ row'[j] \notin {"absent", "queued"}
  <2>1. ask[j].kind = "recover-table" /\ row[j] \notin {"absent", "queued"}
    BY <1>1, <1>5 DEF Looked
  <2> QED
    BY <1>1, <2>1 DEF JobsGoOn
<1>6. ASSUME NEW j \in Jobs, j \in done', ask'[j].kind = "recover-table"
      PROVE  look'[j] > 0
  BY <1>1, <1>3, <1>6 DEF Looked
<1> QED
  BY <1>4, <1>5, <1>6 DEF Looked

\* The scene stays, and so does what it relies on.
LEMMA SceneKept ==
    ASSUME Onward, SameScene, tour'.kind = tour.kind, tour'.mark = tour.mark,
           tour'.incident = tour.incident, tour'.before = tour.before,
           tour'.counted = tour.counted, UNCHANGED ddl,
           there => there', there => Held' = Held \/ Touched',
           tour.stage # "off" => Follows
    PROVE  Incident' /\ Waits' /\ Provided' /\ CountStands' /\ Dropped'
<1>1. Incident /\ Waits /\ Provided /\ CountStands /\ Dropped /\ LogGrows /\ World /\ DTypes
  BY DEF Onward, DInv, Tale
<1>2. Incident'
  <2>1. Apps \subseteq Apps' /\ captured \in Nat /\ captured' \in Nat /\ captured <= captured'
        /\ tour.incident \in Nat
    BY <1>1, AppsKept DEF LogGrows, Onward, DInv, UInv, DTypes, Tour
  <2> QED
    BY <1>1, <2>1 DEF Incident, SameScene, At
<1>3. Waits'
  <2>1. trip' = trip
    BY <1>1 DEF World
  <2>2. CASE tour.stage = "off"
    BY <2>1, <2>2 DEF Waits, SameScene, At, Final
  <2>3. CASE tour.stage # "off"
    BY <1>1, <2>1, <2>3 DEF Waits, SameScene, At, Final, Follows
  <2> QED
    BY <2>2, <2>3
<1>4. Provided'
  <2>1. backups \subseteq backups' /\ Here \in Nat /\ Here' \in Nat /\ Here <= Here'
    BY <1>1 DEF World, Onward
  <2>2. \A b \in backups : b \in Nat
    BY DEF Onward, DInv, DTypes
  <2> QED
    BY <1>1, <2>1, <2>2 DEF Provided, SameScene
<1>5. Touched => Touched'
  BY <1>1, ChangedKept
<1>6. Dropped'
  BY <1>1, <1>5 DEF Dropped, SameScene
<1>7. CountStands'
  BY <1>1, <1>5 DEF CountStands, SameScene, At
<1> QED
  BY <1>2, <1>3, <1>4, <1>6, <1>7

\* Nothing of the walkthrough changes but its command, and no recovery is done.
LEMMA AsideKeeps ==
    ASSUME Onward, UNCHANGED <<tour, ddl, there, look, made>>, tour.stage # "off" => Follows,
           \A j \in Jobs : j \in done' /\ j \notin done =>
               row[j] # "absent" /\ ask[j].kind = "snapshot" /\ backups' # {}
    PROVE  Tale'
<1>0. Tourist \in Clients
  BY TripFacts
<1>9. /\ Held' = Held \/ Changed'
      /\ Held' = Held \/ Touched'
      /\ there /\ ~Empty => ~Empty'
      /\ Changed => Changed'
  BY HeldKept, ChangedKept DEF Onward, DInv
<1>1. Incident' /\ Waits' /\ Provided' /\ CountStands' /\ Dropped'
  BY <1>9, SceneKept DEF SameScene
<1>2. Saved' /\ Looked'
  BY JobsMarked
<1>3. Waits /\ Looked /\ Recovering /\ Told /\ JInv /\ UInv /\ DTypes /\ LogGrows /\ JobsGoOn
  BY DEF Onward, DInv, Tale
<1>4. Told'
  BY <1>3, <1>9 DEF Told
<1>5. ASSUME Final, Attached(cmd[Tourist])', cmd'[Tourist].id = cmd[Tourist].id,
             Attached(cmd[Tourist])
      PROVE  Recovering'
  <2>1. PICK j \in Jobs : j = cmd[Tourist].id /\ row[j] # "absent" /\ ask[j].kind = "recover-table"
    BY <1>0, <1>3, <1>5, OwnJob
  <2>2. Started(j)' /\ look[j] > 0 => Started(j)
    BY <1>3, <2>1 DEF JobsGoOn, Looked
  <2>3. j \in done' => j \in done
    BY <2>1
  <2>4. /\ Started(j) /\ look[j] > 0 /\ tour.current => look[j] = Len(ddl)
        /\ j \in done => there /\ ~Empty /\ (tour.current => Held = tour.before \/ Changed)
    BY <1>3, <1>5, <2>1 DEF Recovering
  <2>5. Held = tour.before \/ Changed => Held' = tour'.before \/ Changed'
    BY <1>9
  <2>6. cmd'[Tourist].id = j
    BY <1>5, <2>1
  <2> QED
    BY <1>9, <2>2, <2>3, <2>4, <2>5, <2>6 DEF Recovering
<1>6. ASSUME Fresher(cmd'[Tourist])
      PROVE  Recovering'
  BY <1>6 DEF Fresher, Recovering, Started
<1>7. Recovering'
  <2>1. CASE Final /\ Attached(cmd[Tourist])'
    <3>1. tour.stage # "off"
      BY <2>1 DEF Final, At
    <3>2. Attached(cmd'[Tourist])
      BY <2>1 DEF Attached
    <3>3. \/ Attached(cmd[Tourist]) /\ cmd'[Tourist].id = cmd[Tourist].id
          \/ Fresher(cmd'[Tourist])
      BY <3>1, <3>2 DEF Follows
    <3> QED
      BY <1>5, <1>6, <2>1, <3>3
  <2>2. CASE ~(Final' /\ Attached(cmd[Tourist])')
    BY <2>2 DEF Recovering
  <2> QED
    BY <2>1, <2>2 DEF Final, At
<1> QED
  BY <1>1, <1>2, <1>4, <1>7 DEF Tale

\* A recovery looks for the newest drop: of the walkthrough's own job, the answer
\* is what counts.
LEMMA PickKeeps ==
    ASSUME Onward, NEW j \in Jobs, PickDrop(j)
    PROVE  Tale'
<1>0. Tourist \in Clients /\ UNCHANGED <<uvars, hvars, there, ddl, made>> /\ tour \in Tour
      /\ row[j] = "running" /\ look[j] = 0 /\ ask[j].kind = "recover-table"
      /\ look' = [look EXCEPT ![j] = NewestDrop] /\ NewestDrop > 0
  BY TripFacts DEF PickDrop, Onward, DInv, DTypes
<1>1. Waits /\ Looked /\ Recovering /\ Told /\ JInv /\ UInv /\ DTypes /\ LogGrows /\ JobsGoOn
  BY DEF Onward, DInv, Tale
<1>2. /\ UNCHANGED <<row, ask, done, cmd>> /\ UNCHANGED <<rows, log, captured>>
  BY <1>0 DEF uvars, hvars
<1>3. Len(ddl) \in Nat /\ fwd \in 0..Len(ddl)
  BY <1>1, DropFacts DEF DTypes
<1>4. /\ tour' \in Tour /\ SameScene
      /\ tour'.kind = tour.kind /\ tour'.mark = tour.mark /\ tour'.incident = tour.incident
      /\ tour'.before = tour.before /\ tour'.after = tour.after /\ tour'.back = tour.back
      /\ tour'.counted = tour.counted
      /\ IF ask[j].by = Tourist THEN tour'.current = (fwd \in {0, Len(ddl)})
         ELSE tour'.current = tour.current
  BY <1>0, PickTale
<1>5. /\ look'[j] > 0 /\ \A k \in Jobs : k # j => look'[k] = look[k]
      /\ fwd \in {0, Len(ddl)} => look'[j] = Len(ddl)
  BY <1>0, <1>1, <1>3 DEF DTypes, NewestDrop
<1>8. /\ Held' = Held \/ Changed'
      /\ Held' = Held \/ Touched'
      /\ there /\ ~Empty => ~Empty'
      /\ Changed => Changed'
  BY <1>0, <1>1, <1>4, HeldKept, ChangedKept
<1>6. Incident' /\ Waits' /\ Provided' /\ CountStands' /\ Dropped'
  <2>1. Follows
    BY <1>2 DEF Follows
  <2> QED
    BY <1>0, <1>4, <1>8, <2>1, SceneKept
<1>7. Saved' /\ Looked'
  BY <1>0, <1>2, <1>5, JobsMarked
\* Another job of the walkthrough's process runs before its last one only.
<1>9. ASSUME NEW k \in Jobs, k = cmd[Tourist].id, Final, Attached(cmd[Tourist]),
             ask[j].by = Tourist, Started(k)
      PROVE  j = k /\ k \notin done
  <2>1. j <= k /\ j \in Nat /\ k \in Nat /\ ask[k].kind = "recover-table"
    BY <1>0, <1>1, <1>9, OwnJob, Numbers
  <2>2. ~(j < k)
    BY <1>0, <1>1, <1>9 DEF JInv, Lined
  <2> QED
    BY <1>0, <1>1, <2>1, <2>2 DEF Looked
<1>10. ASSUME Final, Attached(cmd[Tourist])
       PROVE  Recovering'
  <2>1. PICK k \in Jobs : k = cmd[Tourist].id
    BY <1>0, <1>1, <1>10, OwnJob
  <2>2. /\ Started(k) /\ look[k] > 0 /\ tour.current => look[k] = Len(ddl)
        /\ k \in done => there /\ ~Empty /\ (tour.current => Held = tour.before \/ Changed)
    BY <1>1, <1>10, <2>1 DEF Recovering
  <2>3. Started(k)' <=> Started(k)
    BY <1>2 DEF Started
  <2>4. Started(k) /\ look'[k] > 0 /\ tour'.current => look'[k] = Len(ddl)
    <3>1. CASE j = k
      <4>1. ask[j].by = Tourist
        BY <1>0, <1>1, <1>10, <2>1, <3>1, OwnJob
      <4> QED
        BY <1>4, <1>5, <3>1, <4>1
    <3>2. CASE j # k
      BY <1>4, <1>5, <1>9, <1>10, <2>1, <2>2, <3>2
    <3> QED
      BY <3>1, <3>2
  <2>5. k \in done => there /\ ~Empty' /\ (tour'.current => Held' = tour'.before \/ Changed')
    <3>1. CASE k \in done
      <4>1. Started(k)
        BY <3>1 DEF Started
      <4>2. ask[j].by # Tourist
        BY <1>9, <1>10, <2>1, <3>1, <4>1
      <4> QED
        BY <1>4, <1>8, <2>2, <3>1, <4>2
    <3> QED
      BY <3>1
  <2>6. cmd'[Tourist].id = k /\ there' = there /\ done' = done /\ ddl' = ddl
    BY <1>0, <1>2, <2>1
  <2> QED
    BY <2>3, <2>4, <2>5, <2>6 DEF Recovering
<1>11. Recovering'
  <2>1. CASE Final /\ Attached(cmd[Tourist])
    BY <1>10, <2>1
  <2>2. CASE ~(Final /\ Attached(cmd[Tourist]))
    BY <1>2, <1>4, <2>2 DEF Recovering, Final, At, SameScene, Attached
  <2> QED
    BY <2>1, <2>2
<1>12. Told'
  <2>1. CASE tour.stage = "done" /\ tour'.current
    <3>1. Final /\ Attached(cmd[Tourist])
      BY <1>1, <2>1 DEF Final, Attached, Waits
    <3>2. PICK k \in Jobs : k = cmd[Tourist].id /\ k \in done
      BY <1>0, <1>1, <2>1, <3>1, OwnJob
    <3>3. Started(k)
      BY <3>2 DEF Started
    <3>4. ask[j].by # Tourist
      BY <1>9, <3>1, <3>2, <3>3
    <3> QED
      BY <1>1, <1>4, <1>8, <2>1, <3>4 DEF Told
  <2>2. CASE ~(tour.stage = "done" /\ tour'.current)
    BY <1>4, <2>2 DEF Told, SameScene
  <2> QED
    BY <2>1, <2>2
<1> QED
  BY <1>6, <1>7, <1>11, <1>12 DEF Tale

\* Somebody's recovery creates the table, which was not there.
LEMMA CreateKeeps ==
    ASSUME Onward, NEW j \in Jobs, CreateTable(j)
    PROVE  Tale'
<1>0. /\ Tourist \in Clients /\ ~there /\ Len(log) \in Nat /\ tour \in Tour
      /\ UNCHANGED <<uvars, hvars, ddl, look, tour>>
  BY StoryFacts DEF CreateTable
<1>1. UNCHANGED <<row, ask, done, cmd>> /\ UNCHANGED <<rows, log>>
  BY <1>0 DEF uvars, hvars
<1>2. Waits /\ Looked /\ Recovering /\ Told /\ JInv /\ DTypes /\ LogGrows /\ JobsGoOn
  BY DEF Onward, DInv, Tale
<1>3. Incident' /\ Waits' /\ Provided' /\ CountStands' /\ Dropped'
  <2>1. Follows /\ SameScene
    BY <1>0, <1>1 DEF Follows, SameScene
  <2> QED
    BY <1>0, <2>1, SceneKept
<1>4. Saved' /\ Looked'
  BY <1>0, <1>1, JobsMarked
<1>5. Told'
  BY <1>0, <1>2, ChangedKept DEF Told
<1>6. Recovering'
  <2>1. CASE Final /\ Attached(cmd[Tourist])
    <3>1. PICK k \in Jobs : k = cmd[Tourist].id
      BY <1>0, <1>2, <2>1, OwnJob
    <3>2. k \notin done /\ (Started(k) /\ look[k] > 0 /\ tour.current => look[k] = Len(ddl))
      BY <1>0, <1>2, <2>1, <3>1 DEF Recovering
    <3> QED
      BY <1>0, <1>1, <3>1, <3>2 DEF Recovering, Started
  <2>2. CASE ~(Final /\ Attached(cmd[Tourist]))
    BY <1>0, <1>1, <2>2 DEF Recovering, Final, At, Attached
  <2> QED
    BY <2>1, <2>2
<1> QED
  BY <1>3, <1>4, <1>5, <1>6 DEF Tale

\* Somebody's recovery fills the table it has created.
LEMMA LoadKeeps ==
    ASSUME Onward, NEW j \in Jobs, LoadTable(j)
    PROVE  Tale'
<1>0. /\ Tourist \in Clients /\ Orders \in Keys
      /\ there /\ Empty /\ UNCHANGED <<there, ddl, look, made>> /\ look[j] > 0 /\ Work(j)
      /\ tour \in Tour /\ Len(log) \in Nat
  <2>1. there /\ Empty /\ UNCHANGED <<there, ddl, look, made>> /\ Work(j) /\ made[j] > 0
    BY DEF LoadTable, Empty
  <2>2. look[j] > 0
    BY <2>1 DEF Onward, DInv, DTypes
  <2> QED
    BY <2>1, <2>2, StoryFacts
<1>1. Waits /\ Looked /\ Recovering /\ Told /\ Dropped /\ JInv /\ UInv /\ DTypes /\ LogGrows
      /\ JobsGoOn
  BY DEF Onward, DInv, Tale
<1>2. UNCHANGED <<row, ask, cmd>> /\ done' = done \cup {j} /\ Started(j)
  BY <1>0, <1>1, WorkStep DEF Work
<1>3. /\ tour' \in Tour /\ SameScene /\ tour'.kind = tour.kind /\ tour'.mark = tour.mark
      /\ tour'.incident = tour.incident /\ tour'.before = tour.before
      /\ tour'.after = tour.after /\ tour'.current = tour.current
      /\ tour'.counted = tour.counted /\ tour'.back = Len(log) + 1
  BY <1>0, LoadTale
<1>4. Held' = ddl[look[j]].image /\ ~Empty' /\ Touched'
  <2> DEFINE image == ddl[look[j]].image
             after == [k \in {Orders} |-> image]
  <2>1. Commit(0, {}, after) /\ after \in Writes
    BY <1>1, RecoveryIsWriting
  <2>2. Orders \in DOMAIN after /\ after[Orders] = image
    OBVIOUS
  <2> HIDE DEF image, after
  <2>3. rows'[Orders] = image
    BY <1>0, <2>1, <2>2 DEF Commit
  <2>4. Len(log') = Len(log) + 1 /\ log'[Len(log) + 1].after = after
    <3>1. 0 \in Nat /\ {} \in SUBSET Keys /\ log \in Seq(Entry) /\ rows \in [Keys -> Images]
      BY <1>1 DEF UInv
    <3>2. Committed(0, {}, after)
      BY <2>1, <3>1, CommitFacts
    <3> QED
      BY <3>2 DEF Committed
  <2>5. Len(log) + 1 \in 1..Len(log') /\ Len(log) + 1 \in Len(log) + 1..Len(log')
        /\ Orders \in DOMAIN log'[Len(log) + 1].after
    BY <1>0, <2>2, <2>4
  <2>6. \A k \in Jobs : ~(made'[k] > Len(log) + 1)
    BY <1>0, <1>1 DEF DTypes
  <2>7. ~Empty'
    BY <2>5, <2>6 DEF Empty, KeysOf
  <2>8. Touched'
    BY <1>1, <1>3, <2>5, ChangedKept
  <2>9. Held' = image
    BY <1>0, <2>3, <2>7 DEF Held
  <2> QED
    BY <2>7, <2>8, <2>9 DEF image
<1>10. Touched => Changed'
  BY <1>1, <1>3, ChangedKept
<1>5. Incident' /\ Waits' /\ Provided' /\ CountStands' /\ Dropped'
  <2>1. Follows
    BY <1>2 DEF Follows
  <2> QED
    BY <1>0, <1>3, <1>4, <2>1, SceneKept
<1>6. Saved' /\ Looked'
  <2>1. ask[j].kind = "recover-table" /\ row[j] # "absent"
    BY <1>0, <1>1 DEF Looked
  <2> QED
    BY <1>0, <1>2, <2>1, JobsMarked
<1>7. ASSUME Final, Attached(cmd[Tourist])
      PROVE  Recovering' /\ tour.stage # "done"
  <2>1. PICK k \in Jobs : /\ k = cmd[Tourist].id
                          /\ tour.stage = "done" => k \in done
    BY <1>0, <1>1, <1>7, OwnJob
  <2>2. Started(k) /\ look[k] > 0 /\ tour.current => look[k] = Len(ddl)
    BY <1>1, <1>7, <2>1 DEF Recovering
  <2>3. k \notin done
    BY <1>0, <1>1, <1>7, <2>1 DEF Recovering
  <2>4. Started(k)' /\ look[k] > 0 => Started(k)
    BY <1>1 DEF JobsGoOn, Looked
  <2>5. k \in done' /\ tour.current => Held' = tour'.before \/ Changed'
    <3>1. CASE k \in done' /\ tour.current
      <4>1. k = j /\ look[j] = Len(ddl)
        BY <1>0, <1>2, <2>2, <2>3, <3>1
      <4>2. ddl[Len(ddl)].image = tour.before \/ Touched
        BY <1>1, <1>7 DEF Dropped, Final, At
      <4> QED
        BY <1>3, <1>4, <1>10, <4>1, <4>2
    <3> QED
      BY <3>1
  <2>6. cmd'[Tourist].id = k
    BY <1>2, <2>1
  <2>7. tour.stage # "done"
    BY <2>1, <2>3
  <2>8. tour'.current = tour.current /\ look' = look /\ ddl' = ddl /\ there'
    BY <1>0, <1>3
  <2> QED
    BY <1>4, <2>2, <2>4, <2>5, <2>6, <2>7, <2>8 DEF Recovering
<1>8. Recovering'
  <2>1. CASE Final /\ Attached(cmd[Tourist])
    BY <1>7, <2>1
  <2>2. CASE ~(Final /\ Attached(cmd[Tourist]))
    BY <1>2, <1>3, <2>2 DEF Recovering, Final, At, SameScene, Attached
  <2> QED
    BY <2>1, <2>2
<1>9. Told'
  <2>1. tour.stage # "done"
    BY <1>1, <1>7 DEF Final, Attached, Waits
  <2> QED
    BY <1>3, <2>1 DEF Told, SameScene
<1> QED
  BY <1>5, <1>6, <1>8, <1>9 DEF Tale

-----------------------------------------------------------------------------
(* Steps of the walkthrough.                                               *)

LEMMA EarlyScene ==
    ASSUME Onward, UNCHANGED <<look, done>>, ~Final', Story'
    PROVE  Tale'
<1>1. Saved' /\ Looked'
  BY JobsMarked
<1>2. Recovering' /\ Told'
  BY DEF Recovering, Told, Final
<1> QED
  BY <1>1, <1>2 DEF Tale, Story

\* Scenes in which nothing has been shown yet, or nothing is any more.
Plain(t) ==
    \/ t.stage \in {"off", "error", "intro"}
    \/ t.stage = "seeding" /\ t.step \in {"schema", "track"}

LEMMA PlainScene ==
    ASSUME Onward, UNCHANGED <<look, done>>, Plain(tour'),
           tour'.kind = "up" => tour'.stage # "intro",
           tour'.stage # "off" => trip'.tours > 0
    PROVE  Tale'
<1>1. ~Final'
  BY DEF Final, At, Plain
<1>2. Story'
  BY DEF Plain, Story, Incident, Waits, Provided, CountStands, Dropped, Final, At, Shown, Later
<1> QED
  BY <1>1, <1>2, EarlyScene

LEMMA LaunchKeeps ==
    ASSUME Onward, NEW kind \in trip.kinds, Launch(kind)
    PROVE  Tale'
<1>1. kind \in {"tui", "up"} /\ spent.tours \in Nat /\ trip.tours \in Nat /\ trip' = trip
  BY TripFacts, StoryFacts DEF Onward, DInv, DTypes, Spending
<1>2. trip'.tours > 0 /\ UNCHANGED <<look, done>>
  BY <1>1 DEF Launch, hvars
<1>3. /\ IF kind = "up" THEN Goes("seeding", "schema") ELSE Goes("intro", "none")
      /\ tour'.kind = kind
  BY <1>1, LaunchTale
<1> QED
  BY <1>1, <1>2, <1>3, PlainScene DEF Goes, Plain

LEMMA AdvanceKeeps ==
    ASSUME Onward, Advance
    PROVE  Tale'
<1>0. UNCHANGED <<look, done>> /\ UNCHANGED <<log, captured, ddl, backups>> /\ UNCHANGED <<row, ask, cmd>>
  BY DEF Advance, uvars, hvars
<1>1. /\ SameTale
      /\ \/ tour.stage = "intro" /\ Goes("seeding", "schema")
         \/ tour.stage = "seeded" /\ Goes("firing", "drain")
         \/ tour.stage = "damage" /\ tour.kind # "up" /\ Goes("investigating", "none")
         \/ tour.stage = "log" /\ Goes("previewing", "none")
         \/ tour.stage = "preview" /\ Goes("undoing", "ask")
         \/ tour.stage = "restored" /\ Goes("dropping", "count")
         \/ tour.stage = "dropped" /\ Goes("recovering", "ask")
         \/ Goes("off", "none")
  BY AdvanceTale, StoryFacts
<1>2. ~Final'
  BY <1>1 DEF Goes, Final, At
<1>3. Here' = Here /\ Apps' = Apps
  BY <1>0 DEF Here, Apps
<1>4. Story /\ trip' = trip
  BY StoryFacts
<1>5. Incident'
  BY <1>0, <1>1, <1>3, <1>4 DEF Story, Incident, At, Shown, Later, Goes, SameTale
<1>6. Waits'
  BY <1>1, <1>4 DEF Story, Waits, At, Final, Goes, SameTale
<1>7. Provided'
  BY <1>0, <1>1, <1>3, <1>4 DEF Story, Provided, Shown, Later, Goes, SameTale
<1>8. Dropped' /\ CountStands'
  BY <1>0, <1>1, <1>4 DEF Story, CountStands, Dropped, Touched, KeysOf, At, Goes, SameTale
<1> QED
  BY <1>0, <1>2, <1>5, <1>6, <1>7, <1>8, EarlyScene DEF Story

\* Going on without the rest of the demo noticing.
LEMMA Returns ==
    ASSUME Onward, UNCHANGED <<look, done>>, tour' \in Tour, tour'.stage \in {"off", "error"},
           tour'.stage = "error" => tour.stage # "off"
    PROVE  Tale'
<1>1. tour'.stage # "off" => trip'.tours > 0
  BY StoryFacts DEF Story, Waits
<1> QED
  BY <1>1, PlainScene DEF Plain

LEMMA StopKeeps ==
    ASSUME Onward, Quit \/ Fail
    PROVE  Tale'
<1>1. UNCHANGED <<look, done>> /\ tour.stage # "off" /\ (To("off", "none") \/ To("error", "none"))
  BY DEF Quit, Fail, hvars, Busy
<1>2. Goes("off", "none") \/ Goes("error", "none")
  BY <1>1, ToFacts, StoryFacts, Places
<1> QED
  BY <1>1, <1>2, Returns DEF Goes

LEMMA SeedKeeps ==
    ASSUME Onward, SeedShop
    PROVE  Tale'
<1>1. UNCHANGED <<look, done>> /\ tour.stage = "seeding" /\ To("seeding", "track")
  BY DEF SeedShop, Rest, hvars, At
<1>2. Goes("seeding", "track")
  BY <1>1, ToFacts, StoryFacts, Places
<1>3. trip'.tours > 0
  BY <1>1, StoryFacts DEF Story, Waits
<1> QED
  BY <1>1, <1>2, <1>3, PlainScene DEF Goes, Plain

LEMMA WatermarkKeeps ==
    ASSUME Onward, SeedWatermark
    PROVE  Tale'
<1>1. UNCHANGED <<look, done>> /\ tour.stage = "seeding"
  BY DEF SeedWatermark, Rest, hvars, At
<1>2. /\ IF tour.kind = "up" THEN Goes("seeded", "none") ELSE Goes("seeding", "job")
      /\ tour'.kind = tour.kind
  BY StoryFacts, WatermarkTale
<1>3. trip'.tours > 0 /\ tour.kind \in {"tui", "up"}
  BY <1>1, StoryFacts DEF Story, Waits, Tour
<1>4. Story' /\ ~Final'
  BY <1>2, <1>3 DEF Story, Incident, Waits, Provided, CountStands, Dropped, Final, At, Shown, Later, Goes
<1> QED
  BY <1>1, <1>4, EarlyScene

\* The walkthrough submits a job.
LEMMA AskKeeps ==
    ASSUME Onward,
           AskJob("seeding", "snapshot") \/ AskJob("recovering", "recover-table")
    PROVE  Tale'
<1>0. Story /\ tour \in Tour /\ Tourist \in Clients /\ trip' = trip /\ cmd \in [Clients -> Command]
  BY StoryFacts DEF Onward, DInv, JInv, JTypes
<1>1. PICK kind \in Kinds :
        /\ Run(Tourist, kind, TRUE) /\ UNCHANGED <<uvars, ddl, backups, look>>
        /\ \/ kind = "snapshot" /\ At("seeding", "job") /\ To("seeding", "wait")
           \/ kind = "recover-table" /\ At("recovering", "ask") /\ To("recovering", "wait")
  BY DEF AskJob, Kinds
<1>2. cmd' = [cmd EXCEPT ![Tourist] = Ordering(kind, TRUE)] /\ done' = done
  BY <1>1 DEF Run, Ordering
<1>3. LET q == cmd'[Tourist] IN q.step = "submit" /\ q.kind = kind /\ q.wait
  BY <1>0, <1>2, OrderingRecord
<1>4. ~Attached(cmd'[Tourist])
  BY <1>3 DEF Attached
<1>5. /\ SameTale
      /\ \/ kind = "snapshot" /\ At("seeding", "job") /\ Goes("seeding", "wait")
         \/ kind = "recover-table" /\ At("recovering", "ask") /\ Goes("recovering", "wait")
  BY <1>0, <1>1, ToFacts, Places
<1>6. Saved' /\ Looked'
  BY <1>1, <1>2, JobsMarked
<1>7. Recovering'
  BY <1>4 DEF Recovering, Attached
<1>8. Told'
  BY <1>5 DEF Told, Goes
<1>9. Here' = Here /\ UNCHANGED <<ddl, backups>>
  BY <1>1 DEF Here, uvars
<1>10. Apps' = Apps
  BY <1>1 DEF Apps, uvars
<1>11. Incident'
  BY <1>0, <1>5, <1>10 DEF Story, Incident, At, Shown, Later, Goes, SameTale
<1>12. Waits'
  BY <1>0, <1>3, <1>5 DEF Story, Waits, At, Final, Goes, SameTale
<1>13. Provided' /\ CountStands' /\ Dropped'
  <2>1. Touched => Touched'
    BY <1>1, <1>5 DEF Touched, KeysOf, SameTale, uvars
  <2> QED
    BY <1>0, <1>5, <1>9, <2>1
       DEF Story, Provided, CountStands, Dropped, At, Shown, Later, Goes, SameTale
<1> QED
  BY <1>6, <1>7, <1>8, <1>11, <1>12, <1>13 DEF Tale

LEMMA SnapshotKeeps ==
    ASSUME Onward, SnapshotTaken
    PROVE  Tale'
<1>0. Story /\ Saved /\ tour \in Tour /\ trip' = trip /\ JInv /\ Tourist \in Clients
  BY StoryFacts DEF Onward, DInv, Tale
<1>1. UNCHANGED <<look, done>> /\ UNCHANGED backups /\ At("seeding", "wait")
      /\ cmd[Tourist].step = "idle"
  BY DEF SnapshotTaken, hvars
<1>2. CASE cmd[Tourist].exit # "ok"
  <2>1. Goes("error", "none")
    BY <1>0, <1>2, ToFacts, Places DEF SnapshotTaken
  <2> QED
    BY <1>1, <2>1, Returns DEF Goes, At
<1>3. CASE cmd[Tourist].exit = "ok"
  <2>1. Goes("seeded", "none") /\ tour'.kind = tour.kind
    BY <1>0, <1>3, ToFacts, Places DEF SnapshotTaken, SameTale
  <2>2. cmd[Tourist].kind = "snapshot" /\ cmd[Tourist].wait /\ tour.kind = "tui" /\ trip.tours > 0
    BY <1>0, <1>1 DEF Story, Waits, At
  <2>3. CommandOk(cmd[Tourist], Tourist, row, ask, done)
    BY <1>0 DEF JInv
  <2>4. cmd[Tourist].id \in done /\ Own(cmd[Tourist], Tourist, row, ask)
    BY <1>1, <1>3, <2>2, <2>3 DEF CommandOk
  <2>5. ask[cmd[Tourist].id].kind = "snapshot"
    BY <2>2, <2>4 DEF Own
  <2>6. backups' # {}
    BY <1>0, <1>1, <2>4, <2>5 DEF Saved
  <2>7. Story' /\ ~Final'
    BY <1>0, <2>1, <2>2, <2>6
       DEF Story, Incident, Waits, Provided, CountStands, Dropped, Final, At, Shown, Later, Goes
  <2> QED
    BY <1>1, <2>7, EarlyScene
<1> QED
  BY <1>2, <1>3

LEMMA WaitKeeps ==
    ASSUME Onward, Drained \/ Landed
    PROVE  Tale'
<1>0. Story /\ tour \in Tour /\ trip' = trip /\ UInv /\ captured \in Nat
  BY StoryFacts DEF Onward, DInv
<1>1. UNCHANGED <<look, done, backups>> /\ UNCHANGED <<log, captured>> /\ tour.stage = "firing"
  BY DEF Drained, Landed, At, Rest, hvars, uvars
<1>2. CASE Drained
  <2>1. Goes("firing", "fire") /\ SameTale
    BY <1>0, <1>2, ToFacts, Places DEF Drained
  <2>2. Story' /\ ~Final'
    BY <1>0, <1>1, <2>1
       DEF Story, Incident, Waits, Provided, CountStands, Dropped, Final, At, Shown, Later, Goes, SameTale
  <2> QED
    BY <1>1, <2>2, EarlyScene
<1>3. CASE Landed
  <2>1. Goes("damage", "none") /\ SameTale
    BY <1>0, <1>3, ToFacts, Places DEF Landed
  <2>2. tour.mark <= captured /\ At("firing", "land")
    BY <1>0, <1>3 DEF Landed, Captured, Tracked
  <2>3. tour.incident \in Apps /\ tour.incident <= captured
    BY <1>0, <2>2 DEF Story, Incident, Tour
  <2>4. Apps' = Apps
    BY <1>1 DEF Apps
  <2>5. Story' /\ ~Final'
    BY <1>0, <1>1, <2>1, <2>3, <2>4
       DEF Story, Incident, Waits, Provided, CountStands, Dropped, Final, At, Shown, Later, Goes, SameTale
  <2> QED
    BY <1>1, <2>5, EarlyScene
<1> QED
  BY <1>2, <1>3

LEMMA FireKeeps ==
    ASSUME Onward, FireIncident \/ FireDependent
    PROVE  Tale'
<1>0. Story /\ tour \in Tour /\ trip' = trip /\ UInv /\ Len(log) \in Nat /\ {Invoices} \in SUBSET Keys
  BY StoryFacts DEF Onward, DInv
<1>1. UNCHANGED <<look, done, backups>> /\ tour.stage = "firing"
  BY DEF FireIncident, FireDependent, At, Rest, hvars
<1>2. Write({Invoices})
  BY DEF FireIncident, FireDependent
<1>3. Apps' = Apps \cup {Len(log) + 1} /\ Apps \subseteq 1..Len(log)
  BY <1>0, <1>2, WriteFacts DEF Apps
<1>4. /\ Goes("firing", "land") /\ tour'.kind = tour.kind /\ tour'.mark = Len(log) + 1
      /\ FireIncident => tour'.incident = Len(log) + 1
      /\ ~FireIncident => tour'.incident = tour.incident
  BY <1>0, FireTale
<1>5. tour'.incident \in Apps' /\ tour'.incident <= tour'.mark
  <2>1. CASE FireIncident
    BY <1>0, <1>3, <1>4, <2>1
  <2>2. CASE ~FireIncident
    <3>1. tour.incident \in Apps
      BY <1>0, <2>2 DEF FireDependent, Story, Incident
    <3>2. tour'.incident = tour.incident /\ tour'.mark = Len(log) + 1
      BY <1>4, <2>2
    <3>3. tour.incident \in 1..Len(log) /\ tour.incident \in Apps'
      BY <1>3, <3>1
    <3>4. tour.incident <= Len(log) + 1
      BY <1>0, <3>3
    <3> QED
      BY <3>2, <3>3, <3>4
  <2> QED
    BY <2>1, <2>2
<1>6. Story' /\ ~Final'
  BY <1>0, <1>1, <1>3, <1>4, <1>5
     DEF Story, Incident, Waits, Provided, CountStands, Dropped, Final, At, Shown, Later, Goes
<1> QED
  BY <1>1, <1>6, EarlyScene

\* From the damage to the undo.
LEMMA ShownKeeps ==
    ASSUME Onward, ReadLog \/ ShowPreview \/ AskUndo \/ UndoAnswered
    PROVE  Tale'
<1>0. /\ Story /\ tour \in Tour /\ trip' = trip /\ UInv
      /\ backups \subseteq backups' /\ Apps \subseteq Apps'
      /\ captured \in Nat /\ captured' \in Nat /\ captured <= captured' /\ tour.incident \in Nat
  BY StoryFacts DEF Onward, DInv
<1>1. UNCHANGED <<look, done>>
  BY DEF ReadLog, ShowPreview, AskUndo, UndoAnswered, Rest, hvars
<1>2. \/ tour.stage = "investigating" /\ Goes("log", "none") /\ SameTale
      \/ tour.stage = "previewing" /\ Goes("preview", "none") /\ SameTale
      \/ tour.stage = "undoing" /\ Goes("undoing", "wait") /\ SameTale
      \/ tour.stage = "undoing" /\ Goes("restored", "none") /\ SameTale
      \/ tour.stage = "undoing" /\ Goes("error", "none") /\ SameTale
  <2>1. CASE ReadLog
    BY <1>0, <2>1, ToFacts, Places DEF ReadLog
  <2>2. CASE ShowPreview
    BY <1>0, <2>2, PreviewTale DEF ShowPreview
  <2>3. CASE AskUndo
    BY <1>0, <2>3, ToFacts, Places DEF AskUndo, At
  <2>4. CASE UndoAnswered
    BY <1>0, <2>4, ToFacts, Places DEF UndoAnswered, Restored_, At
  <2> QED
    BY <2>1, <2>2, <2>3, <2>4
<1>3. ~Final'
  BY <1>2 DEF Final, At, Goes
<1>4. Incident'
  BY <1>0, <1>2 DEF Story, Incident, At, Shown, Later, Goes, SameTale
<1>5. Waits'
  BY <1>0, <1>2 DEF Story, Waits, At, Final, Goes, SameTale
<1>6. Provided' /\ CountStands' /\ Dropped'
  BY <1>0, <1>2 DEF Story, At, Provided, CountStands, Dropped, Shown, Later, Goes, SameTale
<1> QED
  BY <1>1, <1>3, <1>4, <1>5, <1>6, EarlyScene DEF Story

\* It counts what it is going to drop.
LEMMA CountKeeps ==
    ASSUME Onward, CountOrders
    PROVE  Tale'
<1>0. Story /\ tour \in Tour /\ trip' = trip /\ UInv
  BY StoryFacts DEF Onward, DInv
<1>1. UNCHANGED <<look, done, backups, there, made>> /\ UNCHANGED <<rows, log>> /\ there
      /\ tour.stage = "dropping"
  BY DEF CountOrders, At, Rest, hvars, uvars
<1>2. /\ Goes("dropping", "drop") /\ tour'.before = Held
      /\ tour'.kind = tour.kind /\ tour'.incident = tour.incident
  BY <1>0, CountTale
<1>3. Held' = Held /\ Apps' = Apps
  BY <1>1 DEF Held, Empty, KeysOf, Apps
<1>4. ~Final' /\ CountStands' /\ Dropped'
  BY <1>1, <1>2, <1>3 DEF Final, At, CountStands, Dropped, Goes
<1>5. Incident' /\ Waits' /\ Provided'
  BY <1>0, <1>1, <1>2, <1>3 DEF Story, Incident, Waits, Provided, Final, At, Shown, Later, Goes
<1> QED
  BY <1>1, <1>4, <1>5, EarlyScene DEF Story

\* The walkthrough drops the table: its backup is older.
LEMMA DropKeeps ==
    ASSUME Onward, DropOrders
    PROVE  Tale'
<1>0. /\ Story /\ tour \in Tour /\ trip' = trip /\ UInv /\ DTypes /\ LogGrows
      /\ \A b \in backups : b \in 0..Here
  BY StoryFacts DEF Onward, DInv, DTypes
<1>1. UNCHANGED <<look, done, backups>> /\ UNCHANGED log /\ At("dropping", "drop")
      /\ tour.stage = "dropping" /\ DropTable
  BY DEF DropOrders, At, Rest, hvars, uvars
<1>2. Goes("dropped", "none") /\ SameTale
  BY <1>0, ToFacts, Places DEF DropOrders
<1>3. /\ Len(ddl) \in Nat /\ Len(ddl') = Len(ddl) + 1 /\ ddl'[Len(ddl')].image = Held
      /\ Here \in Nat /\ Here' \in Nat /\ Here < Here'
  BY <1>0, <1>1, DdlGrows
<1>4. tour.kind = "tui" /\ backups # {} /\ trip.tours > 0 /\ tour.incident \in Apps
  BY <1>0, <1>1 DEF Story, Provided, Waits, Incident, Later, Shown, Tour
<1>5. \E b \in backups' : b < Here'
  BY <1>0, <1>1, <1>3, <1>4
<1>6. Apps' = Apps
  BY <1>1 DEF Apps
<1>7. ~Final'
  BY <1>2 DEF Final, At, Goes
<1>8. Incident' /\ Waits'
  BY <1>0, <1>2, <1>4, <1>6 DEF Incident, Waits, At, Shown, Later, Final, Goes, SameTale
<1>9. Provided' /\ CountStands'
  BY <1>1, <1>2, <1>4, <1>5 DEF Provided, CountStands, At, Shown, Later, Goes, SameTale
<1>10. Dropped'
  <2>1. Held = tour.before \/ Touched
    BY <1>0, <1>1 DEF Story, CountStands
  <2>2. Touched => Touched'
    BY <1>0, <1>2, ChangedKept DEF SameTale
  <2> QED
    BY <1>2, <1>3, <2>1, <2>2 DEF Dropped, SameTale
<1> QED
  BY <1>1, <1>7, <1>8, <1>9, <1>10, EarlyScene DEF Story

\* It shows the table it has got back.
LEMMA BackKeeps ==
    ASSUME Onward, OrdersBack
    PROVE  Tale'
<1>0. /\ Story /\ tour \in Tour /\ trip' = trip /\ UInv /\ DTypes /\ LogGrows /\ JInv
      /\ Waits /\ Recovering /\ Dropped /\ Tourist \in Clients
  BY StoryFacts DEF Onward, DInv, Tale
<1>1. /\ UNCHANGED <<look, done, backups, ddl, there, made>> /\ UNCHANGED <<log, rows, captured>>
      /\ UNCHANGED <<row, ask, cmd>>
      /\ At("recovering", "wait") /\ cmd[Tourist].step = "idle"
  BY DEF OrdersBack, Rest, hvars, uvars
<1>2. CASE cmd[Tourist].exit # "ok"
  <2>1. Goes("error", "none")
    BY <1>0, <1>2, ToFacts, Places DEF OrdersBack
  <2> QED
    BY <1>1, <2>1, Returns DEF Goes, At
<1>3. CASE cmd[Tourist].exit = "ok"
  <2>1. /\ Goes("done", "none") /\ tour'.after = Held
        /\ tour'.kind = tour.kind /\ tour'.incident = tour.incident
        /\ tour'.before = tour.before /\ tour'.back = tour.back /\ tour'.current = tour.current
        /\ tour'.counted = tour.counted
    BY <1>0, <1>3, BackTale
  <2>2. Final /\ Attached(cmd[Tourist]) /\ tour.stage = "recovering"
    BY <1>1, <1>3 DEF Final, Attached, At
  <2>3. PICK k \in Jobs : k = cmd[Tourist].id
    BY <1>0, <2>2, OwnJob
  <2>4. k \in done
    <3>1. cmd[Tourist].wait /\ cmd[Tourist].kind # "cancel"
      BY <1>0, <2>2 DEF Waits
    <3> QED
      BY <1>0, <1>1, <1>3, <2>3, <3>1 DEF JInv, CommandOk
  <2>5. /\ Started(k) /\ look[k] > 0 /\ tour.current => look[k] = Len(ddl)
        /\ there /\ ~Empty /\ (tour.current => Held = tour.before \/ Changed)
    BY <1>0, <2>2, <2>3, <2>4 DEF Recovering
  <2>6. Incident' /\ Waits'
    <3>1. Apps' = Apps
      BY <1>1 DEF Apps
    <3> QED
      BY <1>0, <1>1, <1>3, <2>1, <2>2, <3>1
         DEF Story, Incident, Waits, Final, At, Shown, Later, Goes
  <2>7. Provided' /\ CountStands' /\ Dropped'
    <3>1. Touched => Touched'
      BY <1>0, <2>1, ChangedKept
    <3> QED
      BY <1>0, <1>1, <2>1, <2>2, <3>1
         DEF Story, At, Provided, CountStands, Dropped, Shown, Later, Goes
  <2>8. Held' = Held /\ ~Empty' /\ (Changed => Changed')
    BY <1>0, <1>1, <2>1, <2>5, ChangedKept DEF Held, Empty, KeysOf
  <2>10. Told'
    BY <2>1, <2>5, <2>8 DEF Told
  <2>11. Started(k)' <=> Started(k)
    BY <1>1 DEF Started
  <2>12. cmd'[Tourist].id = k
    BY <1>1, <2>3
  <2>13. Recovering'
    BY <1>1, <2>1, <2>4, <2>5, <2>8, <2>11, <2>12 DEF Recovering
  <2>14. Saved' /\ Looked'
    BY <1>1, JobsMarked
  <2> QED
    BY <2>6, <2>7, <2>10, <2>13, <2>14 DEF Tale
<1> QED
  BY <1>2, <1>3

-----------------------------------------------------------------------------
(* Every step.                                                             *)

LEMMA OnwardStep ==
    ASSUME DInv, [DNext]_dvars
    PROVE  Onward /\ Chained'
<1>1. UInv /\ DTypes /\ Incident /\ JInv /\ Chained /\ trip \in Trips
  BY DEF DInv, Tale, DTypes
<1>2. UStep \/ UNCHANGED uvars
  BY <1>1, DemoUndoes
<1>3. HStep \/ UNCHANGED hvars
  BY <1>1, DemoRuns
<1>4. UInv' /\ LogGrows /\ Chained'
  BY <1>1, <1>2, UStepKeeps, UStepGrows, UStepChains
<1>5. JInv' /\ JobsGoOn
  BY <1>1, <1>3, HStepKeeps, HStepGoesOn
<1>6. DTypes' /\ World
  BY <1>1, <1>4, DTypesStep, WorldStep
<1>7. Here \in Nat /\ Here' \in Nat /\ Here <= Here'
  BY <1>1, <1>4, <1>6, DdlGrows DEF World
<1> QED
  BY <1>4, <1>5, <1>6, <1>7 DEF Onward

LEMMA OtherKeeps ==
    ASSUME Onward,
           \/ \E j \in Jobs : Snapshot(j)
           \/ \E keys \in SUBSET Keys \ {{}} : OtherSession(keys)
           \/ ForwardDdl \/ HostedStep \/ RebootStep \/ ShutdownStep \/ UndoStep
           \/ \E c \in trip.others : OtherCommand(c)
           \/ UNCHANGED dvars
    PROVE  Tale'
<1>0. /\ JInv /\ DTypes /\ Looked /\ Waits /\ Tourist \in Clients /\ trip \in Trips
      /\ cmd \in [Clients -> Command]
  BY TripFacts DEF Onward, DInv, Tale, DTypes, JInv, JTypes
<1>1. UNCHANGED <<tour, ddl, there, look, made>>
  BY DEF Snapshot, OtherSession, ForwardDdl, HostedStep, RebootStep, ShutdownStep, UndoStep,
         OtherCommand, Unchanged, dvars, demo
<1>2. CASE \E j \in Jobs : Snapshot(j)
  <2>1. PICK j \in Jobs : Snapshot(j)
    BY <1>2
  <2>2. /\ done' = done \cup {j} /\ cmd' = cmd /\ row[j] # "absent" /\ ask[j].kind = "snapshot"
        /\ backups' # {}
    BY <1>0, <2>1, WorkStep DEF Snapshot, Work, Started, JInv, Lined
  <2>3. Follows
    BY <2>2 DEF Follows
  <2> QED
    BY <1>1, <2>2, <2>3, AsideKeeps
<1>3. CASE \/ \E keys \in SUBSET Keys \ {{}} : OtherSession(keys)
           \/ ForwardDdl \/ UndoStep \/ RebootStep \/ ShutdownStep \/ UNCHANGED dvars
  <2>1. done' = done /\ cmd' = cmd
    BY <1>3 DEF OtherSession, ForwardDdl, UndoStep, RebootStep, Reboot, ShutdownStep, Shutdown,
                dvars, hvars
  <2>2. Follows
    BY <2>1 DEF Follows
  <2> QED
    BY <1>1, <2>1, <2>2, AsideKeeps
<1>4. CASE HostedStep
  <2>1. done' = done
    BY <1>4 DEF HostedStep, ClientStep, SubmitJob, SubmitLost, RequestFails, Poll, CancelJob, Interrupt,
                StartJob, JobEnds
  <2>2. tour.stage # "off" => Follows
    BY <1>0, <1>4, HostedFollows DEF Waits
  <2> QED
    BY <1>1, <2>1, <2>2, AsideKeeps
<1>5. CASE \E c \in trip.others : OtherCommand(c)
  <2>1. PICK c \in trip.others : OtherCommand(c)
    BY <1>5
  <2>2. done' = done /\ \E q : cmd' = [cmd EXCEPT ![c] = q]
    BY <2>1 DEF OtherCommand, Run, RunCancel
  <2>3. ASSUME tour.stage # "off"
        PROVE  Follows
    <3>1. c # Tourist
      BY <1>0, <2>1, <2>3, TripFacts DEF Waits
    <3>2. cmd'[Tourist] = cmd[Tourist]
      BY <1>0, <2>2, <3>1
    <3> QED
      BY <3>2 DEF Follows
  <2> QED
    BY <1>1, <2>2, <2>3, AsideKeeps
<1> QED
  BY <1>2, <1>3, <1>4, <1>5

LEMMA DStepKeeps ==
    ASSUME DInv, [DNext]_dvars
    PROVE  DInv'
<1>1. Onward /\ Chained'
  BY OnwardStep
<1>2. Tale'
  <2>1. CASE \E kind \in trip.kinds : Launch(kind)
    BY <1>1, <2>1, LaunchKeeps
  <2>2. CASE Advance \/ Quit \/ Fail \/ SeedShop \/ SeedWatermark \/ SnapshotTaken
    BY <1>1, <2>2, AdvanceKeeps, StopKeeps, SeedKeeps, WatermarkKeeps, SnapshotKeeps
  <2>3. CASE Drained \/ FireIncident \/ FireDependent \/ Landed \/ ReadLog \/ ShowPreview
             \/ AskUndo \/ UndoAnswered
    BY <1>1, <2>3, WaitKeeps, FireKeeps, ShownKeeps
  <2>4. CASE CountOrders \/ DropOrders \/ OrdersBack
             \/ AskJob("seeding", "snapshot") \/ AskJob("recovering", "recover-table")
    BY <1>1, <2>4, CountKeeps, DropKeeps, BackKeeps, AskKeeps
  <2>5. CASE \E j \in Jobs : PickDrop(j) \/ CreateTable(j) \/ LoadTable(j)
    BY <1>1, <2>5, PickKeeps, CreateKeeps, LoadKeeps
  <2>6. CASE \/ \E j \in Jobs : Snapshot(j)
             \/ \E keys \in SUBSET Keys \ {{}} : OtherSession(keys)
             \/ ForwardDdl \/ HostedStep \/ RebootStep \/ ShutdownStep \/ UndoStep
             \/ \E c \in trip.others : OtherCommand(c)
             \/ UNCHANGED dvars
    BY <1>1, <2>6, OtherKeeps
  <2> QED
    BY <2>1, <2>2, <2>3, <2>4, <2>5, <2>6 DEF DNext
<1> QED
  BY <1>1, <1>2 DEF DInv, Onward

LEMMA FirstTale ==
    ASSUME DInit
    PROVE  DInv
<1>1. UInv /\ Chained /\ JInv
  BY FirstState, FirstChained, FirstJobs DEF DInit
<1>2. /\ tour = NoTour /\ ddl = << >> /\ fwd = 0 /\ backups = {} /\ there = FALSE
      /\ look = [j \in Jobs |-> 0] /\ made = [j \in Jobs |-> 0] /\ trip \in Trips /\ log = << >> /\ done = {}
      /\ spent = [tours |-> 0, writes |-> 0, commands |-> 0, reboots |-> 0]
  BY DEF DInit, UInit, HInit
<1>3. Len(log) = 0 /\ Len(ddl) = 0 /\ ddl \in Seq(Drop)
  BY <1>2, EmptySeq
<1>4. tour \in Tour /\ tour.stage = "off" /\ tour.mark = 0 /\ tour.incident = 0 /\ tour.back = 0
      /\ tour.counted = 0
  BY <1>2, NoTourRecord
<1>5. spent \in Spending
  BY <1>2 DEF Spending
<1>6. DTypes
  <2>1. look \in [Jobs -> Nat] /\ \A j \in Jobs : look[j] <= Len(ddl)
    <3>1. look = [j \in Jobs |-> 0]
      BY <1>2
    <3>2. look \in [Jobs -> Nat] /\ \A j \in Jobs : look[j] = 0
      BY <3>1
    <3>3. 0 <= Len(ddl)
      BY <1>3
    <3> QED
      BY <3>2, <3>3
  <2>2. there \in BOOLEAN /\ backups \subseteq 0..Here
    BY <1>2
  <2>3. fwd \in 0..Len(ddl) /\ 1..Len(ddl) = {}
    BY <1>2, <1>3
  <2>4. made \in [Jobs -> Nat] /\ \A j \in Jobs : made[j] = 0
    BY <1>2
  <2> QED
    BY <1>2, <1>3, <1>4, <1>5, <2>1, <2>2, <2>3, <2>4 DEF DTypes
<1>7. Tale
  BY <1>2, <1>4
     DEF Tale, Incident, Waits, Saved, Provided, CountStands, Dropped, Looked, Recovering, Told, Final, At,
         Shown, Later
<1> QED
  BY <1>1, <1>6, <1>7 DEF DInv

-----------------------------------------------------------------------------
(* What follows.                                                           *)

LEMMA DInvImpliesTypes == DInv => DTypeOK
<1> SUFFICES ASSUME DInv
             PROVE  DTypeOK
  OBVIOUS
<1>1. DTypes /\ Incident /\ UInv /\ JInv
  BY DEF DInv, Tale
<1>2. tour \in Tour /\ Len(log) \in Nat /\ Len(ddl) \in Nat
      /\ \A i \in 1..Len(ddl) : ddl[i].at \in Nat
  BY <1>1, DropFacts, LogFacts DEF DTypes, UInv
<1>3. tour.stage \in Resting \cup Busy \cup {"off"}
  BY <1>2 DEF Tour, Stages
<1>4. tour.mark \in 0..Len(log) /\ tour.incident \in 0..Len(log)
  BY <1>1, <1>2 DEF DTypes, Tour
<1>5. \A i \in 1..Len(ddl) : ddl[i].at \in 0..Len(log)
  BY <1>1, <1>2 DEF DTypes
<1>6. \A j \in Jobs : look[j] \in 0..Len(ddl) /\ made[j] \in 0..Len(log) + 1
                      /\ row[j] \in {"absent", "queued", "running"} \cup Queue!Terminal
  BY <1>1, <1>2 DEF DTypes, JInv, JTypes, States, Queue!Terminal
<1>7. tour.stage \in Resting \ {"intro", "seeded", "error"} => tour.incident > 0
  <2>1. tour.incident \in Apps => tour.incident > 0
    BY <1>2 DEF Apps
  <2> QED
    BY <1>1, <2>1 DEF Incident, Resting, Shown, Later
<1> QED
  BY <1>1, <1>3, <1>4, <1>5, <1>6, <1>7 DEF DTypes, DTypeOK

LEMMA DInvImpliesCaptured == DInv => NarratedIsCaptured
<1> SUFFICES ASSUME DInv, tour.stage \in {"damage", "log", "previewing", "preview"}
             PROVE  Captured(tour.incident)
  BY DEF NarratedIsCaptured
<1>1. tour.incident \in Apps /\ tour.incident <= captured /\ UInv
  BY DEF DInv, Tale, Incident, Shown
<1>2. tour.incident \notin markers
  BY <1>1 DEF UInv, Apps
<1> QED
  BY <1>1, <1>2 DEF Captured, Tracked, UInv, Apps

LEMMA DInvImpliesBackedUp == DInv => BackedUp
BY DEF DInv, Tale, Provided, BackedUp

LEMMA DInvImpliesRecovered == DInv => RecoveredAsDropped
BY DEF DInv, Tale, Told, Changed, RecoveredAsDropped

\* The invariant of the hosted system, on which the theorems below rest: what
\* each command was told, what each stage of a walkthrough has behind it, and
\* what its own recovery has looked at and brought back.
THEOREM DemoInvariant == DSpec => []DInv
<1>1. DInit => DInv
  BY FirstTale
<1>2. DInv /\ [DNext]_dvars => DInv'
  BY DStepKeeps
<1> QED
  BY <1>1, <1>2, PTL DEF DSpec

\* Types, and a stage of the walkthrough has what it shows.
THEOREM DemoTypes == DSpec => []DTypeOK
BY DemoInvariant, DInvImpliesTypes, PTL

\* The store and the tenant stay in step under the walkthrough as well.
THEOREM DemoUndoTypes == DSpec => []UTypeOK
<1>1. DInv => UTypeOK
  BY UInvImpliesTypes DEF DInv
<1> QED
  BY <1>1, DemoInvariant, PTL

\* From the damage on, what the walkthrough tells of is in history: neither the
\* log, nor the preview, nor the undo fails for want of it.
THEOREM NarratedCaptured == DSpec => []NarratedIsCaptured
BY DemoInvariant, DInvImpliesCaptured, PTL

\* The walkthrough never drops the table without a backup from before.
THEOREM DropsBackedUp == DSpec => []BackedUp
BY DemoInvariant, DInvImpliesBackedUp, PTL

\* At its last scene the walkthrough shows the table with what it counted before it
\* dropped it, unless someone beside the recovery wrote it since, or its recovery
\* knew of an older drop only; whatever other jobs, reboots, lost answers and
\* sessions there were.
THEOREM TourRecovers == DSpec => []RecoveredAsDropped
BY DemoInvariant, DInvImpliesRecovered, PTL

\* A storage command that waited and exits 0 has had its own operation
\* performed; one that reports its job canceled is right.
THEOREM ExitsTellTruth == DSpec => []ExitTellsTruth
<1>1. DInv => ExitTellsTruth
  BY JInvImpliesTruth DEF DInv
<1> QED
  BY <1>1, DemoInvariant, PTL

\* What has been undone stays undone in the hosted system, recoveries included.
THEOREM HostedUndoneForGood == DSpec => []UndoneStaysUndone
<1>1. DInv => UndoneStaysUndone
  BY ChainedImplies DEF DInv
<1> QED
  BY <1>1, DemoInvariant, PTL

=============================================================================
