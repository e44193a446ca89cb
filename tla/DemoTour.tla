------------------------------- MODULE DemoTour -------------------------------
(***************************************************************************)
(* The demo (cli/internal/demo, cli/internal/demotui): a walkthrough that  *)
(* seeds a shop, lets a migration zero every invoice, finds, previews and  *)
(* undoes that transaction, drops the orders table and recovers it.  It is *)
(* a client of everything else: it writes the tenant directly, reads       *)
(* history once the sidecar has captured it, undoes as module TwoDbUndo    *)
(* says, and takes its backup and recovers as jobs of module HostedJobs.   *)
(*                                                                         *)
(* A table stands for one row.  Orders stands for every table of the shop  *)
(* but invoices; only orders is dropped.  The log of transactions, with    *)
(* the destructive DDL in between, is the tenant's log of changes.         *)
(***************************************************************************)
EXTENDS TwoDbUndo, HostedJobs

CONSTANTS
    Invoices, Orders,  \* the tables
    Tourist,           \* the process of the CLI that runs the demo
    Trips              \* what happens (see Trip)

\* The installation, the other processes of the CLI that run storage commands,
\* and bounds: walkthroughs, transactions of other sessions, reboots.
Trip == [case : Cases, kinds : SUBSET {"tui", "up"}, others : SUBSET Clients,
         tours : Nat, writes : Nat, commands : Nat, reboots : Nat]

ASSUME TourAssumption ==
    /\ Keys = {Invoices, Orders} /\ Invoices # Orders
    /\ Tourist \in Callers \cap Clients
    /\ Trips \subseteq Trip
    \* the process of a walkthrough runs nothing else
    /\ \A t \in Trips : t.tours > 0 => Tourist \notin t.others

VARIABLES
    trip,       \* what happens; fixed
    there,      \* is there an orders table
    ddl,        \* its drops: their place in the log, and the table before them
    fwd,        \* how many of them the store has; the tenant has the others
    backups,    \* places in the log from which a backup can recover
    look,       \* the drop each recovery has picked
    made,       \* where it created the table: the place in the log that was next, or 0
    tour,       \* the walkthrough
    spent       \* tours, writes, commands and reboots so far

demo == <<trip, there, ddl, fwd, backups, look, made, tour, spent>>
dvars == <<uvars, hvars, demo>>

Resting == {"intro", "seeded", "damage", "log", "preview", "restored", "dropped", "done", "error"}
Busy == {"seeding", "firing", "investigating", "previewing", "undoing", "dropping", "recovering"}

NoTour == [stage |-> "off", step |-> "none", kind |-> "tui", mark |-> 0, incident |-> 0,
           dependents |-> {}, before |-> 0, counted |-> 0, after |-> 0, back |-> 0,
           current |-> FALSE]

DInit ==
    /\ UInit /\ HInit
    /\ trip \in Trips /\ trip.case = case
    /\ there = FALSE /\ ddl = << >> /\ fwd = 0
    /\ backups = {}
    /\ look = [j \in Jobs |-> 0] /\ made = [j \in Jobs |-> 0]
    /\ tour = NoTour
    /\ spent = [tours |-> 0, writes |-> 0, commands |-> 0, reboots |-> 0]

-----------------------------------------------------------------------------
(* The places of the log.                                                  *)

Here == Len(log) + Len(ddl)
PlaceOf(i) == ddl[i].at + i

\* The table is there, and nobody has written it since a recovery created it.
Empty ==
    there /\ \A i \in 1..Len(log) : Orders \in KeysOf(i) => \E j \in Jobs : made[j] > i

\* What the table holds.
Held == IF there /\ ~Empty THEN rows[Orders] ELSE NoRow

DropTable == ddl' = Append(ddl, [at |-> Len(log), image |-> Held])

\* A statement of the demo or of another session: it needs its table.
Write(keys) ==
    /\ Orders \in keys => there
    /\ Commit(0, {}, [k \in keys |-> Len(log) + 1])
    /\ UNCHANGED <<case, captured, stamped, markers, call, used, applied>>

At(stage, step) == tour.stage = stage /\ tour.step = step
To(stage, step) == tour' = [tour EXCEPT !.stage = stage, !.step = step]
Has(stage, r) == tour' = [r EXCEPT !.stage = stage, !.step = "none"]

-----------------------------------------------------------------------------
(* The user.                                                               *)

Launch(kind) ==
    /\ tour.stage = "off" /\ cmd[Tourist].step = "idle" /\ spent.tours < trip.tours
    /\ spent' = [spent EXCEPT !.tours = @ + 1]
    /\ tour' = [NoTour EXCEPT !.kind = kind, !.stage = IF kind = "up" THEN "seeding" ELSE "intro",
                              !.step = IF kind = "up" THEN "schema" ELSE "none"]
    /\ UNCHANGED <<uvars, hvars, trip, there, ddl, fwd, backups, look, made>>

\* What enter starts.  In a busy stage it does nothing; `demo up` goes on by
\* itself and ends with the incident.
Start == [intro |-> <<"seeding", "schema">>, seeded |-> <<"firing", "drain">>,
          damage |-> <<"investigating", "none">>, log |-> <<"previewing", "none">>,
          preview |-> <<"undoing", "ask">>, restored |-> <<"dropping", "count">>,
          dropped |-> <<"recovering", "ask">>, done |-> <<"off", "none">>, error |-> <<"off", "none">>]

Advance ==
    /\ tour.stage \in Resting
    /\ IF tour.kind = "up" /\ tour.stage = "damage" THEN To("off", "none")
       ELSE To(Start[tour.stage][1], Start[tour.stage][2])
    /\ UNCHANGED <<uvars, hvars, trip, there, ddl, fwd, backups, look, made, spent>>

\* The process ends, and with it what it was waiting for: its request to the
\* server is canceled, its job goes on.
Quit ==
    /\ tour.stage # "off" /\ To("off", "none")
    /\ cmd' = [cmd EXCEPT ![Tourist] = NoCmd]
    /\ call' = [call EXCEPT ![Tourist] = NoCall]
    /\ UNCHANGED <<case, rows, log, captured, stamped, markers, used, applied>>
    /\ UNCHANGED <<row, ask, signalled, orphans, done>>
    /\ UNCHANGED <<trip, there, ddl, fwd, backups, look, made, spent>>

\* A statement fails, or a wait for the sidecar times out.
Fail ==
    /\ tour.stage \in Busy
    /\ call[Tourist].step = "idle" /\ cmd[Tourist].step = "idle"
    /\ To("error", "none")
    /\ UNCHANGED <<uvars, hvars, trip, there, ddl, fwd, backups, look, made, spent>>

-----------------------------------------------------------------------------
(* Act one.                                                                *)

Rest == <<hvars, trip, fwd, backups, look, made, spent>>

\* The schema drops what an earlier demo left, and is filled again.
SeedShop ==
    /\ At("seeding", "schema")
    /\ IF there THEN DropTable ELSE UNCHANGED ddl
    /\ there' = TRUE
    /\ Commit(0, {}, [k \in Keys |-> Len(log) + 1])
    /\ To("seeding", "track")
    /\ UNCHANGED <<case, captured, stamped, markers, call, used, applied>>
    /\ UNCHANGED Rest

\* Tracking is on; the last write of the seed is the watermark.
SeedWatermark ==
    /\ At("seeding", "track")
    /\ Write({Orders})
    /\ tour' = [tour EXCEPT !.mark = Len(log) + 1,
                            !.stage = IF tour.kind = "up" THEN "seeded" ELSE "seeding",
                            !.step = IF tour.kind = "up" THEN "none" ELSE "job"]
    /\ UNCHANGED <<Rest, there, ddl>>

\* runJob submits a job and waits for it.
AskJob(stage, kind) ==
    /\ \/ stage = "seeding" /\ At(stage, "job")
       \/ stage = "recovering" /\ At(stage, "ask")
    /\ Run(Tourist, kind, TRUE)
    /\ To(stage, "wait")
    /\ UNCHANGED <<uvars, trip, there, ddl, fwd, backups, look, made, spent>>

\* Faulty variant: the setup goes on when its job did not succeed.
SnapshotTaken_Anyway ==
    /\ At("seeding", "wait") /\ cmd[Tourist].step = "idle"
    /\ To("seeded", "none")
    /\ UNCHANGED <<uvars, hvars, trip, there, ddl, fwd, backups, look, made, spent>>

SnapshotTaken ==
    /\ At("seeding", "wait") /\ cmd[Tourist].step = "idle"
    /\ IF cmd[Tourist].exit = "ok" THEN To("seeded", "none") ELSE To("error", "none")
    /\ UNCHANGED <<uvars, hvars, trip, there, ddl, fwd, backups, look, made, spent>>

Captured(i) == i \in Tracked

\* The watermark is in history, and so is what was committed before it.
Drained ==
    /\ At("firing", "drain") /\ Captured(tour.mark)
    /\ To("firing", "fire")
    /\ UNCHANGED <<uvars, Rest, there, ddl>>

\* The migration; `demo up --dependent` has a payment follow it.
FireIncident ==
    /\ At("firing", "fire")
    /\ Write({Invoices})
    /\ tour' = [tour EXCEPT !.incident = Len(log) + 1, !.mark = Len(log) + 1, !.step = "land"]
    /\ UNCHANGED <<Rest, there, ddl>>

FireDependent ==
    /\ At("firing", "land") /\ tour.kind = "up" /\ tour.mark = tour.incident
    /\ Write({Invoices})
    /\ tour' = [tour EXCEPT !.mark = Len(log) + 1]
    /\ UNCHANGED <<Rest, there, ddl>>

\* Faulty variant: nobody waits for the incident.
Landed_AtOnce ==
    /\ At("firing", "land")
    /\ To("damage", "none")
    /\ UNCHANGED <<uvars, Rest, there, ddl>>

\* What it wrote last is in history.
Landed ==
    /\ At("firing", "land") /\ Captured(tour.mark)
    /\ To("damage", "none")
    /\ UNCHANGED <<uvars, Rest, there, ddl>>

ReadLog ==
    /\ tour.stage = "investigating" /\ To("log", "none")
    /\ UNCHANGED <<uvars, Rest, there, ddl>>

\* When the transaction is not in history preview_undo raises (Fail).
ShowPreview ==
    /\ tour.stage = "previewing" /\ Captured(tour.incident)
    /\ Has("preview", [tour EXCEPT !.dependents = Conflicts(tour.incident)])
    /\ UNCHANGED <<uvars, Rest, there, ddl>>

\* The mode follows the preview that was shown; the server makes its own plan.
AskUndo ==
    /\ At("undoing", "ask")
    /\ Undo(Tourist, IF tour.dependents = {} THEN "clean_only" ELSE "cascade", tour.incident)
    /\ To("undoing", "wait")
    /\ UNCHANGED <<Rest, there, ddl>>

Restored_(answer) == IF answer = "applied" THEN To("restored", "none") ELSE To("error", "none")

UndoAnswered ==
    /\ At("undoing", "wait") /\ call[Tourist].step = "idle"
    /\ Restored_(call[Tourist].answer)
    /\ UNCHANGED <<uvars, Rest, there, ddl>>

-----------------------------------------------------------------------------
(* Act two.                                                                *)

\* It counts the rows, to show them, and then drops the table: two connections.
CountOrders ==
    /\ At("dropping", "count") /\ there
    /\ tour' = [tour EXCEPT !.before = Held, !.counted = Len(log), !.step = "drop"]
    /\ UNCHANGED <<uvars, Rest, there, ddl>>

DropOrders ==
    /\ At("dropping", "drop") /\ there
    /\ there' = FALSE /\ DropTable
    /\ To("dropped", "none")
    /\ UNCHANGED <<uvars, Rest>>

\* It looks at the table once the job is over, and shows what it finds.
OrdersBack ==
    /\ At("recovering", "wait") /\ cmd[Tourist].step = "idle"
    /\ IF cmd[Tourist].exit # "ok" THEN To("error", "none")
       ELSE Has("done", [tour EXCEPT !.after = Held])
    /\ UNCHANGED <<uvars, Rest, there, ddl>>

-----------------------------------------------------------------------------
(* The jobs.  The sidecar's commands are modules Backups and Recovery.     *)

Snapshot(j) ==
    /\ ask[j].kind = "snapshot" /\ Work(j)
    /\ backups' = backups \cup {Here}
    /\ UNCHANGED <<uvars, trip, there, ddl, fwd, look, made, tour, spent>>

\* Faulty variant: the oldest one.
NewestDrop_Oldest == IF ddl = << >> THEN 0 ELSE 1

\* The newest drop the store knows, else the newest in the tenant.
NewestDrop == IF fwd > 0 THEN fwd ELSE Len(ddl)

PickDrop(j) ==
    /\ ask[j].kind = "recover-table" /\ row[j] = "running" /\ look[j] = 0
    /\ NewestDrop > 0
    /\ look' = [look EXCEPT ![j] = NewestDrop]
    /\ tour' = IF ask[j].by = Tourist THEN [tour EXCEPT !.current = fwd \in {0, Len(ddl)}]
               ELSE tour
    /\ UNCHANGED <<uvars, hvars, trip, there, ddl, fwd, backups, made, spent>>

\* The dump comes from a backup before the drop.  CREATE TABLE fails when the
\* table is there.
CreateTable(j) ==
    /\ look[j] > 0 /\ made[j] = 0 /\ Working(j)
    /\ \E b \in backups : b < PlaceOf(look[j])
    /\ ~there /\ there' = TRUE
    /\ made' = [made EXCEPT ![j] = Len(log) + 1]
    /\ UNCHANGED <<uvars, hvars, trip, ddl, fwd, backups, look, tour, spent>>

\* Then the rows are loaded and the primary key is added, which fails when
\* somebody else has filled the table (module Recovery has the duplicates).
LoadTable(j) ==
    /\ made[j] > 0 /\ Work(j)
    /\ Empty
    /\ Commit(0, {}, [k \in {Orders} |-> ddl[look[j]].image])
    /\ tour' = [tour EXCEPT !.back = Len(log) + 1]
    /\ UNCHANGED <<case, captured, stamped, markers, call, used, applied>>
    /\ UNCHANGED <<trip, there, ddl, fwd, backups, look, made, spent>>

-----------------------------------------------------------------------------
(* The rest of the system.                                                 *)

Unchanged == UNCHANGED <<there, ddl, backups, look, made, tour>>

Spend(what) == spent[what] < trip[what] /\ spent' = [spent EXCEPT ![what] = @ + 1]

\* Invoices are there once the shop has been seeded.
OtherSession(keys) ==
    /\ Spend("writes") /\ (there \/ ddl # << >>) /\ Write(keys)
    /\ UNCHANGED <<hvars, trip, fwd>> /\ Unchanged

\* Faulty variant: a row is forwarded again.
ForwardDdl_Again ==
    /\ ddl # << >> /\ fwd' = fwd + 1
    /\ UNCHANGED <<uvars, hvars, trip, spent>> /\ Unchanged

\* The sidecar moves a row of the DDL log from the tenant to the store.
ForwardDdl ==
    /\ fwd < Len(ddl) /\ fwd' = fwd + 1
    /\ UNCHANGED <<uvars, hvars, trip, spent>> /\ Unchanged

OtherCommand(c) ==
    /\ Spend("commands")
    /\ \/ \E kind \in Kinds, wait \in BOOLEAN : Run(c, kind, wait)
       \/ \E j \in Jobs : RunCancel(c, j)
    /\ UNCHANGED <<uvars, trip, fwd>> /\ Unchanged

HostedStep ==
    /\ \/ \E c \in Clients : ClientStep(c)
       \/ \E c \in trip.others : CancelJob(c) \/ Interrupt(c)
       \/ \E j \in Jobs : StartJob(j) \/ JobEnds(j)
    /\ UNCHANGED <<uvars, trip, fwd, spent>> /\ Unchanged

RebootStep ==
    /\ Spend("reboots") /\ \E j \in Jobs : Reboot(j)
    /\ UNCHANGED <<uvars, trip, fwd>> /\ Unchanged

\* The end that comes before it, when it is in good order.
ShutdownStep ==
    /\ spent.reboots < trip.reboots /\ \E j \in Jobs : Shutdown(j)
    /\ UNCHANGED <<uvars, trip, fwd, spent>> /\ Unchanged

UndoStep ==
    /\ (trip.tours = 0 /\ Asked) \/ Served
    /\ UNCHANGED <<hvars, trip, fwd, spent>> /\ Unchanged

DNext ==
    \/ \E kind \in trip.kinds : Launch(kind)
    \/ Advance \/ Quit \/ Fail
    \/ SeedShop \/ SeedWatermark \/ SnapshotTaken \/ Drained \/ FireIncident \/ FireDependent
    \/ Landed \/ ReadLog \/ ShowPreview \/ AskUndo \/ UndoAnswered \/ CountOrders \/ DropOrders
    \/ OrdersBack
    \/ AskJob("seeding", "snapshot") \/ AskJob("recovering", "recover-table")
    \/ \E j \in Jobs : Snapshot(j) \/ PickDrop(j) \/ CreateTable(j) \/ LoadTable(j)
    \/ \E keys \in SUBSET Keys \ {{}} : OtherSession(keys)
    \/ ForwardDdl \/ HostedStep \/ RebootStep \/ ShutdownStep \/ UndoStep
    \/ \E c \in trip.others : OtherCommand(c)

DSpec == DInit /\ [][DNext]_dvars

-----------------------------------------------------------------------------
\* Types; a stage has what it shows.
DTypeOK ==
    /\ tour.stage \in Resting \cup Busy \cup {"off"}
    /\ tour.mark \in 0..Len(log) /\ tour.incident \in 0..Len(log)
    /\ fwd \in 0..Len(ddl) /\ \A i \in 1..Len(ddl) : ddl[i].at \in 0..Len(log)
    /\ backups \subseteq 0..Here
    /\ \A j \in Jobs : /\ look[j] \in 0..Len(ddl) /\ made[j] \in 0..Len(log) + 1
                       /\ row[j] \in {"absent", "queued", "running"} \cup Queue!Terminal
    /\ tour.stage \in Resting \ {"intro", "seeded", "error"} => tour.incident > 0

\* From the damage on, the walkthrough reads what has been captured: the log has
\* the culprit, and neither the preview nor the undo fails for want of it.
NarratedIsCaptured ==
    tour.stage \in {"damage", "log", "previewing", "preview"} => Captured(tour.incident)

\* "It deliberately takes NO backup": when the walkthrough drops the table there
\* is a backup, taken before, to bring it back from.
BackedUp == tour.stage \in {"dropped", "recovering"} => \E b \in backups : b < Here

\* The last scene tells the truth: the table is back with what was counted before
\* it was dropped, unless someone beside the recovery has written it since.  Except
\* that a recovery which looks while the store knows an older drop and not yet this
\* one recovers from that one.
RecoveredAsDropped ==
    tour.stage = "done" /\ tour.current =>
        \/ tour.after = tour.before
        \/ \E i \in tour.counted + 1..Len(log) : i # tour.back /\ Orders \in KeysOf(i)
=============================================================================
