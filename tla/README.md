# A TLA+ model of EterDB

EterDB adds reversible history to PostgreSQL: every row change of a tracked
table is recorded, dependencies between transactions are derived, and a
transaction can be undone surgically. This directory models the parts of it
whose correctness depends on order, concurrency and failure, model-checks them
with TLC on small instances and proves the central invariants with TLAPS for
every value of the constants.

- [The system](#the-system)
- [What is modelled](#what-is-modelled)
- [Runs](#runs)
- [What the code does not do](#what-the-code-does-not-do)
- [Proofs](#proofs)
- [Bounds, fairness, assumptions](#bounds-fairness-assumptions)
- [Not modelled](#not-modelled)
- [Plan](#plan)

Paths are relative to the root of the repository.

## The system

| Component | State | Operations | Interacts with |
|---|---|---|---|
| Undo engine, `ext/eter/eter.sql` | `eter.tracked`, `eter.history`, `eter.dependencies`, `eter.undo_txn`, the tracked tables | `track`, `untrack`, `preview_undo`, `undo`, `undo_rows`, `undo_cohort`, `derive_from_read_set`, `age_read_edges`, DDL logging | application transactions (row locks), capture (history), read tracking (dependencies) |
| Capture sidecar, `sidecars/capture` | the slot's confirmed position; `eter.capture_state`; the catalogue of tracked tables and the transaction being received, in memory | stream, write a commit, acknowledge, refresh the catalogue, reconcile the publication, forward reads and DDL rows | tenant server (replication protocol, NOTIFY), store |
| Engine client, `sidecars/eterclient` | none of its own | preview, undo and cohort undo, over one database or two | tenant, store |
| Orchestrator, `sidecars/orchestrator` | `eter.jobs`; in memory the lane, the cancel target and the wake token | submit, run, cancel, scheduled cycle, shutdown, boot recovery | store, storage sidecar (child process) |
| Storage sidecar, `sidecars/storage` | `eter.storage_snapshots`, backup directories, WAL archive, throwaway servers | backup, retention, recovery of tables, rows, columns, time travel, preflight | tenant, store, file system |
| Read tracking, `ext/eter_ssi`, `pg/patches` | the SSI reads file, `eter.ssi_reads` | capture at PRE_COMMIT, drain, derive | server's predicate locks, undo engine |
| CLI, `cli/internal/cmd`, `cli/internal/client` | one command at a time: the job it waits for | undo and cohort undo, storage commands, `jobs --cancel` | engine client or orchestrator |
| Demo, `cli/internal/demo`, `cli/internal/demotui` | the stage of the walkthrough, its incident | seed, fire, inspect, undo, drop, recover | tenant, history, orchestrator |
| Packaging, site, tests | none that matters here | | |

The path of a change: an application transaction commits in the tenant; the
capture sidecar decodes the commit and writes its rows to `eter.history`, in
the tenant (single-database mode) or in a store of its own (two-database
mode); read tracking adds edges between transactions; `preview_undo` reads
history and edges and classifies a transaction as clean or dependent; `undo`
restores before-images in one compensating transaction, which capture in turn
decodes and marks as undo. Backups, recovery and maintenance run as jobs of
the orchestrator, one at a time.

What makes each part correct, and hard:

- *Undo engine.* After a clean undo the database is as if the transaction had
  never run. It classifies from a history that lags behind, it holds no lock
  between classification and compensation, it reverses several transactions in
  one call, and a compensation may fail half-way.
- *Capture.* History holds each committed change once, in order; the slot never
  releases what history lacks; compensating writes are recognised. Commits are
  redelivered, processes crash and overlap, the catalogue is stale.
- *Orchestrator.* A job runs at most once and one at a time, ends, can be
  canceled while it runs; a cancel is answered truthfully. Cancel requests race
  with the runner, cycles share its cancel target, and the process may end at
  any point.
- *Storage.* A backup that recovery may pick has its log; a point inside the
  retention horizon stays recoverable; a dropped object is recovered as it was
  just before its drop. The archiver lags, retention deletes while recovery
  copies, commands end half-way, the event to recover from travels to the store.
- *Clients.* A call over two databases is a series of statements that may stop
  anywhere: the tenant must see transactions reversed whole, and what was undone
  stays undone. A command's exit status speaks of its own job, also when
  answers get lost and orchestrators die.
- *Demo.* What it shows is there: it reads a history that lags, and relies for
  its second act on a backup that a job took in its first.
- *Read tracking and forwarding.* No read that makes a dependent is lost
  between the server's locks and the classification.

`PROJECT.json` lists every hazard at its line with the properties that watch it.

## What is modelled

### UndoEngine

`UndoEngine.tla` is `eter.sql` in single-database mode with one tracked table.
`rows` is the committed table, `log` the committed row changes in `history.id`
order, of which the first `captured` are in `eter.history`; `work` and `pend`
are what open transactions have written and locked; `deps` is
`eter.dependencies`; `undo` holds the undo sessions.

| Action | Code |
|---|---|
| `Write`, `Commit`, `Rollback` | application transactions under READ COMMITTED: a row lock is held from the first write to the end; the first write draws the transaction id |
| `Capture` | `writeCommit`: one commit at a time |
| `RecordRead` | an rw edge derived by `derive_from_read_set`, taken as given |
| `BeginUndo`, `Preview` | `undo`, the loop of `undo_cohort` and `preview_undo`: classification, refusal or skip, plan |
| `Compensate` | `_compensate` of the next row, waiting for its lock, raising when no row matches |
| `CommitUndo`, `AbortUndo` | the end of the call; whatever raises rolls back all of it |

A row image is the number of the transaction that wrote it, so an image tells
its writer. Statements that touch several rows are several row changes. A
history row is undo activity exactly when a session wrote it, because in one
database `undo_txn` commits with the compensating writes.

### Capture and HistoryLog

`Capture.tla` is the sidecar between the tenant's log and the store: the
commits of published tables (`wal`), the slot (`confirmed`), the store
(`cursor`, `hist`, `marked` for `undo_txn`), and any number of sidecar
processes with their connection, received transaction and catalogue. `Begin`,
`Receive` and `Write` are `handleLogical`, `StoreCommit` is the transaction of
`writeCommit`, `Ack` the standby status update. `Refresh` is `refresh`:
`RefreshStart`, `RefreshMembers`, `AddMember` and `DropMember` are
`reconcileMembership`, whose reads and ALTERs are statements of their own,
`RefreshLoad` and `RefreshInstall` the catalogue. The notification listener and
the poller interleave at any of these steps, with each other and with
`eter.track` and `eter.untrack`, which change `published` in their transaction
or leave it to the sidecar when their caller lacks the privilege. `WriteError` and `Crash` may strike after the
store committed; `Break` leaves a process with a received commit on a dead
connection while another process takes the slot; `TenantRestart` takes the
slot back to an older confirmed position, as PostgreSQL may.

`HistoryLog.tla` is the promise: history is a prefix of the commits, whole
commits at a time, in order. `Capture` implements it with `upto <- cursor`.

### Jobs and JobQueue

`Jobs.tla` is the orchestrator: rows of `eter.jobs`, the runner loop statement
by statement where another goroutine can come in between (`NextQueued`,
`Acquire`, `Register`, `MarkRunning`, `StartSidecar`, `Wait`, `Sweep`,
`Finish`, `ClearTarget`, `FreeLane`), the maintenance cycle through the same
lane (`CycleTry` to `CycleFree`), cancel requests with their two steps
(`CancelQueued` in the store, `CancelRunning` under the mutex), timeouts, the
sidecar processes, SIGTERM (`Stop`), the end of the process at any point
(`Die`), and `Boot`, which fails orphaned rows and sweeps directories.
A store call may fail before or after it took effect. `StartPreflight` is the
process that boot starts in a goroutine of its own, beside the lane
(`bootPreflight`).

Nothing in `execStorage` or `docker/supervisord.conf` ends a sidecar with its
orchestrator, so any of those at work when it ends may go on (`orphans`, with
the end they are from), make their directory after the sweep of the next boot
(`strays` are the jobs this concerns) and run beside the next orchestrator's.
The properties say what is left: the lane is a single flight per orchestrator,
and only a sidecar that outlived the sweep leaves a directory.

The lane is a channel of capacity 1, so a runner that waits for it is handed
the slot by the cycle that frees it (`Handover`); the cycle only ever tries.
`exec.Cmd` does not start under a context that is done, and reports the
context's error when the context ended before the exit was noticed (`Wait`).

`JobQueue.tla` is the promise to clients: one job runs at a time, each at most
once, and an outcome stays. The first part lasts until an access to the rows
fails (`sound`): a row that could not be given its outcome says `running` beside
the next one.

### ReadSet

`ReadSet.tla` follows a read from the transaction that made it to an rw edge of
`eter.dependencies`, the edges `UndoEngine` takes as given. A committing reader
appends its line to the SSI-WAL file (`PreCommit`, before its commit, which may
still fail); a session of the tenant drains the file in two file accesses
(`DrainRead`, `DrainTake`: `file` is emptied with what came in between), derives
or selects, truncates and commits (`CommitDrain`), and a forwarder then ships
(`Ship`). `PreviewDerive` and `PreviewClear` are the two statements of
`derive_from_read_set`, which runs before each two-database preview. `Capture`
copies commits to history one at a time, in order, which is what `HistoryLog`
promises. `deploy` is one of four deployments: one database with the capture
trigger or with the sidecar, a store of its own, and that on the engine image.
The derivation in the tenant and the one in the store are the same operator
`Edges` over different histories.

The pipeline loses reads in several ways, so the model keeps a record of each
loss where it happens (`lost`, `behind`, `age`); `ReadersReported` says that
the steps of the model lose a read in no other: the reads file did not open
when the reader committed (`PreCommitUnwritten`), the line came after a drain
had read the file and before it emptied it, went with a drain that was rolled
back or a shipment that failed, or was swept with the reads of a preview; the
key is longer than the 511 characters of hex a drain takes (`Parsed`); the
match came before history had both transactions; the reader was aged out; or
the capture trigger dated it before its writer.

### Backups and RecoveryWindow

`Backups.tla` is the backup side of the storage sidecar. The tenant's log is cut
so that every record fills a segment: `lsn` is the current position, `closed`
the last complete segment, `shipped` what the archiver has reported, `archive`
what is in `ETER_WAL_ARCHIVE`. A process goes through the steps of `cycleOnce`,
`takeSnapshot` and `applyRetention` that another process, the archiver or a kill
can come between: `StartCycle`, `Decide` or `StartSnapshot`, `BeginBackup`,
`EndBackup`, `RecordBackup` or `DiscardBackup`, `ListBackups`, then `RemoveDir`
and `MarkPruned` for each victim, `CleanArchive`. `Expired` and `Surplus` are
the two rules of `selectPrunable`, the horizon and the count, `Crash` the end of
a command between any two steps.

`RecoveryWindow.tla` is the promise: a position that has become recoverable
stays so while it is inside the horizon. `Backups` implements it with the
positions covered by a catalogued backup that is on disk. The promise has a
condition, `whole`, because the code breaks it otherwise: with both retention
rules set, nothing is said of a step taken while a listed backup has no
directory (`Husks`, what an interrupted removal leaves). `HorizonCovered` is the
promise without the condition, as the comment in `retention.go` has it; run
`HalfPruned` refutes it.

### Recovery

`Recovery.tla` adds object recovery to `Backups`: the DDL triggers of the tenant
(`DdlTrigger`, within the transaction that `DdlCommit` or `DdlRollback` ends),
the forwarder's three statements (`ForwardRead`, `ForwardShip`, `ForwardPrune`),
and the recovery commands: `Look` and `LookInTenant` find the event
(`destructiveLSN`), `Pick` the newest backup before it, `Materialize` copies it
and pushes the log out, `Replay` brings the throwaway server to the record
before the event, and `CreateTable` with `LoadTable`, `InsertRows` or
`AddColumn` apply the copy to the live table. `AsOf` reads the past and changes
nothing. One table with a key and one more column is enough to tell the three
recoveries apart; every row carries the record that wrote it, so the extracted
copy is compared with the table's whole history (`past`).

### TwoDbUndo

`TwoDbUndo.tla` is undo with a store of its own: `Check` (the cohort's own
preview), `Plan` (preview and rows, from the store), `Apply` or `Raise`
(`eter.undo_rows`, in the tenant), `Mark` or `LoseMark` (the marker, in the
store), with transactions of the application and capture in between, and
`CutShort` at any point. What one call of `undo_rows` does in the face of locks
is `UndoEngine`'s subject; here it is one step.

### HostedJobs

`HostedJobs.tla` is a storage command in orchestrator mode: `Run`, `SubmitJob`
(or `SubmitLost`, when the answer does not arrive), `Poll`, the exit status;
`jobs <id> --cancel`; Ctrl-C. It builds on `JobQueue`, which `Jobs` implements:
`StartJob`, `JobEnds` and `Reboot` are what a client can tell of the
orchestrator, with `Work` the moment a job takes effect, which for an orphan is
after its row has failed. `Shutdown` is the cancellation of the running job by
an orchestrator that was told to end: like a request, it makes `canceled` a
possible outcome.

### DemoTour

`DemoTour.tla` composes `TwoDbUndo` and `HostedJobs` with the demo, a client of
both: `tour` is the Bubble Tea model (`stage`) with what its messages carry,
`Advance` the enter key, and each stage's command is cut where it waits for the
sidecar or a job: `SeedShop`, `SeedWatermark`, `SnapshotTaken`; `Drained`,
`FireIncident`, `Landed`; `ReadLog`, `ShowPreview`, `AskUndo`, `UndoAnswered`;
`CountOrders`, `DropOrders`, `OrdersBack`; the count that the walkthrough shows
and the drop are statements on two connections, with other sessions between
them. The jobs are `Snapshot`, `PickDrop`, `CreateTable` and `LoadTable`, what
modules `Backups` and `Recovery` do in detail; a table that has been created
and not loaded is there, empty, for everyone (`Empty`, `Held`). The log of
transactions is the tenant's log of changes, so the load of the recovered table
is one more transaction in it. `demo up` takes the same path without backup and ends with
the incident. Its `UPDATE` between watermark and drain is one of `OtherSession`.

## Runs

Every run and its properties are in `PROJECT.json`; these pass:

| Run | What it shows |
|---|---|
| `UndoCalls` | types; a clean undo is exact (`CleanUndoExact`), for cohorts, overlapping calls and an rw edge, except where a write raced with the classification; in all modes, over three transactions, a call that commits restored the before-images of the transaction it reversed last: nothing is half-applied |
| `CaptureTwoProcs` | exactly-once history, truthful cursor, nothing acknowledged early, undo marked, over three faults and two processes; `Capture` implements `HistoryLog` |
| `ReadSetLosses` | in three deployments, with overlapping drains, previews, aging and a failed drain or shipment: a dependent reader is reported unless its read fell to one of the named losses; no edge is of a read that cannot have happened |
| `CaptureLive` | in two-database mode, every published commit is captured and released; under two racing refreshes a table whose tracking nobody changes stays published and complete (`StableTablesKept`), and publication and catalogue end up with the tracked tables, although a stale refresh may undo a fresh change (`MembershipSettles`) |
| `JobsRestarts` | single flight per orchestrator, at-most-once execution, no restore directory but those of sidecars that outlived a sweep, truthful outcomes, `Jobs` implements `JobQueue`, a queued job is taken: over ends of the orchestrator that sidecars survive, and failing store calls; until a store call fails, also: a running job can always be canceled, a refusal means the job is over, and a running job ends |
| `StorageRecovery` | backups keep their log (`ChainUnbroken`), points inside the horizon stay recoverable (`ImplementsWindow`; with both retention rules and an interrupted command as long as every listed backup has its directory), the store has the events of a table once and in order (`StoreOrder`), and a recovery extracts the table as it was just before the newest event (`RestoredExact`), over lagging and broken archiving, interrupted commands, retention during a recovery, both layouts of databases |
| `HostedClients` | what two-database undo by overlapping, repeated and cut-short calls has reversed stays undone (`UndoneStaysUndone`); exit statuses are true (`ExitTellsTruth`); the demo shows only what has been captured, drops its table only with a backup in hand, and its last scene shows the table with what was counted before the drop (`NarratedIsCaptured`, `BackedUp`, `RecoveredAsDropped`) |

## What the code does not do

Five runs expect a violation: a comment or a test of the repository says
something the code does not do, and TLC shows the behaviour.

| Run | Behaviour |
|---|---|
| `UndoCascadeOrder` | two dependents wrote a row in the order opposite to their ids; reversing by descending id leaves a reversed value |
| `CaptureLateTable` | the first changes after `eter.track` are dropped when decoded before the catalogue is refreshed |
| `DdlRowLost` | the DDL forwarder prunes by the largest id it read: a row with a smaller id that committed after the read is deleted without having been shipped, and recovery never learns of the event |
| `ReadSetImage` | the engine image's worker drains the reads of a two-database deployment and derives them against an empty history: they never reach the store |
| `HalfPruned` | with a retain count and a horizon, a pass that ends between the removal of a directory and the mark on its row (`retention.go:40-43`) leaves a listed middle backup without a directory; when it grows older than the horizon, the next pass drops the backup before it and relies on it, and a point inside the horizon is lost |

Known limits that a passing run steers clear of by its constants or that no
property is about:

- A write that commits, or is captured, after the classification is overwritten
  by a clean undo, although the comment at `eter.sql:1038` says that a later
  write "must not be blindly reverted": nothing looks again before the
  compensation commits. `CleanUndoExact` and `UndoneStaysUndone` except such
  rows (`Raced`).
- `UndoRowsMarked` is checked with one database. With two (`TwoDb`), the marker
  is a second, best-effort write, and a compensating row may be captured before
  it exists; `UndoneStaysUndone` holds as long as no call is then pointed at the
  compensation itself.
- A member of a cohort that becomes dependent between its check and its plan ends
  the whole call with "dependent" (`direct.go:316`), after other members were
  reversed.
- `POST /v1/jobs/0/cancel` cancels a maintenance cycle in flight: a cycle sets
  the cancel target and leaves `runningID` at 0 (`jobs.go:300`).
- While the store knows an older event of the kind and not yet the newest one,
  recovery goes back to before the older (`recover.go:254`: the tenant is asked
  only when the store has none). `RestoredExact` and `RecoveredAsDropped` except
  that case.
- `recover-table` loads its dump statement by statement (`recover.go:101`): a
  failure in the middle leaves the table without its rows, and another session
  may write it before they arrive. `RestoredExact` speaks of the copy.
- Ctrl-C does not end a storage command that waits for its job
  (`cmd.go:250`, `storage.go:293`): it polls under a context of its own.
- A submission whose answer is lost leaves a job that the user cannot name; a
  second attempt is a second job. `ExitTellsTruth` speaks of the command's own.
- A `MarkRunning` that took effect and returned an error, or a `Finish` that
  failed, leaves a row `running` without a cancel target until the next boot.
  `RunningIsCancelable`, `RefusedMeansOver` and `JobsEnd` promise nothing once a
  store call has failed.
- A cancel that arrives between the exit of the sidecar and the clearing of the
  target is answered true although the job may end `succeeded`; `Truthful`
  claims only the converse.
- A cascade reverses the direct dependents of its target and never looks at
  theirs, although a comment (`eter.sql:830`) says that each is analysed.
- A storage sidecar that survives an orchestrator overlaps the jobs of the next
  one, and may put back the directory that its boot has swept. `SingleFlight`
  and `NoDebris` say so; the comment at `recovery.go:5-8` does not.
- The preflight of a boot runs beside the lane (`main.go:157`).
- Each loss that `ReadersReported` exempts is a dependent that preview does not
  report, a "false clean". Derivation takes it that "every read has had its
  chance to match a write" (`eter.sql:1169`, `eter_ssi.sql:147`); with an
  asynchronous capture the reader or the writer may not be in history yet, and
  the reads are truncated all the same. In trigger mode `committed_at` is the
  time of the write, so the time-order guard drops a reader that wrote first.
  A key of more than 255 bytes is cut by the drain (`eter_ssi.c:1271`), and a
  reads file that does not open costs a warning only (`eter_ssi.c:710-715`).
- After transaction ids wrap around, a read is given to the oldest transaction
  with the same 32-bit id. `ReadSet` has no wrap-around.
- A dropped table makes `derive_dependencies` fail (`::regclass`), after the
  file was emptied: a failed drain (`FailDrain`).
- A cohort skips a transaction because of a dependent that it has reversed
  itself: `preview_undo` still finds that dependent in history.

## Proofs

Every safety property of a passing run is a theorem, for all values of the
constants that satisfy the named assumptions of the modules and the hypotheses
given here. An invariant is rarely inductive by itself; what is added, and why,
is the argument.

### Undo engine

`UndoEngineProofs` (from `UndoAssumption`: among other things, the names of
sessions, which stand for compensating transactions in the log, are not those
of transactions):

- `TypeCorrect`: `Spec => []TypeOK`.
- `CommittedUndoRestores`: `Spec => UndoRestoresBeforeImage`, in every mode.
  `Chains` says that the log, and the log followed by the pending changes of any
  one writer, is one chain of before- and after-images per row.
  `Blocks` says that the changes of a transaction stand together in the log and
  are captured together, so that what a call planned for is all there is;
  `Calls` that a call in progress has compensated its plan from the back, so
  that each row it is through with holds the before-image of its first change.
- `CleanUndoIsExact`: `Spec => []CleanUndoExact`. For clean_only calls `Calls`
  keeps, with each reversed transaction, what it looked like in the history its
  preview saw. Lemma `Disjoint`: two transactions that were both clean when one
  call looked at them share no row, unless a write raced with it. `Reversals`
  carries that over the commit of the call, and
  `AsIfNeverRun` is the property made inductive: not only the row but the
  before-image of every transaction on it is what the changes that nobody has
  undone make of it. The row alone would not do, because the next undo restores
  a before-image, not a row.

### Capture

`CaptureProofs` (from `CaptureAssumption`):

- `TypeCorrect`, `HistoryIsExactlyOnce`, `CursorIsTruthful`,
  `NothingAckedEarly`. The inductive invariant `Safe` relates, for every
  process, the commit it is receiving, the changes kept and left out so far
  and the position it acknowledges: `pos[p] <= cursor`, `confirmed <= cursor`,
  and a commit is delivered only after everything published before it, down to
  the cursor, is at or below the cursor. That last part is what rules out a
  gap when a stale process and a fresh one alternate.
- `UndoRowsAreMarked`, for one database: a compensating commit carries its
  `undo_txn` row (`Markers`). With two databases it does not hold (see above).
- `StableTablesAreKept`: a table whose tracking nobody changes is published and
  complete, whatever refreshes race. `StableInv` says so of the publication and
  the catalogues (`Membership`), of what an unfinished refresh holds in its
  hands (`Readings`), and of what commits have left out (`LeftOut`).
- `CaptureImplementsHistoryLog`: `Spec /\ []NothingDropped => ImplementsHistoryLog`.
  `NothingDropped` is what run `CaptureLateTable` refutes; where no commit loses
  a change that way, every step of every process is a step of `HistoryLog` or
  stutters. `SteadyCaptureImplementsHistoryLog` draws the
  conclusion for a set of tracked tables that does not change, where the
  condition always holds.

### Jobs

`JobsProofs` (from `JobsAssumption`):

- `TypeCorrect`, `JobsRunOnce`, `OutcomesAreTruthful`, `OneFlightAtATime`,
  `EndedJobsAreSwept`, `NoUncancelableWindow`, `RefusalsAreTrue` and
  `JobsAreAQueue`, the refinement of `JobQueue`, hold over any ends of the
  orchestrator, survivors and failed store calls, without further hypothesis.
- None of these is inductive. The invariant `IInv` adds, part by part: the lane
  and the cancel target belong to whoever runs (`LaneHeld`); a live sidecar has
  an owner waiting for it (`Attended`); a row that is started was taken from
  the queue by the runner that holds it (`StartedOnce`); directories belong to
  running rows (`Tidy`); a success and a cancellation have their reason, which
  no later step removes (`Reasoned`, `KilledForever`); without store errors the
  running row is the runner's (`Sound`), and a request that went past the store
  saw its job past the queue (`Asked`), which is why its second look, under the
  mutex, may be trusted when it finds nothing.

### Read sets

`ReadSetProofs` (from `ReadSetAssumption`):

- `TypeCorrect`, `EdgesAlwaysReal` and `ReadersAlwaysReported` hold in all four
  deployments, for any number of transactions, rows, sessions and faults.
- Neither property is inductive: an edge is inserted when a derivation commits,
  long after it was matched, and a line is somewhere else after every step. The
  invariant `IInv` says of every line, wherever it is, that it is a true account
  of a reader past its reading (`LinesTrue`); of every edge, also those of open
  derivations, that it is real (`EdgesTrue`); of an open derivation, that it has
  answered for each of its lines (`Matched`); and of every read that it is an
  edge, a line under way, or a loss on record (`Accounted`). A line a session
  has read but not yet taken off the file does not count as under way: another
  session may take it first. `Kept` states once what no step changes about a
  transaction past its reading, so that an edge once real stays so.

### Backups and recovery

`RecoveryProofs` (from `BackupsAssumption` and `RecoveryAssumption`), for any
policies, limits, sessions and clients, under the hypothesis `OneProcess`: one
storage process backs up at a time, which is what the lane ensures as long as no
sidecar outlives its orchestrator (`Jobs`, `SingleFlight`). With two, `ChainUnbroken` is false: a backup that
started first and is recorded last needs segments that the other process cleans
in between. `RInv` is the conjunction of

- `BackupInv`, for `ChainStaysUnbroken`: backups are catalogued in the order in
  which they started (`Ordered`), the archive has had every segment since the
  start of a backup under way (`Running`), and no backup that a retention run
  leaves needs a segment below its floor (`Retaining`);
- `TableInv`: the table has a state for each position of the log;
- `EventInv`, for `StoreStaysInOrder`: ids are drawn in order and an open event
  of the table holds its lock (`EventIds`, `TableLock`), so events of the table
  become visible in order; what the forwarder has yet to ship of them is later than
  what it has shipped (`Forwarding`), so it appends in order;
- `RecInv`, for `RestoredIsExact`: a command that looks for the newest event
  and knows of it carries that position from there to the end, and the copy it
  applies is the table just before it.

`PointsStayRecoverable`, the refinement of `RecoveryWindow`, has no other
hypothesis: the condition is in the promise itself (`whole`). `WindowInv` says
that names are given once and each backup ends before the next begins
(`Stamped`, `Fresh`); that a retention run keeps a backup in the catalogue that
serves whatever those it removes did (`Keeping`); and, where at most one rule is
set, that a backup an interrupted run left without its directory is never the
one a later run relies on (`Spared`): the count rule always keeps the oldest,
which it never removes, and what the horizon rule has begun to remove it will
remove again. With both rules neither argument holds, and there the condition is
that no listed backup is without its directory.

### Clients and demo

`TwoDbUndoProofs` (from `TwoDbAssumption`), for any number of callers,
transactions and faults; its steps are stated a little more generally than
`UNext`, so that the theorems also hold under the demo.

- `UndoTypes`: `UTypeOK`. `UInv` keeps with every call that its plan has each
  transaction of the application that wrote a row of its target after it and
  that the store had by then (`CallOk`).
- `UndoneForGood`: `UndoneStaysUndone`. `Chained` is the same idea as
  `AsIfNeverRun` above: rows and before-images are what the transactions not
  undone left, on every row where no write raced with a call.

`DemoTourProofs` (from the assumptions of `TwoDbUndo`, `HostedJobs` and
`DemoTour`, whose `TourAssumption` says that the terminal of a walkthrough runs
nothing else): `DemoTypes`, `DemoUndoTypes`, `NarratedCaptured`,
`DropsBackedUp`, `TourRecovers`, `ExitsTellTruth`, `HostedUndoneForGood`. The invariant `DInv` is `UInv` and `Chained`; `JInv`,
that a command polls a job that is its own and that a job past the queue has
its reasons (`CommandOk`, `Lined`); and the `Tale`, what the walkthrough may
rely on at each stage: its incident is a captured transaction of the
application, it waits for its own command, a backup exists before the drop, the
drop is the newest one its recovery can find, and from the count on, until
somebody writes the table, it is what was counted (`CountStands`, `Dropped`). The step that matters is the recovery job:
it looks at the DDL log at one time and takes effect at another.

### Lemmas

`OrderLemmas` has what the others share: least and greatest elements of sets of
numbers, and the enumeration of a finite set by rank, which is how `ById` orders
the rows the forwarder ships. Where a sequence or a set is gone through from one
end, the induction is the choice of a least element; the induction theorems of
the library are not used, since they take an operator for the property.

### Only model-checked

Liveness (`CapturedEventually`, `MembershipSettles`, `JobsTaken`, `JobsEnd`):
fairness and ENABLED are out of the provers' reach. The disagreements of the
runs that expect a violation are counterexamples and have nothing to prove.

## Bounds, fairness, assumptions

*Undo engine.* Two keys, three transactions of at most two row changes, two undo
sessions, cohorts of two, at most one rw edge. `MCUndoEngine` runs two
instances: two clean_only calls over two transactions and an edge, and one call
in any mode over three transactions. Two keys are what a transaction needs to
conflict on one row and not on another; three transactions give a chain of
dependents or a cohort with an outsider; longer histories of a key repeat the
same cases, and the properties are proved without the bounds.

*Capture.* Three commits of at most two changes and three faults: a redelivery
of a commit already written, behind one that is not, while a fault strikes the
second delivery. Two processes; more add nothing since the slot serves one. The
proofs have no bounds. `CaptureLive` has one process and the combinations of
`MCCaptureLive`, whose constraint no step with fairness leads out of: two commits, a fault and one refresh; one commit and two
refreshes; no commits, two calls of `track` and `untrack`, two refreshes and a
restart. Two calls bring a table there and back while a refresh holds what it
read before the first.

*ReadSet.* Two transactions, each of which writes and reads either of two rows,
one of them with a key too long for a drain; the worker, a caller, a forwarder
and a preview; one failure; one cutoff, between the two commits. The long key
comes without failures and aging (`Within` of `MCReadSet`). A loss concerns
one reader and one writer, and both transactions play both parts. The engine
image, where worker and forwarder meet, is left to `ReadSetImage`.

*Jobs.* Two jobs, a cycle, a cancel request, two ends of the process, a store
error, in the combinations of `MCJobs` (`Plans`), whose constraint no step with
fairness leads out of: two jobs and a cancellation; a cancellation around two
ends, which leave the sidecars of two orchestrators beside a third; an error and
an end with a cancellation, or with a second job; and the preflight over one
end. With two jobs one can run while the other is queued, canceled or waits for
the lane behind a cycle, and a request can name the wrong one.

*Storage.* The installations of `MCRecovery`. Backups and retention alone: five
records, three backups, one or both of the two rules, with and without an
archive, an archiver that does not work, one interrupted command; three backups
are one that goes, one that must stay and one that makes the difference. Both
rules with an interrupted command have four, with which `HalfPruned` loses a
point. The DDL
log and its forwarder: two sessions, three events, one failure. Recovery: two
events of one kind through the forwarder; two recoveries of each of two kinds,
by newest event and by named backup; retention during a recovery; no archive;
reads of the past. One process of backups and retention, with one recovery
beside it: under the lane of one orchestrator (`Jobs`, `SingleFlight`) they
exclude each other, in standalone daemon mode they do not
(`sidecars/storage/README.md:35`), nor while a sidecar outlives its
orchestrator.

*Clients.* The trips of `MCDemoTour`. Undo: two clients with two calls, and one
fault or cohorts; one client with three calls, or with cohorts, and one fault;
all modes over transactions of two rows; clean_only with reads; two transactions
and two keys in each. Storage commands by two clients: three, or two and a
reboot. The demo: a walkthrough and `demo up` with a transaction of another
session and a reboot; two walkthroughs one
after the other, the first left anywhere. A second one meets every leftover of
the first: a table to drop, history, DDL rows, jobs.

*Fairness.* `Capture`: the sidecar is restarted by its supervisor
(`docker/supervisord.conf`, `autorestart=true`), its stream runs on, and the
ticker calls `refresh` again and again; the listener, which ends with its first
lost connection (`listenTracked`), and the tenant owe nothing. `Jobs`: the runner and a cycle that began go on, a
sidecar that was told to end does (SIGKILL follows SIGTERM after ten seconds,
`execStorage`), a timeout that is configured (the default is an hour) fires,
and the supervisor restarts the orchestrator. A sidecar left alone may hang;
without a timeout a queued job may wait forever. The other modules promise no
progress: an undo may wait for a lock, a walkthrough for its user, and a command
for a job that hangs.

*Assumptions.* A commit the stream delivers is visible to queries
(single-database `undo_txn`). The reconciliation and the catalogue of a starting
sidecar are one step, since nothing streams before them. Primary keys do not
change. Row changes of one commit reach history whole. Sweeping a restore
directory succeeds. What a drain takes of a key that it cuts is not the key of
another row. Backups are scheduled by the orchestrator or by the daemon, not
both (`sidecars/storage/README.md:33`). DDL logging is on from the start. The
demo's schema and its first rows are one transaction.

Symmetry is used where sessions or processes are interchangeable, in runs
without liveness only. Deadlock is not checked: transactions, jobs and faults
are bounded, so every model comes to rest.

## Not modelled

- The creation of slot and publication, the replica identity of a tracked table
  and the copy of `eter.tracked` in a separate store, which only grows.
- How the reads of one transaction become lines of the reads file
  (`eter_ssi.c`: stash, covered indexes, relation locks, the cap on sequential
  scans), and the server patch, whose meaning is that of PostgreSQL's predicate
  locks.
- Changes of primary keys, and the wrap-around of transaction ids.
- Progress events and heartbeats of jobs, the read-only endpoints and commands.
- `demo down`, the text of the scenes; `doctor`, `connect`, configuration and
  output of the CLI; packaging and site, which keep no state of the system.

## Plan

Modelled, checked and proved is what the sections above name. What is left:

1. What remains true of the properties that fail: `NothingDropped` for a table
   that every catalogue holds when its change is decoded, `EventsKept` for
   events whose transactions commit in the order of their ids.
2. `CascadeNewestFirst` for dependents that wrote in the order of their ids.
3. `ChainUnbroken` with several processes, for the policies that clean no
   archive.
4. The step from `Jobs` to `HostedJobs`: the actions `StartJob`, `JobEnds` and
   `Reboot` as an image of the steps of `Jobs`.
