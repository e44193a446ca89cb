------------------------------ MODULE Backups ------------------------------
(***************************************************************************)
(* The backup side of the storage sidecar (sidecars/storage): base backups *)
(* of the tenant, their catalogue in the store, the archive of the         *)
(* tenant's log, and retention.                                            *)
(*                                                                         *)
(* The log is cut so that every record fills a segment: record n is        *)
(* segment n, position n is the end of record n, and time is counted in    *)
(* records as well.  The segment of the last record is open until the next *)
(* record or a switch completes it; only complete segments are archived.   *)
(***************************************************************************)
EXTENDS Integers, Sequences, FiniteSets

CONSTANTS
    Procs,        \* storage processes that may run at the same time
    Policies,     \* configurations (see Policy)
    MinWal,       \* ETER_SNAPSHOT_MIN_WAL_BYTES, in records
    MaxAge        \* ETER_BACKUP_MAX_AGE_HOURS, in records; 0 disables

\* ETER_BACKUP_RETAIN_COUNT; ETER_BACKUP_HORIZON_DAYS, in records;
\* ETER_WAL_ARCHIVE set; the server's archiver works.  Bounds: records of the
\* log, base backups, whether they are also taken on request, and how many
\* commands may end half-way.
Policy == [retain : Nat, horizon : Nat, archive : BOOLEAN, shipping : BOOLEAN,
           records : Nat, backups : Nat, manual : BOOLEAN, crashes : Nat]

ASSUME BackupsAssumption ==
    /\ Policies \subseteq Policy
    /\ MinWal \in Nat /\ MaxAge \in Nat

VARIABLES
    cfg,        \* the policy of this installation; fixed
    lsn,        \* pg_current_wal_lsn of the tenant
    closed,     \* segments 1..closed are complete
    shipped,    \* pg_stat_archiver.last_archived_wal
    archive,    \* segments in ETER_WAL_ARCHIVE
    dirs,       \* backup directories under ETER_BACKUP_DIR
    catalog,    \* eter.storage_snapshots, by id
    made,       \* base backups begun
    pc,         \* where each process is
    mem,        \* what each process holds
    crashes     \* commands that have ended half-way

vars == <<cfg, lsn, closed, shipped, archive, dirs, catalog, made, pc, mem, crashes>>
wal == <<lsn, closed, shipped>>

Row == [name : Nat, lsn : Nat, walStart : Nat, created : Nat, pruned : BOOLEAN]
Held == [name : Nat, start : Nat, end : Nat, target : Nat, cycle : BOOLEAN,
         todo : SUBSET Nat, floor : Nat]
Nothing == [name |-> 0, start |-> 0, end |-> 0, target |-> 0, cycle |-> FALSE,
            todo |-> {}, floor |-> 0]

Init ==
    /\ cfg \in Policies
    /\ lsn = 1 /\ closed = 0 /\ shipped = 0 /\ archive = {}
    /\ dirs = {} /\ catalog = << >> /\ made = 0
    /\ pc = [p \in Procs |-> "idle"]
    /\ mem = [p \in Procs |-> Nothing]
    /\ crashes = 0

-----------------------------------------------------------------------------
(* The tenant.                                                             *)

\* A record is written: it opens a segment and completes the one before.
Write ==
    /\ lsn < cfg.records
    /\ lsn' = lsn + 1
    /\ closed' = lsn
    /\ UNCHANGED <<cfg, shipped, archive, dirs, catalog, made, pc, mem, crashes>>

\* archive_command ships the next complete segment.
ArchiveSegment ==
    /\ cfg.shipping
    /\ shipped < closed
    /\ shipped' = shipped + 1
    /\ archive' = archive \cup {shipped + 1}
    /\ UNCHANGED <<cfg, lsn, closed, dirs, catalog, made, pc, mem, crashes>>

-----------------------------------------------------------------------------
(* ensureArchivedThrough(t): true at once without an archive or when       *)
(* last_archived_wal is there; else the segment is completed by a switch   *)
(* and the caller waits, for a minute.                                     *)

Archived(t) == ~cfg.archive \/ t = 0 \/ shipped >= t
Switch(t) == closed' = IF Archived(t) THEN closed ELSE lsn

-----------------------------------------------------------------------------
(* Commands.                                                               *)

Goto(p, label, held) ==
    /\ pc' = [pc EXCEPT ![p] = label]
    /\ mem' = [mem EXCEPT ![p] = held]

Live == {i \in 1..Len(catalog) : ~catalog[i].pruned}
MinOf(S) == CHOOSE x \in S : \A y \in S : x <= y
MaxOf(S) == CHOOSE x \in S : \A y \in S : y <= x

\* preflight refuses an archive that the server does not feed.
PreflightOk == cfg.archive => cfg.shipping

\* scheduledSnapshot's decision: no prior base, enough log, or aged.
Due ==
    Live # {} =>
    \/ lsn - catalog[MaxOf(Live)].lsn >= MinWal
    \/ MaxAge > 0 /\ MaxOf({catalog[i].created : i \in Live}) < lsn - MaxAge

\* takeSnapshot probes the archiver before it starts pg_basebackup.
Probe(p, cycle) ==
    /\ Switch(lsn)
    /\ Goto(p, "probe", [Nothing EXCEPT !.target = lsn, !.cycle = cycle])

\* `cycle`: preflight, then the segment t of the newest destructive DDL that the
\* store knows (0: none) is pushed out; the result of that is not used.
StartCycle(p, t) ==
    /\ pc[p] = "idle" /\ made < cfg.backups
    /\ PreflightOk
    /\ Switch(t)
    /\ Goto(p, "decide", Nothing)
    /\ UNCHANGED <<cfg, lsn, shipped, archive, dirs, catalog, made, crashes>>

Decide(p) ==
    /\ pc[p] = "decide"
    /\ \/ Due /\ Probe(p, TRUE)
       \/ ~Due /\ Goto(p, "idle", Nothing) /\ UNCHANGED closed
    /\ UNCHANGED <<cfg, lsn, shipped, archive, dirs, catalog, made, crashes>>

\* `snapshot`: the same backup on request, without retention.
StartSnapshot(p) ==
    /\ cfg.manual
    /\ pc[p] = "idle" /\ made < cfg.backups
    /\ Probe(p, FALSE)
    /\ UNCHANGED <<cfg, lsn, shipped, archive, dirs, catalog, made, crashes>>

\* pg_basebackup starts: a checkpoint at the current position.
BeginBackup(p) ==
    /\ pc[p] = "probe"
    /\ Archived(mem[p].target)
    /\ made' = made + 1
    /\ dirs' = dirs \cup {made + 1}
    /\ Goto(p, "copy", [mem[p] EXCEPT !.name = made + 1, !.start = lsn])
    /\ UNCHANGED <<cfg, wal, archive, catalog, crashes>>

ProbeFails(p) ==
    /\ pc[p] = "probe"
    /\ ~Archived(mem[p].target)
    /\ Goto(p, "idle", Nothing)
    /\ UNCHANGED <<cfg, wal, archive, dirs, catalog, made, crashes>>

\* pg_basebackup ends: the stop position, whose segment the server completes.
EndBackup(p) ==
    /\ pc[p] = "copy"
    /\ closed' = lsn
    /\ Goto(p, "seal", [mem[p] EXCEPT !.end = lsn])
    /\ UNCHANGED <<cfg, lsn, shipped, archive, dirs, catalog, made, crashes>>

\* Faulty variant: the end of pg_basebackup is taken for the archival.
RecordBackup_Unchecked(p) ==
    /\ pc[p] = "seal"
    /\ catalog' = Append(catalog, [name |-> mem[p].name, lsn |-> mem[p].end,
                                   walStart |-> mem[p].start, created |-> lsn,
                                   pruned |-> FALSE])
    /\ Goto(p, IF mem[p].cycle THEN "list" ELSE "idle", Nothing)
    /\ UNCHANGED <<cfg, wal, archive, dirs, made, crashes>>

\* Faulty variant: the two positions of the backup's manifest are swapped.
RecordBackup_Swapped(p) ==
    /\ pc[p] = "seal"
    /\ Archived(mem[p].end)
    /\ catalog' = Append(catalog, [name |-> mem[p].name, lsn |-> mem[p].start,
                                   walStart |-> mem[p].end, created |-> lsn,
                                   pruned |-> FALSE])
    /\ IF mem[p].cycle /\ (cfg.retain > 0 \/ cfg.horizon > 0)
       THEN Goto(p, "list", Nothing)
       ELSE Goto(p, "idle", Nothing)
    /\ UNCHANGED <<cfg, wal, archive, dirs, made, crashes>>

\* The last segment of the backup is in the archive: it is recorded.
RecordBackup(p) ==
    /\ pc[p] = "seal"
    /\ Archived(mem[p].end)
    /\ catalog' = Append(catalog, [name |-> mem[p].name, lsn |-> mem[p].end,
                                   walStart |-> mem[p].start, created |-> lsn,
                                   pruned |-> FALSE])
    /\ IF mem[p].cycle /\ (cfg.retain > 0 \/ cfg.horizon > 0)
       THEN Goto(p, "list", Nothing)
       ELSE Goto(p, "idle", Nothing)
    /\ UNCHANGED <<cfg, wal, archive, dirs, made, crashes>>

\* It is not: create discards the backup.
DiscardBackup(p) ==
    /\ pc[p] = "seal"
    /\ ~Archived(mem[p].end)
    /\ dirs' = dirs \ {mem[p].name}
    /\ Goto(p, "idle", Nothing)
    /\ UNCHANGED <<cfg, wal, archive, catalog, made, crashes>>

-----------------------------------------------------------------------------
(* Retention.  Backups are named by their index in the catalogue.          *)

\* Faulty variant: the newest backups at or before the floor are not spared.
Expired_All(S, now) ==
    {i \in S : cfg.horizon > 0 /\ catalog[i].created <= now - cfg.horizon}

\* The horizon loop drops the oldest while the next one is not younger than
\* the floor: i goes exactly when every later backup up to some j > i is.
Expired(S, now) ==
    IF cfg.horizon = 0 THEN {}
    ELSE {i \in S : \E j \in S : /\ i < j
                                 /\ \A k \in S : MinOf(S) < k /\ k <= j =>
                                        catalog[k].created <= now - cfg.horizon}

\* The count rule keeps the oldest and the retain newest of what is left.
Surplus(S) ==
    IF cfg.retain = 0 THEN {}
    ELSE {i \in S : /\ i # MinOf(S)
                    /\ Cardinality({j \in S : j > i}) >= cfg.retain}

\* selectPrunable
Prunable(S, now) == LET E == Expired(S, now) IN E \cup Surplus(S \ E)

ListBackups(p) ==
    /\ pc[p] = "list"
    /\ LET todo == Prunable(Live, lsn)
           kept == Live \ todo
       IN  Goto(p, IF todo = {} THEN "clean" ELSE "remove",
                [Nothing EXCEPT !.todo = todo,
                                !.floor = IF kept = {} THEN 0 ELSE catalog[MinOf(kept)].walStart])
    /\ UNCHANGED <<cfg, wal, archive, dirs, catalog, made, crashes>>

\* rm -rf of the next directory; its row is marked after that.
RemoveDir(p) ==
    /\ pc[p] = "remove"
    /\ dirs' = dirs \ {catalog[MinOf(mem[p].todo)].name}
    /\ Goto(p, "mark", mem[p])
    /\ UNCHANGED <<cfg, wal, archive, catalog, made, crashes>>

MarkPruned(p) ==
    /\ pc[p] = "mark"
    /\ LET i == MinOf(mem[p].todo)
           rest == mem[p].todo \ {i}
       IN  /\ catalog' = [catalog EXCEPT ![i].pruned = TRUE]
           /\ Goto(p, IF rest = {} THEN "clean" ELSE "remove", [mem[p] EXCEPT !.todo = rest])
    /\ UNCHANGED <<cfg, wal, archive, dirs, made, crashes>>

\* pg_archivecleanup, in horizon mode only.
CleanArchive(p) ==
    /\ pc[p] = "clean"
    /\ archive' = IF cfg.horizon > 0 /\ cfg.archive
                  THEN {s \in archive : s >= mem[p].floor}
                  ELSE archive
    /\ Goto(p, "idle", Nothing)
    /\ UNCHANGED <<cfg, wal, dirs, catalog, made, crashes>>

\* A command ends between two of its steps: killed, timed out, or a statement
\* failed.  What it had done stays; a recovered panic of the daemon is the same.
Crash(p) ==
    /\ crashes < cfg.crashes
    /\ pc[p] # "idle"
    /\ crashes' = crashes + 1
    /\ Goto(p, "idle", Nothing)
    /\ UNCHANGED <<cfg, wal, archive, dirs, catalog, made>>

-----------------------------------------------------------------------------

Step(p) ==
    \/ Decide(p) \/ StartSnapshot(p)
    \/ BeginBackup(p) \/ ProbeFails(p) \/ EndBackup(p)
    \/ RecordBackup(p) \/ DiscardBackup(p)
    \/ ListBackups(p) \/ RemoveDir(p) \/ MarkPruned(p) \/ CleanArchive(p)
    \/ Crash(p)

Next ==
    \/ Write \/ ArchiveSegment
    \/ \E p \in Procs : Step(p) \/ \E t \in 0..lsn : StartCycle(p, t)

Spec == Init /\ [][Next]_vars

-----------------------------------------------------------------------------
TypeOK ==
    /\ cfg \in Policies
    /\ lsn \in Nat /\ closed \in 0..lsn /\ shipped \in 0..closed
    /\ archive \subseteq 1..shipped
    /\ dirs \subseteq Nat
    /\ catalog \in Seq(Row)
    /\ made \in Nat
    /\ pc \in [Procs -> {"idle", "decide", "probe", "copy", "seal", "list",
                         "remove", "mark", "clean"}]
    /\ mem \in [Procs -> Held]
    /\ crashes \in Nat

\* Every backup that recovery may pick still has its log: from its first
\* segment to its last, and on to whatever has been shipped since.
ChainUnbroken ==
    cfg.archive =>
        \A i \in Live : /\ catalog[i].lsn <= shipped
                        /\ catalog[i].walStart..shipped \subseteq archive

\* Position t has a base: catalogued, on disk, complete at t or before.
HasBase(t) == \E i \in Live : catalog[i].name \in dirs /\ catalog[i].lsn <= t
Covered == {t \in 0..lsn : HasBase(t)}

\* A listed backup without its directory: its removal has begun.
Husks == {i \in Live : catalog[i].name \notin dirs}

\* Retention reads the catalogue, not the directories.
OneRule == cfg.retain = 0 \/ cfg.horizon = 0

Window == INSTANCE RecoveryWindow WITH
    now <- lsn, depth <- cfg.horizon, points <- Covered, whole <- (OneRule \/ Husks = {})

\* A position inside the horizon that can be recovered stays so, whatever
\* retention removes and wherever a command ends, except that with both rules
\* set nothing is said of a step taken while a listed backup has no directory:
\* what an interrupted removal leaves, and the count rule relies on.
ImplementsWindow == Window!Spec

\* retention.go: "every T inside the horizon stays recoverable".
Claim == INSTANCE RecoveryWindow WITH
    now <- lsn, depth <- cfg.horizon, points <- Covered, whole <- TRUE
HorizonCovered == Claim!Spec
=============================================================================
