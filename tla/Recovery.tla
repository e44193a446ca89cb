------------------------------ MODULE Recovery ------------------------------
(***************************************************************************)
(* Object recovery (sidecars/storage/recover.go, timetravel.go) over the   *)
(* backups of module Backups: the log of destructive DDL that the tenant's *)
(* triggers write, its forwarder to the store (sidecars/capture/           *)
(* ddlforward.go), and the commands recover-table, recover-rows,           *)
(* recover-column and as-of.                                               *)
(*                                                                         *)
(* There is one table, with a primary key and one more column; the tables  *)
(* next to it appear as DDL with the tag "other".  A row carries the       *)
(* number of the record that wrote it, 0 for NULL, so that no two versions *)
(* of a row are alike.                                                     *)
(***************************************************************************)
EXTENDS Backups

CONSTANTS
    Keys,        \* primary keys
    Sessions,    \* application sessions that run destructive DDL
    Clients,     \* recovery commands that may run at the same time
    Limits       \* bounds of a configuration (see Limit)

ObjectTags == {"DROP TABLE", "TRUNCATE TABLE", "DROP COLUMN"}
Tags == ObjectTags \cup {"other"}

\* twoDb: the store is a database of its own.  Bounds: keys written, whether
\* there is other traffic, sessions, kinds and number of destructive DDL, ways
\* to recover and number of recoveries, and failures of the forwarder.
Limit == [twoDb : BOOLEAN, keys : SUBSET Keys, traffic : BOOLEAN,
          sessions : SUBSET Sessions, tags : SUBSET Tags, ddls : Nat,
          ways : SUBSET {"newest", "named", "as-of"}, commands : Nat, fails : Nat]

ASSUME RecoveryAssumption == Limits \in [Policies -> Limit]

VARIABLES
    tab,      \* the table in the tenant
    past,     \* past[n]: the table after record n
    ddl,      \* rows of eter.ddl_log in the tenant
    store,    \* rows of eter.ddl_log in the store, by the store's id
    ids,      \* the tenant's ddl_log_id_seq
    open,     \* the DDL transaction of each session, from its trigger on
    fwd,      \* what the forwarder has read
    rec,      \* each recovery command
    newest,   \* newest[tag]: the last committed event (no code reads it)
    used      \* commands and forwarder failures so far

recovery == <<tab, past, ddl, store, ids, open, fwd, rec, newest, used>>
rvars == <<vars, recovery>>

None == [tag |-> "none", id |-> 0, at |-> 0]
limit == Limits[cfg]

Table == [there : BOOLEAN, col : BOOLEAN, pk : BOOLEAN, rows : SUBSET (Keys \X Nat)]
Empty == [there |-> TRUE, col |-> TRUE, pk |-> TRUE, rows |-> {}]
Gone == [Empty EXCEPT !.there = FALSE]
KeysOf(t) == {r[1] : r \in t.rows}
NoRec == [step |-> "idle", op |-> "none", at |-> 0, base |-> 0, copy |-> Gone, want |-> 0]

RInit ==
    /\ Init
    /\ tab = Empty /\ past = <<Empty>>
    /\ ddl = {} /\ store = << >> /\ ids = 0
    /\ open = [s \in Sessions |-> None]
    /\ fwd = [step |-> "idle", rows |-> {}]
    /\ rec = [c \in Clients |-> NoRec]
    /\ newest = [tag \in Tags |-> None]
    /\ used = [commands |-> 0, fails |-> 0]

-----------------------------------------------------------------------------
(* The tenant's transactions.  Each writes one record; the content of the  *)
(* table after it is t.                                                    *)

Record(t) == Write /\ tab' = t /\ past' = Append(past, t)

\* A table with DDL in flight is locked.
Unlocked == \A s \in Sessions : open[s].tag \notin ObjectTags

AppWrite(k) ==
    /\ tab.there /\ Unlocked
    /\ Record([tab EXCEPT !.rows = {r \in @ : r[1] # k} \cup
                                   {<<k, IF tab.col THEN lsn + 1 ELSE 0>>}])
    /\ UNCHANGED <<ddl, store, ids, open, fwd, rec, newest, used>>

\* Records that have nothing to do with the table.
OtherWrite ==
    /\ limit.traffic
    /\ Record(tab)
    /\ UNCHANGED <<ddl, store, ids, open, fwd, rec, newest, used>>

AppCreate ==
    /\ ~tab.there
    /\ limit.ddls > 0
    /\ Record(Empty)
    /\ UNCHANGED <<ddl, store, ids, open, fwd, rec, newest, used>>

\* _log_sql_drop and _log_truncate insert into ddl_log within the transaction
\* of the DDL: id and snapshot_lsn are drawn here, and the record of the INSERT
\* is the first one after snapshot_lsn.  `at` is that record.
DdlTrigger(s, tag) ==
    /\ open[s] = None
    /\ ids < limit.ddls
    /\ tag \in ObjectTags => tab.there /\ Unlocked
    /\ tag = "DROP COLUMN" => tab.col
    /\ Record(tab)
    /\ ids' = ids + 1
    /\ open' = [open EXCEPT ![s] = [tag |-> tag, id |-> ids + 1, at |-> lsn + 1]]
    /\ UNCHANGED <<ddl, store, fwd, rec, newest, used>>

Effect(tag) ==
    CASE tag = "DROP TABLE"     -> Gone
      [] tag = "TRUNCATE TABLE" -> [tab EXCEPT !.rows = {}]
      [] tag = "DROP COLUMN"    -> [tab EXCEPT !.col = FALSE, !.rows = KeysOf(tab) \X {0}]
      [] OTHER                  -> tab

DdlCommit(s) ==
    /\ open[s] # None
    /\ Record(Effect(open[s].tag))
    /\ ddl' = ddl \cup {open[s]}
    /\ newest' = [newest EXCEPT ![open[s].tag] = open[s]]
    /\ open' = [open EXCEPT ![s] = None]
    /\ UNCHANGED <<store, ids, fwd, rec, used>>

DdlRollback(s) ==
    /\ open[s] # None
    /\ open' = [open EXCEPT ![s] = None]
    /\ UNCHANGED <<vars, tab, past, ddl, store, ids, fwd, rec, newest, used>>

-----------------------------------------------------------------------------
(* The DDL-log forwarder: ship first, prune second.                        *)

Shipped == {store[i].id : i \in 1..Len(store)}
ById(S) == [i \in 1..Cardinality(S) |->
               CHOOSE r \in S : Cardinality({q \in S : q.id <= r.id}) = i]

ForwardRead ==
    /\ limit.twoDb
    /\ fwd.step = "idle" /\ ddl # {}
    /\ fwd' = [step |-> "ship", rows |-> ddl]
    /\ UNCHANGED <<vars, tab, past, ddl, store, ids, open, rec, newest, used>>

\* Faulty variant: a row that is in the store is inserted again.
ForwardShip_Again ==
    /\ fwd.step = "ship"
    /\ store' = store \o ById(fwd.rows)
    /\ fwd' = [fwd EXCEPT !.step = "prune"]
    /\ UNCHANGED <<vars, tab, past, ddl, ids, open, rec, newest, used>>

\* INSERT ... ON CONFLICT (src_id) DO NOTHING
ForwardShip ==
    /\ fwd.step = "ship"
    /\ store' = store \o ById({r \in fwd.rows : r.id \notin Shipped})
    /\ fwd' = [fwd EXCEPT !.step = "prune"]
    /\ UNCHANGED <<vars, tab, past, ddl, ids, open, rec, newest, used>>

\* DELETE ... WHERE id <= the last id read
ForwardPrune ==
    /\ fwd.step = "prune"
    /\ ddl' = {r \in ddl : \A q \in fwd.rows : r.id > q.id}
    /\ fwd' = [step |-> "idle", rows |-> {}]
    /\ UNCHANGED <<vars, tab, past, store, ids, open, rec, newest, used>>

\* A statement fails or the sidecar stops.
ForwardFail ==
    /\ fwd.step # "idle" /\ used.fails < limit.fails
    /\ fwd' = [step |-> "idle", rows |-> {}]
    /\ used' = [used EXCEPT !.fails = @ + 1]
    /\ UNCHANGED <<vars, tab, past, ddl, store, ids, open, rec, newest>>

-----------------------------------------------------------------------------
(* Recovery commands.                                                      *)

\* destructiveLSN's two readings, ORDER BY id DESC LIMIT 1; 0 is ''.
InTenant(tag) ==
    LET S == {r \in ddl : r.tag = tag} IN
    IF S = {} THEN 0 ELSE (CHOOSE r \in S : \A q \in S : q.id <= r.id).at

InStore(T) ==
    LET S == {i \in 1..Len(store) : store[i].tag \in T} IN
    IF S = {} THEN 0 ELSE store[MaxOf(S)].at

\* Faulty variant: the oldest event of the kind.
Indexed_First(tag) ==
    LET S == {i \in 1..Len(store) : store[i].tag = tag}
    IN  IF S = {} THEN InTenant(tag) ELSE store[MinOf(S)].at

\* metaQuery reads the tenant when it is the store.
Indexed(tag) == IF limit.twoDb THEN InStore({tag}) ELSE InTenant(tag)

\* What recovery must return to when the store is not behind the tenant.
Settled(tag) ==
    IF ~limit.twoDb \/ newest[tag].id \in Shipped THEN newest[tag].at ELSE 0

Continue(c, r) == rec' = [rec EXCEPT ![c] = r]
Rest == <<tab, past, ddl, store, ids, open, fwd, newest, used>>

Begin(c, way, r) ==
    /\ way \in limit.ways
    /\ rec[c].step = "idle" /\ used.commands < limit.commands
    /\ used' = [used EXCEPT !.commands = @ + 1]
    /\ Continue(c, r)
    /\ UNCHANGED <<vars, tab, past, ddl, store, ids, open, fwd, newest>>

\* recover-table, recover-rows and recover-column of the newest event.
Look(c, tag) ==
    LET at == Indexed(tag) IN
    Begin(c, "newest", [NoRec EXCEPT !.step = IF at = 0 THEN "tenant" ELSE "pick",
                                     !.op = tag, !.at = at, !.want = Settled(tag)])

LookInTenant(c) ==
    /\ rec[c].step = "tenant"
    /\ Continue(c, [rec[c] EXCEPT !.step = "pick", !.at = InTenant(rec[c].op)])
    /\ UNCHANGED <<vars, Rest>>

\* pickSnapshot: the newest backup, complete before the event if it is known.
\* Without one the command fails.
Pick(c) ==
    /\ rec[c].step = "pick"
    /\ LET fit == {i \in Live : rec[c].at > 0 => catalog[i].lsn < rec[c].at}
       IN  Continue(c, IF fit = {} THEN NoRec
                       ELSE [rec[c] EXCEPT !.step = "copy", !.base = MaxOf(fit)])
    /\ UNCHANGED <<vars, Rest>>

\* The same commands with the snapshot named.
NameSnapshot(c, tag) ==
    \E i \in 1..Len(catalog) :
        Begin(c, "named", [NoRec EXCEPT !.step = "copy", !.op = tag, !.base = i])

\* as-of T: the newest backup recorded at T or before.
AsOf(c) ==
    /\ cfg.archive
    /\ \E T \in 1..lsn :
         LET fit == {i \in Live : catalog[i].created <= T}
         IN  /\ fit # {}
             /\ Begin(c, "as-of", [NoRec EXCEPT !.step = "copy", !.op = "as-of", !.at = T + 1,
                                                !.base = MaxOf(fit), !.want = T + 1])

\* materialize: the copy is good when the directory outlives it.  Then an
\* object recovery pushes its target out to the archive; as-of does not.
Materialize(c) ==
    /\ rec[c].step = "copy"
    /\ IF catalog[rec[c].base].name \in dirs
       THEN /\ IF rec[c].op = "as-of" THEN UNCHANGED closed ELSE Switch(rec[c].at)
            /\ Continue(c, [rec[c] EXCEPT !.step = "replay"])
       ELSE UNCHANGED closed /\ Continue(c, NoRec)
    /\ UNCHANGED <<cfg, lsn, shipped, archive, dirs, catalog, made, pc, mem, crashes, Rest>>

\* What a server started on the copy replays: to just before the target; or to
\* the backup's own end, when there is no target or no archive.
Target(r) == IF cfg.archive /\ r.at > 0 THEN r.at - 1 ELSE catalog[r.base].lsn

\* It comes up when the archive has every segment up to the one that shows the
\* target is reached, and the target is not before the end of the backup.
Reachable(r) ==
    cfg.archive =>
        /\ catalog[r.base].lsn <= Target(r)
        /\ catalog[r.base].walStart..(IF r.at > 0 THEN r.at ELSE Target(r)) \subseteq archive

Replay(c) ==
    /\ rec[c].step = "replay"
    /\ Continue(c, IF Reachable(rec[c])
                   THEN [rec[c] EXCEPT !.step = "apply", !.copy = past[Target(rec[c])]]
                   ELSE NoRec)
    /\ UNCHANGED <<vars, Rest>>

\* The dump creates the table, loads it and adds the key: statements of their
\* own.  CREATE TABLE fails when the table is there.
CreateTable(c) ==
    /\ rec[c].step = "apply" /\ rec[c].op = "DROP TABLE"
    /\ rec[c].copy.there /\ ~tab.there
    /\ Record([rec[c].copy EXCEPT !.pk = FALSE, !.rows = {}])
    /\ Continue(c, [rec[c] EXCEPT !.step = "load"])
    /\ UNCHANGED <<ddl, store, ids, open, fwd, newest, used>>

LoadTable(c) ==
    /\ rec[c].step = "load"
    /\ tab.there /\ Unlocked /\ tab.col = rec[c].copy.col
    /\ LET rows == tab.rows \cup rec[c].copy.rows
       IN  Record([tab EXCEPT !.rows = rows,
                              !.pk = \A r, q \in rows : r[1] = q[1] => r = q])
    /\ Continue(c, NoRec)
    /\ UNCHANGED <<ddl, store, ids, open, fwd, newest, used>>

\* One transaction: the rows whose key is missing.
InsertRows(c) ==
    /\ rec[c].step = "apply" /\ rec[c].op = "TRUNCATE TABLE"
    /\ LET copy == rec[c].copy IN
         /\ copy.there /\ copy.pk
         /\ tab.there /\ Unlocked /\ tab.pk /\ (copy.col => tab.col)
         /\ Record([tab EXCEPT !.rows = @ \cup {r \in copy.rows : r[1] \notin KeysOf(tab)}])
    /\ Continue(c, NoRec)
    /\ UNCHANGED <<ddl, store, ids, open, fwd, newest, used>>

\* One transaction: the column, and its value in every row the copy also has.
AddColumn(c) ==
    /\ rec[c].step = "apply" /\ rec[c].op = "DROP COLUMN"
    /\ LET copy == rec[c].copy IN
         /\ copy.there /\ copy.col /\ copy.pk
         /\ tab.there /\ Unlocked
         /\ Record([tab EXCEPT !.col = TRUE,
                               !.rows = {r \in @ : r[1] \notin KeysOf(copy)} \cup
                                        {r \in copy.rows : r[1] \in KeysOf(tab)}])
    /\ Continue(c, NoRec)
    /\ UNCHANGED <<ddl, store, ids, open, fwd, newest, used>>

\* A statement fails, or the wait for the throwaway server times out: the
\* deferred calls remove the copy, and what the script had done stays.  An
\* as-of ends here too, with its answer.
EndRecovery(c) ==
    /\ rec[c].step \in {"apply", "load"}
    /\ Continue(c, NoRec)
    /\ UNCHANGED <<vars, Rest>>

-----------------------------------------------------------------------------

\* Steps of Backups.  A cycle reads the newest destructive event in the store.
BackupStep ==
    /\ \/ ArchiveSegment
       \/ \E p \in Procs :
            \/ Step(p)
            \/ StartCycle(p, IF limit.twoDb THEN InStore(Tags)
                             ELSE MaxOf({0} \cup {r.at : r \in ddl}))
    /\ UNCHANGED recovery

RNext ==
    \/ BackupStep
    \/ AppCreate \/ OtherWrite
    \/ \E k \in limit.keys : AppWrite(k)
    \/ \E s \in limit.sessions : DdlCommit(s) \/ DdlRollback(s)
                                  \/ \E tag \in limit.tags : DdlTrigger(s, tag)
    \/ ForwardRead \/ ForwardShip \/ ForwardPrune \/ ForwardFail
    \/ \E c \in Clients :
         \/ \E tag \in limit.tags \cap ObjectTags : Look(c, tag) \/ NameSnapshot(c, tag)
         \/ AsOf(c) \/ LookInTenant(c) \/ Pick(c) \/ Materialize(c) \/ Replay(c)
         \/ CreateTable(c) \/ LoadTable(c) \/ InsertRows(c) \/ AddColumn(c)
         \/ EndRecovery(c)

RSpec == RInit /\ [][RNext]_rvars

-----------------------------------------------------------------------------
RTypeOK ==
    /\ TypeOK
    /\ tab \in Table
    /\ past \in Seq(Table) /\ Len(past) = lsn
    /\ \A i \in 1..Len(catalog) : catalog[i].walStart <= catalog[i].lsn
    /\ \A r \in ddl \cup {store[i] : i \in 1..Len(store)} : r.id \in 1..ids /\ r.tag \in Tags
    /\ \A c \in Clients : rec[c].base \in 0..Len(catalog) /\ rec[c].copy \in Table

\* What a recovery extracts, when the newest event is indexed in the store as
\* it starts, is the table as it was just before that event.
RestoredExact ==
    \A c \in Clients :
        rec[c].step \in {"apply", "load"} /\ rec[c].want > 0 /\ cfg.archive =>
            rec[c].copy = past[rec[c].want - 1]

\* The store has each event once, and the events of the table in the order in
\* which they happened: "the last row" is the newest event.
StoreOrder ==
    \A i, j \in 1..Len(store) :
        i < j => /\ store[i].id # store[j].id
                 /\ store[i].tag = store[j].tag /\ store[i].tag \in ObjectTags =>
                        store[i].at < store[j].at

\* ddlforward.go: "no row is ever duplicated or lost".
EventsKept ==
    \A tag \in Tags : newest[tag] # None => newest[tag] \in ddl \/ newest[tag].id \in Shipped
=============================================================================
