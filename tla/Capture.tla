-------------------------------- MODULE Capture --------------------------------
(***************************************************************************)
(* The capture sidecar (sidecars/capture): it decodes the commits of the   *)
(* tenant database from a logical replication slot and copies the row      *)
(* changes of tracked tables into eter.history of the store, which is the  *)
(* tenant itself or, in two-database mode, a separate server.              *)
(*                                                                         *)
(* Positions in the write-ahead log are the indices of wal, one per        *)
(* commit, so the end position of the i-th commit is i and 0 comes before  *)
(* the first.  A row change is the table it is of.  Several sidecar        *)
(* processes may run, as when a replacement starts before the old one is   *)
(* gone.                                                                   *)
(***************************************************************************)
EXTENDS Naturals, Sequences, FiniteSets

CONSTANTS
    Tables,
    Procs,       \* sidecar processes
    Refreshers,  \* goroutines of a process that run refresh: LISTEN, poll
    Pollers,     \* those of them that a ticker drives
    TwoDb,       \* history, cursor and undo_txn live in a separate store
    Tracked0,    \* the tables tracked at the start
    MaxCommits,  \* bound: commits of the tenant
    MaxChanges,  \* bound: row changes of a commit
    MaxTrack,    \* bound: calls of eter.track and eter.untrack
    MaxFaults    \* bound: crashes, lost connections and store errors

ASSUME CaptureAssumption ==
    /\ TwoDb \in BOOLEAN
    /\ Tracked0 \subseteq Tables /\ Pollers \subseteq Refreshers
    /\ MaxCommits \in Nat /\ MaxChanges \in Nat /\ MaxTrack \in Nat /\ MaxFaults \in Nat

VARIABLES
    (* the tenant *)
    wal,        \* its commits
    tracked,    \* eter.tracked
    published,  \* the members of publication eter_pub
    confirmed,  \* confirmed_flush_lsn of the slot
    (* the store *)
    marked,     \* commits that have a row in eter.undo_txn
    cursor,     \* eter.capture_state.last_commit_lsn
    hist,       \* eter.history
    (* the processes *)
    up,         \* is the process running
    link,       \* its replication connection: none, live, or dead at the server's end
    pos,        \* clientPos: the position it acknowledges
    at,         \* the commit its stream delivered last, or is delivering
    txn,        \* is that commit still being received (txn is not nil)
    next,       \* the next change of it to arrive
    batch,      \* the changes of it kept
    unknown,    \* the changes of it left out, for want of their table in the catalogue
    catalog,    \* tables it knows as tracked
    refresh,    \* where each refresh is and what it has read
    (* bookkeeping of the model *)
    dropped,    \* the changes that writes left out
    changes,    \* the tables of the calls of track and untrack so far
    faults      \* faults so far

tenant == <<wal, tracked, published, confirmed>>
store == <<marked, cursor, hist, dropped>>
stream == <<link, pos, at, txn, next, batch, unknown>>
tables == <<catalog, refresh>>
vars == <<tenant, store, up, stream, tables, changes, faults>>

Commits == [changes: Seq(Tables), undo: BOOLEAN]
HistoryRows == [lsn: Nat, idx: Nat, isUndo: BOOLEAN]

\* A refresh: the tables it wants published or known, and the members it saw.
Refreshes == [step: {"idle", "members", "alter", "install"},
              want: SUBSET Tables, have: SUBSET Tables]
Idle == [step |-> "idle", want |-> {}, have |-> {}]

-----------------------------------------------------------------------------
Init ==
    /\ wal = <<>> /\ tracked = Tracked0 /\ published = Tracked0 /\ confirmed = 0
    /\ marked = {} /\ cursor = 0 /\ hist = <<>>
    /\ up = [p \in Procs |-> FALSE]
    /\ link = [p \in Procs |-> "none"]
    /\ pos = [p \in Procs |-> 0]
    /\ at = [p \in Procs |-> 0]
    /\ txn = [p \in Procs |-> FALSE]
    /\ next = [p \in Procs |-> 1]
    /\ batch = [p \in Procs |-> <<>>]
    /\ unknown = [p \in Procs |-> {}]
    /\ catalog = [p \in Procs |-> {}]
    /\ refresh = [p \in Procs |-> [r \in Refreshers |-> Idle]]
    /\ dropped = {} /\ changes = <<>> /\ faults = 0

-----------------------------------------------------------------------------
(* The tenant. *)

(* A transaction commits.  Only its changes of published tables matter: the  *)
(* decoder leaves out the others, and commits that have none.  A compensating*)
(* transaction of a single-database eter.undo carries its undo_txn row.      *)
Commit(rowChanges, isUndo) ==
    /\ Len(wal) < MaxCommits
    /\ wal' = Append(wal, [changes |-> rowChanges, undo |-> isUndo])
    /\ marked' = IF isUndo /\ ~TwoDb THEN marked \cup {Len(wal) + 1} ELSE marked
    /\ UNCHANGED <<tracked, published, confirmed, cursor, hist, dropped, up, stream, tables,
                   changes, faults>>

(* The two-database client records the undo in the store after the tenant    *)
(* committed it; it ignores an error, and it may die before.                 *)
MarkUndo(i) ==
    /\ TwoDb
    /\ i \in 1..Len(wal) /\ wal[i].undo
    /\ marked' = marked \cup {i}
    /\ UNCHANGED <<tenant, cursor, hist, dropped, up, stream, tables, changes, faults>>

(* eter.track and eter.untrack change the publication in their transaction,  *)
(* unless their caller may not: then it is left to the sidecar.              *)
Track(t) ==
    /\ t \notin tracked /\ Len(changes) < MaxTrack
    /\ tracked' = tracked \cup {t}
    /\ published' \in {published, published \cup {t}}
    /\ changes' = Append(changes, t)
    /\ UNCHANGED <<wal, confirmed, store, up, stream, tables, faults>>

Untrack(t) ==
    /\ t \in tracked /\ Len(changes) < MaxTrack
    /\ tracked' = tracked \ {t}
    /\ published' \in {published, published \ {t}}
    /\ changes' = Append(changes, t)
    /\ UNCHANGED <<wal, confirmed, store, up, stream, tables, faults>>

-----------------------------------------------------------------------------
(* A process: start, catalogue. *)

\* Faulty variant: the stream starts before the catalogue is read.
Boot_NoCatalog(p) ==
    /\ ~up[p]
    /\ up' = [up EXCEPT ![p] = TRUE]
    /\ UNCHANGED <<tenant, store, stream, tables, changes, faults>>

(* main up to the first streamOnce: it finds slot and cursor in place, and    *)
(* reconciles the publication and reads the catalogue before anything else.  *)
Boot(p) ==
    /\ ~up[p]
    /\ up' = [up EXCEPT ![p] = TRUE]
    /\ published' = tracked
    /\ catalog' = [catalog EXCEPT ![p] = tracked]
    /\ UNCHANGED <<wal, tracked, confirmed, store, stream, refresh, changes, faults>>

(* refresh: reconcileMembership reads the tracked tables, then the members   *)
(* of the publication, and adds and drops one by one; an ALTER that finds    *)
(* the work done by another fails and ends the refresh.  Then loadTracked    *)
(* reads the tracked tables again, and the result is installed.              *)
Refreshing(p, r, step) == up[p] /\ refresh[p][r].step = step
To(p, r, state) == refresh' = [refresh EXCEPT ![p][r] = state]

RefreshStart(p, r) ==
    /\ Refreshing(p, r, "idle")
    /\ To(p, r, [Idle EXCEPT !.step = "members", !.want = tracked])
    /\ UNCHANGED <<tenant, catalog>>

RefreshMembers(p, r) ==
    /\ Refreshing(p, r, "members")
    /\ To(p, r, [refresh[p][r] EXCEPT !.step = "alter", !.have = published])
    /\ UNCHANGED <<tenant, catalog>>

AddMember(p, r) ==
    /\ Refreshing(p, r, "alter")
    /\ \E t \in refresh[p][r].want \ refresh[p][r].have :
         /\ published' = published \cup {t}
         /\ To(p, r, IF t \in published THEN Idle
                     ELSE [refresh[p][r] EXCEPT !.have = @ \cup {t}])
    /\ UNCHANGED <<wal, tracked, confirmed, catalog>>

\* Faulty variant: a table that is no longer tracked is left in the publication.
DropMember_Never(p, r) ==
    /\ Refreshing(p, r, "alter")
    /\ \E t \in refresh[p][r].have \ refresh[p][r].want :
         To(p, r, [refresh[p][r] EXCEPT !.have = @ \ {t}])
    /\ UNCHANGED <<tenant, catalog>>

DropMember(p, r) ==
    /\ Refreshing(p, r, "alter") /\ refresh[p][r].want \subseteq refresh[p][r].have
    /\ \E t \in refresh[p][r].have \ refresh[p][r].want :
         /\ published' = published \ {t}
         /\ To(p, r, IF t \notin published THEN Idle
                     ELSE [refresh[p][r] EXCEPT !.have = @ \ {t}])
    /\ UNCHANGED <<wal, tracked, confirmed, catalog>>

RefreshLoad(p, r) ==
    /\ Refreshing(p, r, "alter") /\ refresh[p][r].have = refresh[p][r].want
    /\ To(p, r, [Idle EXCEPT !.step = "install", !.want = tracked])
    /\ UNCHANGED <<tenant, catalog>>

RefreshInstall(p, r) ==
    /\ Refreshing(p, r, "install")
    /\ catalog' = [catalog EXCEPT ![p] = refresh[p][r].want]
    /\ To(p, r, Idle)
    /\ UNCHANGED tenant

Refresh(p, r) ==
    /\ \/ RefreshStart(p, r) \/ RefreshMembers(p, r) \/ AddMember(p, r) \/ DropMember(p, r)
       \/ RefreshLoad(p, r) \/ RefreshInstall(p, r)
    /\ UNCHANGED <<store, up, stream, changes, faults>>

-----------------------------------------------------------------------------
(* streamOnce *)

\* Faulty variant: the stream starts at the end of the log.
Connect_FromEnd(p) ==
    /\ up[p] /\ link[p] = "none"
    /\ \A o \in Procs : link[o] # "live"
    /\ link' = [link EXCEPT ![p] = "live"]
    /\ at' = [at EXCEPT ![p] = Len(wal)]
    /\ pos' = [pos EXCEPT ![p] = 0]
    /\ UNCHANGED <<tenant, store, up, txn, next, batch, unknown, tables, changes, faults>>

(* A slot serves one connection; the stream restarts after the position the  *)
(* slot confirmed, and clientPos is 0 until a commit is written.             *)
Connect(p) ==
    /\ up[p] /\ link[p] = "none"
    /\ \A o \in Procs : link[o] # "live"
    /\ link' = [link EXCEPT ![p] = "live"]
    /\ at' = [at EXCEPT ![p] = confirmed]
    /\ pos' = [pos EXCEPT ![p] = 0]
    /\ UNCHANGED <<tenant, store, up, txn, next, batch, unknown, tables, changes, faults>>

Disconnected(p) ==
    /\ link' = [link EXCEPT ![p] = "none"]
    /\ txn' = [txn EXCEPT ![p] = FALSE]
    /\ next' = [next EXCEPT ![p] = 1]
    /\ batch' = [batch EXCEPT ![p] = <<>>]
    /\ unknown' = [unknown EXCEPT ![p] = {}]
    /\ UNCHANGED <<pos, at>>

(* The process notices that the server's end is gone. *)
Disconnect(p) ==
    /\ up[p] /\ link[p] = "dead"
    /\ Disconnected(p)
    /\ UNCHANGED <<tenant, store, up, tables, changes, faults>>

(* A BeginMessage: the next commit that has something published. *)
Begin(p) ==
    /\ up[p] /\ link[p] = "live" /\ ~txn[p]
    /\ \E i \in at[p] + 1..Len(wal) :
        /\ wal[i].changes # <<>>
        /\ \A j \in at[p] + 1..i - 1 : wal[j].changes = <<>>
        /\ at' = [at EXCEPT ![p] = i]
    /\ txn' = [txn EXCEPT ![p] = TRUE]
    /\ UNCHANGED <<tenant, store, up, link, pos, next, batch, unknown, tables, changes, faults>>

(* An insert, update or delete message: appendChange keeps it if its table   *)
(* is in the catalogue now.                                                  *)
Receive(p) ==
    /\ up[p] /\ link[p] # "none" /\ txn[p]
    /\ next[p] <= Len(wal[at[p]].changes)
    /\ IF wal[at[p]].changes[next[p]] \in catalog[p]
       THEN batch' = [batch EXCEPT ![p] = Append(@, next[p])] /\ UNCHANGED unknown
       ELSE unknown' = [unknown EXCEPT ![p] = @ \cup {next[p]}] /\ UNCHANGED batch
    /\ next' = [next EXCEPT ![p] = @ + 1]
    /\ UNCHANGED <<tenant, store, up, link, pos, at, txn, tables, changes, faults>>

CommitReceived(p) ==
    up[p] /\ link[p] # "none" /\ txn[p] /\ next[p] > Len(wal[at[p]].changes)

\* Faulty variant: the cursor test is off by one.
StoreCommit_Strict(p) ==
    IF at[p] < cursor
    THEN UNCHANGED store
    ELSE /\ hist' = hist \o [n \in 1..Len(batch[p]) |->
                [lsn |-> at[p], idx |-> batch[p][n], isUndo |-> at[p] \in marked]]
         /\ cursor' = at[p]
         /\ dropped' = dropped \cup {<<at[p], j>> : j \in unknown[p]}
         /\ UNCHANGED marked

\* Faulty variant: the cursor passes the commit after the one written.
StoreCommit_Past(p) ==
    IF at[p] <= cursor
    THEN UNCHANGED store
    ELSE /\ hist' = hist \o [n \in 1..Len(batch[p]) |->
                [lsn |-> at[p], idx |-> batch[p][n], isUndo |-> at[p] \in marked]]
         /\ cursor' = at[p] + 1
         /\ dropped' = dropped \cup {<<at[p], j>> : j \in unknown[p]}
         /\ UNCHANGED marked

\* Faulty variant: the undo marker is not looked up.
StoreCommit_NoMarker(p) ==
    IF at[p] <= cursor
    THEN UNCHANGED store
    ELSE /\ hist' = hist \o [n \in 1..Len(batch[p]) |->
                [lsn |-> at[p], idx |-> batch[p][n], isUndo |-> FALSE]]
         /\ cursor' = at[p]
         /\ dropped' = dropped \cup {<<at[p], j>> : j \in unknown[p]}
         /\ UNCHANGED marked

(* The transaction of writeCommit, which locks the cursor row first: a       *)
(* commit at or before the cursor is skipped, another one is written with    *)
(* the advance of the cursor.                                                *)
StoreCommit(p) ==
    IF at[p] <= cursor
    THEN UNCHANGED store
    ELSE /\ hist' = hist \o [n \in 1..Len(batch[p]) |->
                [lsn |-> at[p], idx |-> batch[p][n], isUndo |-> at[p] \in marked]]
         /\ cursor' = at[p]
         /\ dropped' = dropped \cup {<<at[p], j>> : j \in unknown[p]}
         /\ UNCHANGED marked

(* A CommitMessage whose batch is written, or skipped, without error. *)
Write(p) ==
    /\ CommitReceived(p)
    /\ StoreCommit(p)
    /\ pos' = [pos EXCEPT ![p] = at[p]]
    /\ txn' = [txn EXCEPT ![p] = FALSE]
    /\ next' = [next EXCEPT ![p] = 1]
    /\ batch' = [batch EXCEPT ![p] = <<>>]
    /\ unknown' = [unknown EXCEPT ![p] = {}]
    /\ UNCHANGED <<tenant, up, link, at, tables, changes, faults>>

\* Faulty variant: the position of a commit still being received is acknowledged.
Ack_Early(p) ==
    /\ up[p] /\ link[p] = "live"
    /\ at[p] > confirmed
    /\ confirmed' = at[p]
    /\ UNCHANGED <<wal, tracked, published, store, up, stream, tables, changes, faults>>

(* SendStandbyStatusUpdate: the slot moves forward only. *)
Ack(p) ==
    /\ up[p] /\ link[p] = "live"
    /\ pos[p] > confirmed
    /\ confirmed' = pos[p]
    /\ UNCHANGED <<wal, tracked, published, store, up, stream, tables, changes, faults>>

-----------------------------------------------------------------------------
(* Faults. *)

Fault == faults < MaxFaults /\ faults' = faults + 1

(* writeCommit returns an error; the store may have committed all the same.  *)
(* streamOnce ends and is called again.                                      *)
WriteError(p) ==
    /\ Fault
    /\ CommitReceived(p)
    /\ StoreCommit(p) \/ UNCHANGED store
    /\ Disconnected(p)
    /\ UNCHANGED <<tenant, up, tables, changes>>

(* The process dies, between two steps or inside writeCommit. *)
Crash(p) ==
    /\ Fault
    /\ up[p]
    /\ (CommitReceived(p) /\ StoreCommit(p)) \/ UNCHANGED store
    /\ up' = [up EXCEPT ![p] = FALSE]
    /\ Disconnected(p)
    /\ catalog' = [catalog EXCEPT ![p] = {}]
    /\ refresh' = [refresh EXCEPT ![p] = [r \in Refreshers |-> Idle]]
    /\ UNCHANGED <<tenant, changes>>

(* The connection breaks or its walsender is terminated: the slot is free,   *)
(* the process still has what it had received.                               *)
Break(p) ==
    /\ Fault
    /\ link[p] = "live"
    /\ link' = [link EXCEPT ![p] = "dead"]
    /\ UNCHANGED <<tenant, store, up, pos, at, txn, next, batch, unknown, tables, changes>>

(* The tenant restarts: every connection breaks, and the slot may come back  *)
(* at an older confirmed position than it had acknowledged.                  *)
TenantRestart ==
    /\ Fault
    /\ \E c \in 0..confirmed : confirmed' = c
    /\ link' = [p \in Procs |-> IF link[p] = "live" THEN "dead" ELSE link[p]]
    /\ UNCHANGED <<wal, tracked, published, store, up, pos, at, txn, next, batch, unknown, tables,
                   changes>>

-----------------------------------------------------------------------------
Tenant ==
    \/ \E n \in 0..MaxChanges : \E c \in [1..n -> published], u \in BOOLEAN : Commit(c, u)
    \/ \E i \in 1..MaxCommits : MarkUndo(i)
    \/ \E t \in Tables : Track(t) \/ Untrack(t)

Process(p) ==
    \/ Boot(p) \/ Connect(p) \/ Disconnect(p)
    \/ Begin(p) \/ Receive(p) \/ Write(p) \/ Ack(p)
    \/ \E r \in Refreshers : Refresh(p, r)

Faults ==
    \/ TenantRestart
    \/ \E p \in Procs : WriteError(p) \/ Crash(p) \/ Break(p)

Next == Tenant \/ (\E p \in Procs : Process(p)) \/ Faults

Spec == Init /\ [][Next]_vars

(* A supervised process is started again; a goroutine runs on while it can.  *)
(* The LISTEN goroutine may end for good; the ticker goes on.                *)
Fairness ==
    \A p \in Procs :
        /\ WF_vars(Boot(p)) /\ WF_vars(Connect(p)) /\ WF_vars(Disconnect(p))
        /\ WF_vars(Begin(p)) /\ WF_vars(Receive(p)) /\ WF_vars(Write(p)) /\ WF_vars(Ack(p))
        /\ \A r \in Pollers : WF_vars(Refresh(p, r))

FairSpec == Spec /\ Fairness

-----------------------------------------------------------------------------
(* Properties *)

Positions == 0..Len(wal)

(* The variables hold values of their types. *)
TypeOK ==
    /\ wal \in Seq(Commits)
    /\ tracked \subseteq Tables /\ published \subseteq Tables
    /\ confirmed \in Positions
    /\ marked \subseteq Nat
    /\ cursor \in Positions
    /\ hist \in Seq(HistoryRows)
    /\ up \in [Procs -> BOOLEAN]
    /\ link \in [Procs -> {"none", "live", "dead"}]
    /\ pos \in [Procs -> Positions]
    /\ at \in [Procs -> Positions]
    /\ txn \in [Procs -> BOOLEAN]
    /\ next \in [Procs -> Nat \ {0}]
    /\ batch \in [Procs -> Seq(Nat)]
    /\ unknown \in [Procs -> SUBSET Nat]
    /\ catalog \in [Procs -> SUBSET Tables]
    /\ refresh \in [Procs -> [Refreshers -> Refreshes]]
    /\ dropped \subseteq Nat \X Nat
    /\ changes \in Seq(Tables)
    /\ faults \in 0..MaxFaults

Captured == {<<hist[n].lsn, hist[n].idx>> : n \in 1..Len(hist)}

(* Undo reverses history in descending id, and counts on every change being  *)
(* there once: the rows stand in commit order, in statement order within a   *)
(* commit, and none is there twice, although commits are delivered again     *)
(* after every fault and two processes may hold the same commit at once.     *)
ExactlyOnce ==
    \A m, n \in 1..Len(hist) : m < n =>
        \/ hist[m].lsn < hist[n].lsn
        \/ hist[m].lsn = hist[n].lsn /\ hist[m].idx < hist[n].idx

(* History covers exactly what the cursor claims: every published change up  *)
(* to the cursor is there, save those of a table the writer did not know as  *)
(* tracked, and nothing past it is.  A wrong cursor would turn a redelivery  *)
(* into a gap.                                                               *)
CursorCovers ==
    /\ \A d \in Captured \cup dropped :
         d[1] \in 1..cursor /\ d[2] \in 1..Len(wal[d[1]].changes)
    /\ \A i \in 1..cursor : \A j \in 1..Len(wal[i].changes) :
         <<i, j>> \in Captured \cup dropped

(* The slot never lets go of a commit that history does not hold: everything *)
(* published up to the confirmed position is at or below the cursor.  Past   *)
(* this point the write-ahead log is gone, so the loss would be final.       *)
AckedIsDurable ==
    \A i \in cursor + 1..Len(wal) : i <= confirmed => wal[i].changes = <<>>

(* A row of history that a compensating transaction wrote says so, and no    *)
(* other row does.  The dependency analysis skips rows so marked.            *)
UndoRowsMarked ==
    \A n \in 1..Len(hist) : hist[n].isUndo <=> wal[hist[n].lsn].undo

(* Every published commit reaches history, and the slot gets past it, so the *)
(* log it pins is released.                                                  *)
CapturedEventually ==
    \A i \in 1..MaxCommits :
        (i <= Len(wal) /\ wal[i].changes # <<>>) ~> (cursor >= i /\ confirmed >= i)

(* While tables come and go from eter.tracked and two refreshes race to      *)
(* change the publication and install what they read, a table whose tracking *)
(* nobody changes stays published and loses none of its changes.             *)
Touched == {changes[n] : n \in 1..Len(changes)}
StableTablesKept ==
    /\ Tracked0 \ Touched \subseteq published
    /\ \A d \in dropped : wal[d[1]].changes[d[2]] \in Touched

(* A refresh that works from what it read before a table was tracked may take *)
(* the table out of the publication again, or add one that was just untracked, *)
(* or install an old catalogue after a newer one.  Once the tables no longer *)
(* change, publication and catalogue end up with the tracked tables for good. *)
MembershipSettles ==
    <>[](published = tracked /\ \A p \in Procs : up[p] => catalog[p] = tracked)

(* "everything post-track is captured": no published change is written past. *)
NothingDropped == dropped = {}

(* The history is the one HistoryLog describes. *)
Log == INSTANCE HistoryLog WITH
    commits <- [i \in 1..Len(wal) |-> Len(wal[i].changes)],
    upto <- cursor,
    history <- [n \in 1..Len(hist) |-> <<hist[n].lsn, hist[n].idx>>]

ImplementsHistoryLog == Log!Spec
=============================================================================
