------------------------------ MODULE UndoEngine ------------------------------
(***************************************************************************)
(* The undo engine of ext/eter/eter.sql in single-database mode: one       *)
(* tracked table, application transactions that write it concurrently,     *)
(* the change history the capture sidecar fills in commit order, and undo  *)
(* sessions that run eter.undo or eter.undo_cohort.                        *)
(*                                                                         *)
(* The history row with id i is log[i]; the rows 1..captured are the ones  *)
(* the sidecar has written to eter.history, the rest are committed but     *)
(* still in flight.  A row image is abstracted to the number of the        *)
(* transaction that produced it (0 for the initial rows), so an image also *)
(* tells who wrote it.  No transaction changes a primary key.              *)
(***************************************************************************)
EXTENDS Naturals, Sequences, FiniteSets

CONSTANTS
    Keys,       \* primary keys of the tracked table
    MaxTxn,     \* application transactions, numbered by transaction id
    Sessions,   \* undo sessions, each one call of eter.undo or eter.undo_cohort
    Modes,      \* the modes those calls pass
    Initial,    \* the table before the first tracked write
    NoRow,      \* the image of an absent row
    Free,       \* a key the transaction has neither written nor locked
    MaxWrites,  \* bound: row changes per application transaction
    MaxEdges,   \* bound: read-write edges recorded
    MaxCohort   \* bound: transactions selected by one undo call

Txns == 1..MaxTxn
Writers == Txns \cup Sessions
Images == {0} \cup Txns \cup {NoRow}

ASSUME UndoAssumption ==
    /\ MaxTxn \in Nat /\ MaxWrites \in Nat /\ MaxEdges \in Nat /\ MaxCohort \in Nat
    /\ Modes \subseteq {"clean_only", "cascade", "targeted"}
    /\ NoRow \notin {0} \cup Txns
    /\ Free \notin Images
    /\ Initial \in [Keys -> {0, NoRow}]
    /\ Sessions \cap ({0} \cup Txns) = {}

VARIABLES
    rows,      \* the committed table
    log,       \* committed row changes, in history.id order
    captured,  \* how many of them eter.history holds
    status,    \* life of every application transaction
    work,      \* uncommitted row images of every writer, Free where it holds no lock
    pend,      \* uncommitted row changes of every writer, in statement order
    deps,      \* eter.dependencies, kind rw: pairs <<reader, writer>>
    undo,      \* the undo sessions
    undone     \* what committed undo calls reversed

vars == <<rows, log, captured, status, work, pend, deps, undo, undone>>

Entries == [by: Writers, key: Keys, before: Images, after: Images]

(* An undo call: the transactions it has still to reverse, the one it is    *)
(* reversing with the history rows left of it, how much history it had seen *)
(* when it classified that one, and what it reversed or skipped so far.     *)
UndoCalls ==
    [state: {"idle", "active", "committed", "aborted"},
     mode: {"clean_only", "cascade", "targeted"},
     cohort: BOOLEAN,
     members: SUBSET Txns,
     target: {0} \cup Txns,
     seen: Nat,
     left: SUBSET Nat,
     reversed: SUBSET [txid: Txns, seen: Nat],
     skipped: SUBSET Txns]

NoCall ==
    [state |-> "idle", mode |-> "clean_only", cohort |-> FALSE, members |-> {},
     target |-> 0, seen |-> 0, left |-> {}, reversed |-> {}, skipped |-> {}]

-----------------------------------------------------------------------------
(* What the history tells. *)

IsUndo(i) == log[i].by \in Sessions

RowsOf(t) == {i \in 1..captured : log[i].by = t}

Recorded == {log[i].by : i \in 1..captured} \cap Txns

(* Later history rows, by another transaction and not undo, on a key the    *)
(* transaction wrote: id > max(id) of its rows on that key.                 *)
WwConflicts(t) ==
    {log[j].by : j \in {j \in 1..captured :
        /\ ~IsUndo(j)
        /\ log[j].by # t
        /\ \E i \in RowsOf(t) : log[i].key = log[j].key
        /\ \A i \in RowsOf(t) : log[i].key = log[j].key => i < j}}

\* Faulty variant: the write-write half of the union is missing.
AllConflicts_NoWw(t) == {r \in Txns : <<r, t>> \in deps}

AllConflicts(t) == WwConflicts(t) \cup {r \in Txns : <<r, t>> \in deps}

\* Faulty variant: oldest history row first.
CompensatedBefore_OldestFirst(i, j, m) ==
    \/ log[i].by # m /\ log[j].by = m
    \/ log[i].by # m /\ log[j].by # m /\ log[i].by > log[j].by
    \/ log[i].by = log[j].by /\ i < j

(* The order of compensation when target m is reversed: the dependents,     *)
(* highest transaction id first, then m; newest history row first in each.  *)
CompensatedBefore(i, j, m) ==
    \/ log[i].by # m /\ log[j].by = m
    \/ log[i].by # m /\ log[j].by # m /\ log[i].by > log[j].by
    \/ log[i].by = log[j].by /\ i > j

-----------------------------------------------------------------------------
(* Rows, locks and commits of PostgreSQL under READ COMMITTED. *)

Locked(w, k) == \E o \in Writers \ {w} : work[o][k] # Free

View(w, k) == IF work[w][k] = Free THEN rows[k] ELSE work[w][k]

Change(w, k, image) ==
    /\ work' = [work EXCEPT ![w][k] = image]
    /\ pend' = [pend EXCEPT ![w] = Append(@,
            [by |-> w, key |-> k, before |-> View(w, k), after |-> image])]

Release(w) ==
    /\ work' = [work EXCEPT ![w] = [k \in Keys |-> Free]]
    /\ pend' = [pend EXCEPT ![w] = <<>>]

Publish(w) ==
    /\ rows' = [k \in Keys |-> View(w, k)]
    /\ log' = log \o pend[w]
    /\ Release(w)

-----------------------------------------------------------------------------
Init ==
    /\ rows = Initial
    /\ log = <<>>
    /\ captured = 0
    /\ status = [t \in Txns |-> "idle"]
    /\ work = [w \in Writers |-> [k \in Keys |-> Free]]
    /\ pend = [w \in Writers |-> <<>>]
    /\ deps = {}
    /\ undo = [s \in Sessions |-> NoCall]
    /\ undone = {}

(* An INSERT, UPDATE or DELETE of one row.  The first one gives the          *)
(* transaction its id, so ids follow the order of first writes.              *)
Write(t, k, image) ==
    /\ \/ status[t] = "open" /\ Len(pend[t]) < MaxWrites
       \/ status[t] = "idle" /\ \A o \in Txns : o < t => status[o] # "idle"
    /\ ~Locked(t, k)
    /\ View(t, k) = NoRow => image # NoRow
    /\ status' = [status EXCEPT ![t] = "open"]
    /\ Change(t, k, image)
    /\ UNCHANGED <<rows, log, captured, deps, undo, undone>>

Commit(t) ==
    /\ status[t] = "open"
    /\ status' = [status EXCEPT ![t] = "committed"]
    /\ Publish(t)
    /\ UNCHANGED <<captured, deps, undo, undone>>

Rollback(t) ==
    /\ status[t] = "open"
    /\ status' = [status EXCEPT ![t] = "aborted"]
    /\ Release(t)
    /\ UNCHANGED <<rows, log, captured, deps, undo, undone>>

\* Faulty variant: the position runs one row ahead.
Capture_Ahead ==
    \E n \in captured + 1..Len(log) :
        /\ captured' = n + 1
        /\ UNCHANGED <<rows, log, status, work, pend, deps, undo, undone>>

(* The sidecar writes the rows of the next commit to eter.history. *)
Capture ==
    \E n \in captured + 1..Len(log) :
        /\ \A i \in captured + 1..n : log[i].by = log[n].by
        /\ n < Len(log) => log[n + 1].by # log[n].by
        /\ captured' = n
        /\ UNCHANGED <<rows, log, status, work, pend, deps, undo, undone>>

(* Read tracking records that a transaction read what an earlier one wrote. *)
RecordRead(r, w) ==
    /\ {r, w} \subseteq Recorded
    /\ \A i \in RowsOf(w), j \in RowsOf(r) : i < j
    /\ Cardinality(deps) < MaxEdges
    /\ deps' = deps \cup {<<r, w>>}
    /\ UNCHANGED <<rows, log, captured, status, work, pend, undo, undone>>

-----------------------------------------------------------------------------
(* undo and undo_cohort *)

BeginUndo(s, members, mode, cohort) ==
    /\ undo[s].state = "idle"
    /\ ~cohort => Cardinality(members) = 1
    /\ undo' = [undo EXCEPT ![s].state = "active", ![s].members = members,
                            ![s].mode = mode, ![s].cohort = cohort]
    /\ UNCHANGED <<rows, log, captured, status, work, pend, deps, undone>>

(* preview_undo of the next transaction, highest id first: refused or        *)
(* skipped when a clean_only call finds it dependent, planned otherwise.     *)
Preview(s) ==
    /\ undo[s].state = "active" /\ undo[s].left = {}
    /\ \E m \in undo[s].members :
        /\ \A o \in undo[s].members : o <= m
        /\ LET conflicts == AllConflicts(m)
               reversing == {m} \cup (IF undo[s].mode = "cascade" THEN conflicts ELSE {})
           IN  IF undo[s].mode = "clean_only" /\ conflicts # {}
               THEN undo' = [undo EXCEPT ![s].members = @ \ {m},
                                         ![s].skipped = @ \cup {m}]
               ELSE undo' = [undo EXCEPT
                        ![s].members = @ \ {m},
                        ![s].target = m,
                        ![s].seen = captured,
                        ![s].left = UNION {RowsOf(t) : t \in reversing},
                        ![s].reversed = @ \cup [txid: reversing, seen: {captured}]]
    /\ UNCHANGED <<rows, log, captured, status, work, pend, deps, undone>>

(* The row the loops of undo reach next. *)
NextRow(s, i) ==
    /\ i \in undo[s].left
    /\ \A j \in undo[s].left \ {i} : CompensatedBefore(i, j, undo[s].target)

(* What _compensate matches: the row to restore must be absent after a       *)
(* DELETE and present after an INSERT or an UPDATE, whatever it now holds.   *)
Matches(i, image) == (log[i].after = NoRow) <=> (image = NoRow)

\* Faulty variant: a compensation that matches no row passes silently.
Compensate_Silent(s) ==
    /\ undo[s].state = "active"
    /\ \E i \in undo[s].left :
        LET k == log[i].key IN
        /\ NextRow(s, i)
        /\ ~Locked(s, k)
        /\ IF Matches(i, View(s, k)) THEN Change(s, k, log[i].before)
                                     ELSE UNCHANGED <<work, pend>>
        /\ undo' = [undo EXCEPT ![s].left = @ \ {i}]
    /\ UNCHANGED <<rows, log, captured, status, deps, undone>>

Compensate(s) ==
    /\ undo[s].state = "active"
    /\ \E i \in undo[s].left :
        LET k == log[i].key IN
        /\ NextRow(s, i)
        /\ ~Locked(s, k)
        /\ Matches(i, View(s, k))
        /\ Change(s, k, log[i].before)
        /\ undo' = [undo EXCEPT ![s].left = @ \ {i}]
    /\ UNCHANGED <<rows, log, captured, status, deps, undone>>

(* The call raises: a compensation that matches no row (or hits the primary  *)
(* key), a dependent target, or a deadlock or cancel of the session.  All of *)
(* the call's writes are rolled back and its plan is gone.                   *)
AbortUndo(s) ==
    /\ undo[s].state = "active"
    /\ undo' = [undo EXCEPT ![s] = [NoCall EXCEPT !.state = "aborted"]]
    /\ Release(s)
    /\ UNCHANGED <<rows, log, captured, status, deps, undone>>

CommitUndo(s) ==
    /\ undo[s].state = "active"
    /\ undo[s].members = {} /\ undo[s].left = {}
    /\ ~undo[s].cohort => undo[s].skipped = {}
    /\ undo' = [undo EXCEPT ![s].state = "committed"]
    /\ undone' = undone \cup
            {[by |-> s, what |-> undo[s].reversed, at |-> Len(log)]}
    /\ Publish(s)
    /\ UNCHANGED <<captured, status, deps>>

-----------------------------------------------------------------------------
AppNext ==
    \/ \E t \in Txns, k \in Keys :
         \E image \in {t, NoRow} : Write(t, k, image)
    \/ \E t \in Txns : Commit(t) \/ Rollback(t)

UndoNext ==
    \/ \E s \in Sessions, mode \in Modes :
         \E members \in SUBSET Recorded :
            /\ members # {} /\ Cardinality(members) <= MaxCohort
            /\ \E cohort \in BOOLEAN : BeginUndo(s, members, mode, cohort)
    \/ \E s \in Sessions :
         Preview(s) \/ Compensate(s) \/ AbortUndo(s) \/ CommitUndo(s)

Next ==
    \/ AppNext
    \/ Capture
    \/ \E r, w \in Txns : RecordRead(r, w)
    \/ UndoNext

Spec == Init /\ [][Next]_vars
-----------------------------------------------------------------------------
(* Properties *)

(* The variables hold values of their types, and history never runs ahead   *)
(* of what is committed. *)
TypeOK ==
    /\ rows \in [Keys -> Images]
    /\ log \in Seq(Entries)
    /\ captured \in 0..Len(log)
    /\ status \in [Txns -> {"idle", "open", "committed", "aborted"}]
    /\ work \in [Writers -> [Keys -> Images \cup {Free}]]
    /\ pend \in [Writers -> Seq(Entries)]
    /\ deps \subseteq Txns \X Txns
    /\ undo \in [Sessions -> UndoCalls]
    /\ undone \subseteq [by: Sessions, what: SUBSET [txid: Txns, seen: Nat], at: Nat]

Reversed == {d.txid : d \in UNION {u.what : u \in undone}}

(* Key k was written between the moment an undo call classified a            *)
(* transaction it reversed and the commit of the call, by a transaction the  *)
(* call did not see.                                                         *)
Raced(k) ==
    \E u \in undone : \E d \in u.what : \E i \in d.seen + 1..u.at :
        /\ log[i].key = k
        /\ ~IsUndo(i)
        /\ \E m \in 1..d.seen : log[m].by = d.txid /\ log[m].key = k

(* Application changes of key k that no committed undo call reversed. *)
Live(k) == {i \in 1..Len(log) : log[i].key = k /\ ~IsUndo(i) /\ log[i].by \notin Reversed}

(* As long as every call that committed was clean_only, an undone            *)
(* transaction is as if it had never run: every row is what the last change  *)
(* of a transaction not undone made it, or the initial row if there is none. *)
(* Only a key that was written behind the back of a classification (Raced)   *)
(* is exempt.                                                                *)
CleanUndoExact ==
    (\A u \in undone : undo[u.by].mode = "clean_only") =>
        \A k \in Keys : ~Raced(k) =>
            /\ Live(k) = {} => rows[k] = Initial[k]
            /\ \A i \in Live(k) :
                  (\A j \in Live(k) : j <= i) => rows[k] = log[i].after

(* Whatever its mode, a call that commits has put every row of the last      *)
(* transaction it reversed back to the image before that transaction's first *)
(* change of it; a compensation that matched nothing never passes for an     *)
(* applied undo.                                                             *)
UndoRestoresBeforeImage ==
    [][\A s \in Sessions :
         undo[s].state = "active" /\ undo'[s].state = "committed" =>
           \A i \in RowsOf(undo[s].target) :
             (\A j \in RowsOf(undo[s].target) : log[j].key = log[i].key => i <= j)
                => rows'[log[i].key] = log[i].before]_vars

-----------------------------------------------------------------------------
(* What comments of the source say and the code does not do. *)

(* "also reverse the dependent transactions (newest first)": when everything *)
(* written to a key since the first change by a reversed transaction is      *)
(* reversed with it, the key is left as it was before that change.           *)
CascadeNewestFirst ==
    [][\A s \in Sessions :
         undo[s].state = "active" /\ undo'[s].state = "committed" =>
           LET all == {d.txid : d \in undo[s].reversed} IN
           \A i \in 1..Len(log) :
             /\ log[i].by \in all
             /\ \A j \in 1..Len(log) : log[j].key = log[i].key =>
                    (IF j < i THEN log[j].by \notin all ELSE log[j].by \in all)
             => rows'[log[i].key] = log[i].before]_vars
=============================================================================
