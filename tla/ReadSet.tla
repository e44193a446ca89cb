-------------------------------- MODULE ReadSet --------------------------------
(***************************************************************************)
(* The way of a read from the transaction that made it to an rw edge of    *)
(* eter.dependencies: the backend appends a line to the SSI-WAL file when  *)
(* it commits; a session of the tenant (the eter_ssi worker, a caller of   *)
(* refresh_dependencies, the forwarder of a capture process) drains the    *)
(* file; the edges are derived by matching the reads with eter.history, in *)
(* the tenant or, in two-database mode, in the store before a preview.     *)
(*                                                                         *)
(* A deployment is "trigger" (one database, history written by the capture *)
(* trigger), "single" (one database, history written by the sidecar),      *)
(* "two" (a store of its own, forwarder) or "image" ("two" on the engine   *)
(* image, whose server also runs the worker).                              *)
(*                                                                         *)
(* There is one tracked table.  Transactions are numbered in the order of  *)
(* their first writes, which draw their ids; each writes one row and       *)
(* reads one row, the whole table, or nothing that is tracked.  Ids do not *)
(* wrap around, and equal commit times, which only add edges, are left out.*)
(***************************************************************************)
EXTENDS Naturals, Sequences, FiniteSets

CONSTANTS
    Keys,         \* the rows of the table, by primary key
    Written,      \* those that transactions write
    LongKeys,     \* those whose text, in hex, is longer than a drain takes
    Table,        \* a read of the table as a whole: relation lock, or no key
    Cut,          \* what a drain takes of a long key, the key of no row
    Worker,       \* the background worker of eter_ssi
    Callers,      \* sessions that call eter.refresh_dependencies themselves
    Forwarders,   \* capture processes
    Previewers,   \* two-database clients that preview an undo
    Deployments,  \* the deployments to consider
    Cutoffs,      \* the cutoffs age_read_edges is called with
    MaxTxns,      \* bound: transactions
    MaxFaults     \* bound: lines not written, failed drains and shipments

Drainers == {Worker} \cup Callers \cup Forwarders

ASSUME ReadSetAssumption ==
    /\ Written \subseteq Keys /\ LongKeys \subseteq Keys
    /\ Table \notin Keys /\ Cut \notin Keys \cup {Table}
    /\ Worker \notin Callers \cup Forwarders /\ Callers \cap Forwarders = {}
    /\ Previewers \cap Drainers = {}
    /\ Deployments \subseteq {"trigger", "single", "two", "image"}
    /\ Cutoffs \subseteq Nat /\ MaxTxns \in Nat /\ MaxFaults \in Nat

VARIABLES
    deploy,     \* the deployment
    phase,      \* of a transaction
    wrote,      \* the row a transaction wrote
    read,       \* what a transaction read, and after how many commits
    commits,    \* the committed transactions, in the order of their commits
    captured,   \* how many of them the sidecar has copied to eter.history
    file,       \* the lines of the SSI-WAL file
    stage,      \* where a draining session is
    got,        \* the lines it has read
    found,      \* the edges it has derived
    readSet,    \* eter.read_set of the store
    preview,    \* where a previewing session is
    looked,     \* the lines it derived from
    deps,       \* rw edges in eter.dependencies where preview_undo reads them
    (* bookkeeping of the model *)
    lost,       \* readers whose line was lost, with the cause
    behind,     \* <<reader, writer>> derived for before both were in history
    age,        \* the latest cutoff of age_read_edges so far
    faults      \* faults so far

txns == <<phase, wrote, read, commits>>
drains == <<stage, got, found>>
previews == <<preview, looked>>
vars == <<deploy, txns, captured, file, drains, readSet, previews, deps, lost,
          behind, age, faults>>

Txns == 1..MaxTxns
Lines == [reader : Txns, key : Keys \cup {Table, Cut}]
Causes == {"unwritten", "late", "rollback", "ship", "swept"}
Nothing == [key |-> Table, upto |-> 0]
TwoDb == deploy \in {"two", "image"}

Init ==
    /\ deploy \in Deployments
    /\ phase = [t \in Txns |-> "none"]
    /\ wrote = [t \in Txns |-> Table]
    /\ read = [t \in Txns |-> Nothing]
    /\ commits = <<>> /\ captured = 0
    /\ file = {}
    /\ stage = [d \in Drainers |-> "idle"]
    /\ got = [d \in Drainers |-> {}]
    /\ found = [d \in Drainers \cup Previewers |-> {}]
    /\ readSet = {}
    /\ preview = [p \in Previewers |-> "idle"]
    /\ looked = [p \in Previewers |-> {}]
    /\ deps = {}
    /\ lost = {} /\ behind = {} /\ age = 0 /\ faults = 0

-----------------------------------------------------------------------------
(* Application transactions. *)

Committed == {commits[i] : i \in 1..Len(commits)}

(* The first write draws the transaction id. *)
Write(t, k) ==
    /\ phase[t] = "none" /\ \A u \in 1..(t - 1) : phase[u] # "none"
    /\ phase' = [phase EXCEPT ![t] = "open"]
    /\ wrote' = [wrote EXCEPT ![t] = k]
    /\ UNCHANGED <<deploy, read, commits, captured, file, drains, readSet, previews,
                   deps, lost, behind, age, faults>>

(* The transaction has read k and writes its line before it commits.  What   *)
(* committed between its read and here is taken for read as well.            *)
PreCommit(t, k) ==
    /\ phase[t] = "open"
    /\ phase' = [phase EXCEPT ![t] = "flushed"]
    /\ file' = file \cup {[reader |-> t, key |-> k]}
    /\ read' = [read EXCEPT ![t] = [key |-> k, upto |-> Len(commits)]]
    /\ UNCHANGED <<deploy, wrote, commits, captured, drains, readSet, previews, deps,
                   lost, behind, age, faults>>

(* The file does not open: the backend warns and commits without its line. *)
PreCommitUnwritten(t, k) ==
    /\ phase[t] = "open"
    /\ faults < MaxFaults /\ faults' = faults + 1
    /\ phase' = [phase EXCEPT ![t] = "flushed"]
    /\ read' = [read EXCEPT ![t] = [key |-> k, upto |-> Len(commits)]]
    /\ lost' = lost \cup {<<t, "unwritten">>}
    /\ UNCHANGED <<deploy, wrote, commits, captured, file, drains, readSet, previews,
                   deps, behind, age>>

(* A transaction that read nothing writes no line. *)
Commit(t) ==
    /\ phase[t] \in {"open", "flushed"}
    /\ phase' = [phase EXCEPT ![t] = "committed"]
    /\ commits' = Append(commits, t)
    /\ UNCHANGED <<deploy, wrote, read, captured, file, drains, readSet, previews, deps,
                   lost, behind, age, faults>>

(* It may still fail after its line is written: a serialization failure. *)
Rollback(t) ==
    /\ phase[t] = "flushed"
    /\ phase' = [phase EXCEPT ![t] = "aborted"]
    /\ UNCHANGED <<deploy, wrote, read, commits, captured, file, drains, readSet,
                   previews, deps, lost, behind, age, faults>>

(* Mutant: rows of a transaction reach history before it commits. *)
Capture_Ahead ==
    /\ deploy # "trigger"
    /\ captured' = captured + 1
    /\ UNCHANGED <<deploy, txns, file, drains, readSet, previews, deps, lost, behind,
                   age, faults>>

(* The capture sidecar copies the next commit to eter.history. *)
Capture ==
    /\ deploy # "trigger" /\ captured < Len(commits)
    /\ captured' = captured + 1
    /\ UNCHANGED <<deploy, txns, file, drains, readSet, previews, deps, lost, behind,
                   age, faults>>

(* The writers whose rows a transaction read. *)
Seen(r) ==
    {commits[i] : i \in {j \in 1..read[r].upto : read[r].key \in {wrote[commits[j]], Table}}}

-----------------------------------------------------------------------------
(* Derivation, the same in the tenant and in the store. *)

(* The transactions in eter.history, where preview_undo reads it. *)
History == {commits[i] : i \in 1..(IF deploy = "trigger" THEN Len(commits) ELSE captured)}

(* The tenant of a two-database deployment keeps no history. *)
TenantHistory == IF TwoDb THEN {} ELSE History

(* committed_at of a history row: the trigger stamps a row when it is        *)
(* written, the sidecar with the time of the commit.                         *)
CommittedAt(t) ==
    IF deploy = "trigger" THEN t ELSE CHOOSE i \in 1..Len(commits) : commits[i] = t

(* Mutant: the match without the time-order guard. *)
Edges_AnyTime(lines, history) ==
    {e \in history \X history :
        /\ e[1] # e[2]
        /\ \E l \in lines : l.reader = e[1] /\ l.key \in {wrote[e[2]], Table}}

(* The reads of lines matched with the writes of history, by primary key or  *)
(* by table, the writer first.                                               *)
Edges(lines, history) ==
    {e \in history \X history :
        /\ e[1] # e[2] /\ CommittedAt(e[1]) >= CommittedAt(e[2])
        /\ \E l \in lines : l.reader = e[1] /\ l.key \in {wrote[e[2]], Table}}

(* The pairs an early derivation cannot find. *)
TooEarly(lines, history) ==
    {e \in Txns \X Txns :
        /\ \E l \in lines : l.reader = e[1]
        /\ e[2] \in Seen(e[1]) /\ ~({e[1], e[2]} \subseteq history)}

Lost(lines, cause) == {<<l.reader, cause>> : l \in lines}

-----------------------------------------------------------------------------
(* Draining: eter.drain_ssi_wal, and after it refresh_dependencies or        *)
(* forwardOnce, in one transaction of the tenant.                            *)

Runs(d) == IF d \in Forwarders THEN TwoDb ELSE deploy # "two"

(* The session holds a lock on eter.ssi_reads, where it staged its lines. *)
Holds(d) == stage[d] = "taken" \/ (stage[d] = "read" /\ got[d] # {})

Move(d, to) == stage' = [stage EXCEPT ![d] = to]

Drained(d, to) ==
    /\ Move(d, to)
    /\ got' = [got EXCEPT ![d] = IF to = "ship" THEN @ ELSE {}]
    /\ found' = [found EXCEPT ![d] = {}]

(* A line as the drain's buffer takes it: the rest of a long key is cut off. *)
Parsed(l) == IF l.key \in LongKeys THEN [l EXCEPT !.key = Cut] ELSE l

DrainRead(d) ==
    /\ Runs(d) /\ stage[d] = "idle"
    /\ Move(d, "read")
    /\ got' = [got EXCEPT ![d] = {Parsed(l) : l \in file}]
    /\ UNCHANGED <<deploy, txns, captured, file, found, readSet, previews, deps, lost,
                   behind, age, faults>>

(* It empties the file, with the lines that came after it read; then         *)
(* derive_dependencies matches what it staged, or the forwarder selects it.  *)
(* Nothing another process does tells these two steps from one.              *)
DrainTake(d) ==
    /\ stage[d] = "read"
    /\ Move(d, "taken")
    /\ file' = {}
    /\ lost' = lost \cup Lost({l \in file : Parsed(l) \notin got[d]}, "late")
    /\ IF d \in Forwarders
       THEN UNCHANGED <<found, behind>>
       ELSE /\ found' = [found EXCEPT ![d] = Edges(got[d], TenantHistory)]
            /\ behind' = behind \cup TooEarly(got[d], TenantHistory)
    /\ UNCHANGED <<deploy, txns, captured, got, readSet, previews, deps, age, faults>>

(* Mutant: the forwarder selects its rows after the TRUNCATE. *)
CommitDrain_NoShip(d) ==
    /\ stage[d] = "taken" /\ \A e \in Drainers \ {d} : ~Holds(e)
    /\ Drained(d, "idle")
    /\ deps' = deps \cup found[d]
    /\ UNCHANGED <<deploy, txns, captured, file, readSet, previews, lost, behind, age, faults>>

(* TRUNCATE eter.ssi_reads, which waits for the other sessions, and commit. *)
CommitDrain(d) ==
    /\ stage[d] = "taken" /\ \A e \in Drainers \ {d} : ~Holds(e)
    /\ Drained(d, IF d \in Forwarders /\ got[d] # {} THEN "ship" ELSE "idle")
    /\ deps' = deps \cup found[d]
    /\ UNCHANGED <<deploy, txns, captured, file, readSet, previews, lost, behind, age, faults>>

(* The transaction is rolled back, the file stays empty. *)
RollbackDrain(d) ==
    /\ Drained(d, "idle")
    /\ lost' = IF stage[d] = "read" THEN lost ELSE lost \cup Lost(got[d], "rollback")
    /\ UNCHANGED <<deploy, txns, captured, file, readSet, previews, deps, behind, age>>

(* An error or a crash. *)
FailDrain(d) ==
    /\ stage[d] \in {"read", "taken"}
    /\ faults < MaxFaults /\ faults' = faults + 1
    /\ RollbackDrain(d)

(* Two sessions wait for each other's lock; the server ends one. *)
Deadlock(d) ==
    /\ stage[d] = "taken" /\ \E e \in Drainers \ {d} : stage[e] = "taken"
    /\ RollbackDrain(d)
    /\ UNCHANGED faults

Ship(d) ==
    /\ stage[d] = "ship"
    /\ Drained(d, "idle")
    /\ readSet' = readSet \cup got[d]
    /\ UNCHANGED <<deploy, txns, captured, file, previews, deps, lost, behind, age, faults>>

FailShip(d) ==
    /\ stage[d] = "ship"
    /\ faults < MaxFaults /\ faults' = faults + 1
    /\ Drained(d, "idle")
    /\ lost' = lost \cup Lost(got[d], "ship")
    /\ UNCHANGED <<deploy, txns, captured, file, readSet, previews, deps, behind, age>>

-----------------------------------------------------------------------------
(* derive_from_read_set of the store, before each preview of a two-database  *)
(* client: one transaction of two statements.                                *)

PreviewDerive(p) ==
    /\ TwoDb /\ preview[p] = "idle"
    /\ preview' = [preview EXCEPT ![p] = "derived"]
    /\ looked' = [looked EXCEPT ![p] = readSet]
    /\ found' = [found EXCEPT ![p] = Edges(readSet, History)]
    /\ behind' = behind \cup TooEarly(readSet, History)
    /\ UNCHANGED <<deploy, txns, captured, file, stage, got, readSet, deps, lost, age, faults>>

PreviewEnd(p) ==
    /\ preview[p] = "derived"
    /\ preview' = [preview EXCEPT ![p] = "idle"]
    /\ looked' = [looked EXCEPT ![p] = {}]
    /\ found' = [found EXCEPT ![p] = {}]
    /\ UNCHANGED <<deploy, txns, captured, file, stage, got, behind, age, faults>>

(* TRUNCATE eter.read_set, which waits for the other previews, removes what  *)
(* was shipped in the meantime as well.                                      *)
PreviewClear(p) ==
    /\ \A q \in Previewers \ {p} : preview[q] = "idle"
    /\ PreviewEnd(p)
    /\ deps' = deps \cup found[p]
    /\ readSet' = {}
    /\ lost' = lost \cup Lost(readSet \ looked[p], "swept")

(* An error, or two previews that wait for each other. *)
PreviewFail(p) ==
    /\ PreviewEnd(p)
    /\ UNCHANGED <<deps, readSet, lost>>

(* age_read_edges: edges and staged reads of readers that committed before   *)
(* the cutoff.  A reader that is not in history yet keeps its reads.         *)
Age(cutoff) ==
    LET old == {r \in History : CommittedAt(r) < cutoff}
    IN  /\ deps' = {e \in deps : e[1] \notin old}
        /\ readSet' = {l \in readSet : l.reader \notin old}
        /\ age' = IF cutoff > age THEN cutoff ELSE age
        /\ UNCHANGED <<deploy, txns, captured, file, drains, previews, lost, behind,
                       faults>>

-----------------------------------------------------------------------------
Application ==
    \E t \in Txns :
        \/ \E k \in Written : Write(t, k)
        \/ \E k \in Keys \cup {Table} : PreCommit(t, k) \/ PreCommitUnwritten(t, k)
        \/ Commit(t)
        \/ Rollback(t)

Next ==
    \/ Application
    \/ Capture
    \/ \E d \in Drainers :
        \/ DrainRead(d) \/ DrainTake(d) \/ CommitDrain(d) \/ FailDrain(d) \/ Deadlock(d)
        \/ Ship(d) \/ FailShip(d)
    \/ \E p \in Previewers : PreviewDerive(p) \/ PreviewClear(p) \/ PreviewFail(p)
    \/ \E cutoff \in Cutoffs : Age(cutoff)

Spec == Init /\ [][Next]_vars

-----------------------------------------------------------------------------
TypeOK ==
    /\ deploy \in Deployments
    /\ phase \in [Txns -> {"none", "open", "flushed", "committed", "aborted"}]
    /\ wrote \in [Txns -> Written \cup {Table}]
    /\ read \in [Txns -> [key : Keys \cup {Table}, upto : Nat]]
    /\ commits \in Seq(Txns) /\ captured \in 0..Len(commits)
    /\ file \subseteq Lines
    /\ stage \in [Drainers -> {"idle", "read", "taken", "ship"}]
    /\ got \in [Drainers -> SUBSET Lines]
    /\ found \in [Drainers \cup Previewers -> SUBSET (Txns \X Txns)]
    /\ readSet \subseteq Lines
    /\ preview \in [Previewers -> {"idle", "derived"}]
    /\ looked \in [Previewers -> SUBSET Lines]
    /\ deps \subseteq Txns \X Txns
    /\ lost \subseteq Txns \X Causes
    /\ behind \subseteq Txns \X Txns
    /\ age \in {0} \cup Cutoffs
    /\ faults \in 0..MaxFaults

(* The line of r is in the tenant, or in the store and not derived from yet. *)
OnItsWay(r) ==
    \E l \in file \cup readSet \cup UNION {got[d] : d \in Drainers} : l.reader = r

(* The key that r read does not come whole through a drain. *)
TooLong(r) == read[r].key \in LongKeys

(* The line of r was lost on its way, or r is older than what was aged out. *)
LostOrAged(r) == CommittedAt(r) < age \/ \E cause \in Causes : <<r, cause>> \in lost

(* A committed transaction that read what w wrote depends on w once its line *)
(* is off its way, unless the read fell to one of the named losses: the line *)
(* was not written, came after a drain had read the file and went when it    *)
(* was emptied, was rolled back with a drain, lost in shipping or swept      *)
(* unread; its key was longer than the drain takes; it was matched before    *)
(* both transactions were in history; the reader was aged out; or the        *)
(* capture trigger dated it before the writer.  Nothing else that is         *)
(* modelled loses a dependent, however drains, previews, aging and commits   *)
(* interleave (eter_ssi_capture, drain_ssi_wal, refresh_dependencies,        *)
(* forwardOnce, derive_from_read_set, age_read_edges).                       *)
ReadersReported ==
    \A r \in Committed : \A w \in Seen(r) :
        \/ <<r, w>> \in deps \/ OnItsWay(r) \/ LostOrAged(r)
        \/ <<r, w>> \in behind \/ TooLong(r)
        \/ deploy = "trigger" /\ r < w

(* A derived edge is of a read that can have happened: both transactions     *)
(* committed, the writer is dated before the reader, and what the reader     *)
(* read holds the writer's row (the match and the time-order guard of        *)
(* derive_dependencies and derive_from_read_set).  Lines of rolled-back      *)
(* readers make none.                                                        *)
EdgesAreReal ==
    \A e \in deps :
        /\ e[1] # e[2] /\ {e[1], e[2]} \subseteq Committed
        /\ CommittedAt(e[2]) < CommittedAt(e[1])
        /\ read[e[1]].key \in {wrote[e[2]], Table}

(* forward.go: in two-database mode reads are captured in the tenant but     *)
(* derived in the store.  So where no preview has come early, a read that    *)
(* was not lost is an edge of the store, or on its way to one, once history  *)
(* has its two transactions.                                                 *)
DerivedInStore ==
    TwoDb => \A r \in History : \A w \in Seen(r) \cap History :
        <<r, w>> \in deps \/ OnItsWay(r) \/ LostOrAged(r) \/ TooLong(r)
=============================================================================
