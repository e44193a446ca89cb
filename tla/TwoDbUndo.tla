------------------------------ MODULE TwoDbUndo ------------------------------
(***************************************************************************)
(* Undo over two databases (sidecars/eterclient/direct.go): the history is *)
(* in a store of its own, so a call reads the plan and the rows there,     *)
(* applies them in the tenant with eter.undo_rows, and then records the    *)
(* compensating transaction in the store, for the capture sidecar to mark  *)
(* it as undo.  These are separate statements: other calls, transactions   *)
(* of the application and the sidecar run in between, and a call may end   *)
(* between any two of them.                                                *)
(*                                                                         *)
(* Transactions are numbered in the order of their commits, which here is  *)
(* the order of their ids too (module UndoEngine tells the two apart).     *)
(* eter.undo_rows blocks writers of the rows it has compensated until it   *)
(* commits and reads no other row, so it is one step.  A row's image is    *)
(* the number of the transaction of the application that produced it.      *)
(***************************************************************************)
EXTENDS Integers, Sequences, FiniteSets

CONSTANTS
    Keys,       \* primary keys of the tracked table
    NoRow,      \* the image of an absent row
    Callers,    \* clients of the engine: processes of the CLI, requests of the server
    Cases       \* installations (see Case)

\* Who calls and in which modes, and whether reads are tracked.  Bounds:
\* transactions of the application, rows each writes, calls, members of a
\* cohort, and faults.
Case == [callers : SUBSET Callers, modes : SUBSET {"clean_only", "cascade", "targeted"},
         reads : BOOLEAN, apps : Nat, writes : Nat, calls : Nat,
         cohort : Nat, faults : Nat]

ASSUME TwoDbAssumption == Cases \subseteq Case /\ NoRow \notin Nat

VARIABLES
    case,       \* the installation; fixed
    rows,       \* the table in the tenant
    log,        \* the transactions committed in the tenant
    captured,   \* how many of them eter.history of the store has
    stamped,    \* those it has with is_undo
    markers,    \* eter.undo_txn of the store
    call,       \* the call of each client
    used,       \* calls and faults so far
    applied     \* the compensations that committed (no code reads it)

uvars == <<case, rows, log, captured, stamped, markers, call, used, applied>>

Images == Nat \cup {NoRow}
Written(e) == /\ e.of \in Nat /\ e.read \subseteq Keys
              /\ DOMAIN e.after \subseteq Keys /\ DOMAIN e.before = DOMAIN e.after
              /\ \A k \in DOMAIN e.after : e.before[k] \in Images /\ e.after[k] \in Images

\* A call: the transactions it has still to reverse, the one at hand with the
\* conflicts and the history of its plan, the compensation to record, and what
\* the client was told.
NoCall == [step |-> "idle", mode |-> "clean_only", cohort |-> FALSE, todo |-> {},
           target |-> 0, plan |-> {}, seen |-> 0, wrote |-> 0, answer |-> "none"]

UInit ==
    /\ case \in Cases
    /\ rows \in [Keys -> {0}]
    /\ log = << >> /\ captured = 0
    /\ stamped = {} /\ markers = {}
    /\ call = [c \in Callers |-> NoCall]
    /\ used = [calls |-> 0, faults |-> 0]
    /\ applied = {}

-----------------------------------------------------------------------------
(* The tenant and the sidecar.                                             *)

KeysOf(i) == DOMAIN log[i].after
Apps == {i \in 1..Len(log) : log[i].of = 0}

Commit(of, read, after) ==
    /\ log' = Append(log, [of |-> of, read |-> read, after |-> after,
                           before |-> [k \in DOMAIN after |-> rows[k]]])
    /\ rows' = [k \in Keys |-> IF k \in DOMAIN after THEN after[k] ELSE rows[k]]

\* A transaction of the application that writes the rows S, having read R.
AppCommit(S, R) ==
    /\ Cardinality(Apps) < case.apps
    /\ \E after \in [S -> {Len(log) + 1, NoRow}] :
         /\ \A k \in S : rows[k] = NoRow => after[k] # NoRow
         /\ Commit(0, R, after)
    /\ UNCHANGED <<case, captured, stamped, markers, call, used, applied>>

\* The sidecar copies the next commit, as undo when its id is in undo_txn by now.
CaptureCommit ==
    /\ captured < Len(log)
    /\ captured' = captured + 1
    /\ stamped' = stamped \cup ({captured + 1} \cap markers)
    /\ UNCHANGED <<case, rows, log, markers, call, used, applied>>

-----------------------------------------------------------------------------
(* What the store tells.                                                   *)

Tracked == 1..captured \ stamped

\* Faulty variant: only reads make a dependent.
Conflicts_NoWrites(m) ==
    {j \in Tracked : j > m /\ log[j].read \cap KeysOf(m) # {}}

\* preview_undo, with the edges that derive_from_read_set has just added: later
\* transactions that wrote or read what m wrote.
Conflicts(m) ==
    {j \in Tracked : j > m /\ (KeysOf(j) \cup log[j].read) \cap KeysOf(m) # {}}

-----------------------------------------------------------------------------
(* A call.                                                                 *)

Goto(c, r) == call' = [call EXCEPT ![c] = r]
End(c, answer) == Goto(c, [NoCall EXCEPT !.answer = answer])
Entrance(mode, cohort) == IF cohort /\ mode = "clean_only" THEN "check" ELSE "plan"

Begin(c, mode, todo, cohort) ==
    /\ call[c].step = "idle" /\ used.calls < case.calls
    /\ used' = [used EXCEPT !.calls = @ + 1]
    /\ Goto(c, [NoCall EXCEPT !.step = Entrance(mode, cohort), !.mode = mode,
                              !.todo = todo, !.cohort = cohort])
    /\ UNCHANGED <<case, rows, log, captured, stamped, markers, applied>>

\* undo of one transaction id
Undo(c, mode, m) == Begin(c, mode, {m}, FALSE)

\* undo_cohort: what select_cohort finds in the store
UndoCohort(c, mode, todo) ==
    /\ todo # {} /\ Cardinality(todo) <= case.cohort
    /\ Begin(c, mode, todo, TRUE)

Newest(S) == CHOOSE m \in S : \A j \in S : j <= m

\* The loop goes on with the next member, or ends with an answer.
Proceed(c, r) ==
    Goto(c, IF r.todo = {} THEN [NoCall EXCEPT !.answer = "applied"]
            ELSE [NoCall EXCEPT !.step = Entrance(r.mode, r.cohort), !.mode = r.mode,
                                !.cohort = r.cohort, !.todo = r.todo])

\* The cohort's own preview of a member: a dependent one is skipped.
Check(c) ==
    /\ call[c].step = "check"
    /\ LET m == Newest(call[c].todo)
       IN  IF Conflicts(m) = {} THEN Goto(c, [call[c] EXCEPT !.step = "plan"])
           ELSE Proceed(c, [call[c] EXCEPT !.todo = @ \ {m}])
    /\ UNCHANGED <<case, rows, log, captured, stamped, markers, used, applied>>

\* Undo reads the plan and the rows.  What is captured does not change any
\* more, so reading the rows is no step of its own.
Plan(c) ==
    /\ call[c].step = "plan"
    /\ LET m == Newest(call[c].todo)
       IN  IF m \notin Tracked THEN End(c, "not found")
           ELSE Goto(c, [call[c] EXCEPT !.step = "apply", !.target = m,
                                        !.plan = Conflicts(m), !.seen = captured])
    /\ UNCHANGED <<case, rows, log, captured, stamped, markers, used, applied>>

-----------------------------------------------------------------------------
(* eter.undo_rows.                                                         *)

\* Whom it reverses: the target, and in a cascade its dependents before that,
\* from the newest id down.
Reversed(r) == {r.target} \cup (IF r.mode = "cascade" THEN r.plan ELSE {})

On(S, k) == {i \in S : k \in KeysOf(i)}

\* The image that the compensation of i finds in row k.
Found(S, i, k) ==
    LET newer == {j \in On(S, k) : j > i}
    IN  IF newer = {} THEN rows[k]
        ELSE log[CHOOSE j \in newer : \A l \in newer : j <= l].before[k]

\* Every compensating write finds its row there, or not there, as it was left.
AllMatch(S) ==
    \A i \in S : \A k \in KeysOf(i) : Found(S, i, k) = NoRow <=> log[i].after[k] = NoRow

Oldest(S) == CHOOSE m \in S : \A j \in S : m <= j
Restored(S) ==
    [k \in UNION {KeysOf(i) : i \in S} |-> log[Oldest(On(S, k))].before[k]]

Refuses(r) == r.mode = "clean_only" /\ r.plan # {}

Done(c, S) ==
    /\ Goto(c, [call[c] EXCEPT !.step = "mark", !.wrote = Len(log) + 1])
    /\ applied' = applied \cup {[id |-> Len(log) + 1, what |-> S, mode |-> call[c].mode,
                                 seen |-> call[c].seen]}
    /\ UNCHANGED <<case, captured, stamped, markers, used>>

Apply(c) ==
    /\ call[c].step = "apply" /\ ~Refuses(call[c])
    /\ LET S == Reversed(call[c])
       IN  /\ AllMatch(S)
           /\ Commit(call[c].target, {}, Restored(S))
           /\ Done(c, S)

\* It raises: dependents in clean_only mode, or a compensation that matches no
\* row.  The error ends the call, a cohort as well.
Raise(c) ==
    /\ call[c].step = "apply"
    /\ \/ Refuses(call[c]) /\ End(c, "dependent")
       \/ ~Refuses(call[c]) /\ ~AllMatch(Reversed(call[c])) /\ End(c, "failed")
    /\ UNCHANGED <<case, rows, log, captured, stamped, markers, used, applied>>

-----------------------------------------------------------------------------

\* Faulty variant: the marker names the transaction that was undone.
Mark_Target(c) ==
    /\ call[c].step = "mark"
    /\ markers' = markers \cup {call[c].target}
    /\ Proceed(c, [call[c] EXCEPT !.todo = @ \ {call[c].target}])
    /\ UNCHANGED <<case, rows, log, captured, stamped, used, applied>>

\* The marker goes to the store.
Mark(c) ==
    /\ call[c].step = "mark"
    /\ markers' = markers \cup {call[c].wrote}
    /\ Proceed(c, [call[c] EXCEPT !.todo = @ \ {call[c].target}])
    /\ UNCHANGED <<case, rows, log, captured, stamped, used, applied>>

Fault == used.faults < case.faults /\ used' = [used EXCEPT !.faults = @ + 1]

\* "best-effort": the insert fails and the call goes on.
LoseMark(c) ==
    /\ call[c].step = "mark" /\ Fault
    /\ Proceed(c, [call[c] EXCEPT !.todo = @ \ {call[c].target}])
    /\ UNCHANGED <<case, rows, log, captured, stamped, markers, applied>>

\* The client goes away, which cancels the call's context; the process dies; a
\* statement fails; or only the answer is lost.
CutShort(c) ==
    /\ call[c].step # "idle" /\ Fault
    /\ End(c, "failed")
    /\ UNCHANGED <<case, rows, log, captured, stamped, markers, applied>>

-----------------------------------------------------------------------------

CallStep(c) == Check(c) \/ Plan(c) \/ Apply(c) \/ Raise(c) \/ Mark(c) \/ LoseMark(c) \/ CutShort(c)

\* What comes from outside, and what follows from it.
Asked ==
    \/ \E S \in SUBSET Keys \ {{}} : \E R \in {{}} \cup {{k} : k \in Keys} :
         /\ Cardinality(S) <= case.writes /\ (R # {} => case.reads)
         /\ AppCommit(S, R)
    \/ \E c \in case.callers, mode \in case.modes :
         \/ \E m \in 1..Len(log) : Undo(c, mode, m)
         \/ \E todo \in SUBSET Tracked : UndoCohort(c, mode, todo)

Served == CaptureCommit \/ \E c \in case.callers : CallStep(c)

UNext == Asked \/ Served

USpec == UInit /\ [][UNext]_uvars

-----------------------------------------------------------------------------
\* Types.  History runs behind the tenant; markers name compensating commits.
UTypeOK ==
    /\ case \in Cases
    /\ rows \in [Keys -> Images]
    /\ \A i \in 1..Len(log) : Written(log[i])
    /\ captured \in 0..Len(log)
    /\ markers \subseteq 1..Len(log) \ Apps
    /\ stamped \subseteq markers \cap 1..captured
    /\ \A c \in Callers : call[c].todo \subseteq 1..Len(log) /\ call[c].wrote \in 0..Len(log)

Undone == UNION {a.what : a \in applied}

\* A transaction of the application wrote k after a call had planned to reverse
\* a transaction on k and before it did.
Raced(k) ==
    \E a \in applied : \E d \in a.what, i \in a.seen + 1..a.id - 1 :
        i \in Apps /\ k \in KeysOf(i) \cap KeysOf(d)

\* While calls are clean_only and none was pointed at a compensation, what has
\* been undone stays undone: each row is as the last transaction that was not
\* undone left it, through concurrent and repeated calls, cut-short calls and
\* lost markers.
UndoneStaysUndone ==
    (\A a \in applied : a.mode = "clean_only" /\ a.what \subseteq Apps) =>
        \A k \in Keys : ~Raced(k) =>
            LET live == On(Apps \ Undone, k)
            IN  rows[k] = IF live = {} THEN 0 ELSE log[Newest(live)].after[k]
=============================================================================
