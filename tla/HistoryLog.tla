------------------------------ MODULE HistoryLog ------------------------------
(***************************************************************************)
(* What capture promises to the undo engine: eter.history is a copy of the *)
(* committed row changes of the tracked tables, one whole commit at a      *)
(* time, in commit order and in the order of the changes within a commit,  *)
(* each change once.                                                       *)
(***************************************************************************)
EXTENDS Naturals, Sequences

VARIABLES
    commits,   \* the number of captured row changes of every commit, in commit order
    upto,      \* the last commit copied
    history    \* the copied changes: pairs <<commit, change>>

vars == <<commits, upto, history>>

Init == commits = <<>> /\ upto = 0 /\ history = <<>>

Commit ==
    /\ commits' \in Seq(Nat)
    /\ Len(commits') = Len(commits) + 1
    /\ SubSeq(commits', 1, Len(commits)) = commits
    /\ UNCHANGED <<upto, history>>

(* Copy the next commit that changed a captured row. *)
Copy ==
    \E c \in upto + 1..Len(commits) :
        /\ commits[c] # 0
        /\ \A b \in upto + 1..c - 1 : commits[b] = 0
        /\ upto' = c
        /\ history' = history \o [n \in 1..commits[c] |-> <<c, n>>]
        /\ UNCHANGED commits

Next == Commit \/ Copy

Spec == Init /\ [][Next]_vars
=============================================================================
