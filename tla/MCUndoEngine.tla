----------------------------- MODULE MCUndoEngine -----------------------------
(* Small instances of UndoEngine for TLC. *)
EXTENDS UndoEngine, TLC

CONSTANTS
    k1, k2,
    Plans   \* the instances: "two calls", "any mode", or "all" that the constants allow

VARIABLE plan   \* the one that a behaviour belongs to

\* k1 holds a row at the start, k2 does not.
MCInitial == [k \in Keys |-> IF k = k1 THEN 0 ELSE NoRow]

\* Both hold a row.
MCAllPresent == [k \in Keys |-> 0]

SessionSymmetry == Permutations(Sessions)

Called == {s \in Sessions : undo[s].state # "idle"}

\* Two clean_only calls, of cohorts as well, over two transactions and an edge.
TwoCalls ==
    /\ status[3] = "idle"
    /\ \A s \in Called : undo[s].mode = "clean_only"

\* One call in any mode, over three transactions.
AnyMode ==
    /\ Cardinality(Called) <= 1
    /\ deps = {}
    /\ \A s \in Called : ~undo[s].cohort

MCInit == Init /\ plan \in Plans

MCNext ==
    /\ Next
    /\ plan = "two calls" => TwoCalls'
    /\ plan = "any mode" => AnyMode'
    /\ UNCHANGED plan

MCSpec == MCInit /\ [][MCNext]_<<vars, plan>>
=============================================================================
