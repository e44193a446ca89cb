--------------------------- MODULE RecoveryWindow ---------------------------
(***************************************************************************)
(* What retention promises (sidecars/storage/retention.go): positions of   *)
(* the tenant's log become recoverable and stay so, unless a horizon is    *)
(* set and the position is older than it.  As long as `whole` does not     *)
(* hold, nothing is promised.                                              *)
(***************************************************************************)
EXTENDS Naturals

VARIABLES
    now,     \* the current position
    depth,   \* the horizon; 0 keeps everything
    points,  \* positions with a base backup to recover them from
    whole    \* what retention chooses from is what there is

InWindow(t) == depth = 0 \/ t + depth >= now'

Init == points = {} /\ now \in Nat /\ depth \in Nat /\ whole = TRUE

Advance ==
    /\ depth' = depth
    /\ now' >= now
    /\ whole => \A t \in points : InWindow(t) => t \in points'
    /\ whole' \in BOOLEAN

Spec == Init /\ [][Advance]_<<now, depth, points, whole>>
=============================================================================
