------------------------------- MODULE MCReadSet -------------------------------
(***************************************************************************)
(* Instances of ReadSet for TLC.                                           *)
(***************************************************************************)
EXTENDS ReadSet

\* Long keys are looked at without failures and aging.
Within ==
    \/ faults = 0 /\ age = 0
    \/ \A t \in Txns : wrote[t] \notin LongKeys /\ read[t].key \notin LongKeys
=============================================================================
