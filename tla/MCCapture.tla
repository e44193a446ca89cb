------------------------------- MODULE MCCapture -------------------------------
(* Small instances of Capture for TLC. *)
EXTENDS Capture, TLC

ProcSymmetry == Permutations(Procs)
=============================================================================
