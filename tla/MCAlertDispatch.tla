-------------------------- MODULE MCAlertDispatch ---------------------------
(* Small instances of AlertDispatch for TLC. *)
EXTENDS AlertDispatch, TLC

EventSymmetry == Permutations(EventIds)
=============================================================================
