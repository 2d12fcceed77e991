---------------------------- MODULE MCCollection ----------------------------
(* A small instance of Collection for TLC. *)
EXTENDS Collection, TLC

Symmetry == Permutations(Jobs)
=============================================================================
