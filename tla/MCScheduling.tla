---------------------------- MODULE MCScheduling -----------------------------
(* Small instances of Scheduling for TLC. *)
EXTENDS Scheduling, TLC

CONSTANTS g1, j1, j2, p1, t1

MCKind   == [i \in Instances |-> IF i = g1 THEN "gitlab" ELSE "jira"]
MCTenant == [i \in Instances |-> t1]
MCHome   == [p \in Projects |-> g1]
MCRows   == <<g1, j1>>
MCID     == [p \in Projects |-> 7]
=============================================================================
