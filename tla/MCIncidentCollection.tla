----------------------- MODULE MCIncidentCollection -------------------------
(* Small instances of IncidentCollection for TLC. *)
EXTENDS IncidentCollection, TLC

Symmetry == Permutations(Issues) \cup Permutations(Deployments) \cup Permutations(Runs)

CONSTANT MaxActors   \* bound: issues, deployments, running runs and faults, together

Small == Cardinality({i \in Issues : jira[i].created # NotYet})
         + Cardinality({d \in Deployments : deploy[d].finished # NotYet})
         + Cardinality(Running) + faults <= MaxActors
=============================================================================
