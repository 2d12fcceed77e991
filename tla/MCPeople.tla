------------------------------ MODULE MCPeople -------------------------------
(* Small instances of People for TLC. *)
EXTENDS People, TLC

CONSTANTS ana, ANA, m1, d1

MCLower == [n \in Names |-> IF n = ANA THEN ana ELSE n]
MCKind  == (m1 :> "mr") @@ (d1 :> "deployment")

Symmetry == Permutations(Tenants) \cup Permutations(Persons) \cup Permutations(Linkers)

CONSTANT MaxThings

\* Bound: identities, events, people and links there have been, all told, where a
\* rename or a fault counts three times; enough for two overlapping links of one identity
\* to two people.
Small == Cardinality(Rows) + Cardinality(Stored) + Cardinality(People)
           + Cardinality(linkedEver) + 3 * (renames + faults) <= MaxThings
=============================================================================
