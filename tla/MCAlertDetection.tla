-------------------------- MODULE MCAlertDetection --------------------------
(* Small instances of AlertDetection for TLC. *)
EXTENDS AlertDetection, TLC

CONSTANTS p1, p2, t1, t2, r1, r2, j1, j2, j3

MCTenantOf == p1 :> t1 @@ p2 :> t2
MCRule(tenant, enabled, kind, scopeId) ==
  [tenant |-> tenant, enabled |-> enabled, kind |-> kind, scopeKind |-> "project",
   scopeId |-> scopeId, window |-> 30]

MCRuleValues2 ==
  { MCRule(t1, TRUE, "tier_change", AnyScope),
    MCRule(t2, TRUE, "tier_regression", p2) }

\* The compute tasks are interchangeable, and so are the rules' identifiers.
TaskSymmetry == Permutations(Jobs) \cup Permutations(RuleIds)
=============================================================================
