-------------------------- MODULE MCAlertPipeline ---------------------------
(* A small instance of AlertPipeline for TLC. *)
EXTENDS AlertPipeline, TLC

CONSTANTS p1, t1

MCTenantOf == p1 :> t1

MCRuleValues ==
  { [tenant |-> t1, enabled |-> TRUE, kind |-> "tier_change", scopeKind |-> "project",
     scopeId |-> AnyScope, window |-> 30] }
=============================================================================
