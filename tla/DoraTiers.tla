----------------------------- MODULE DoraTiers -----------------------------
(***************************************************************************)
(* The pure core of the metrics: the performance tiers, how a metric is    *)
(* classified against a tenant's thresholds, how four classifications are  *)
(* combined, and when a pair of tiers is a change or a regression.         *)
(* Modelled from internal/calculator/classification.go and                 *)
(* internal/alerts/tier.go.                                                *)
(*                                                                         *)
(* Durations are whole seconds.  A deployment frequency and a failure rate *)
(* are ratios of two counts; they are kept as ratios and compared by cross *)
(* multiplication, because the code divides two small integers and a       *)
(* correctly rounded quotient compares as the exact one does.              *)
(***************************************************************************)
EXTENDS Integers

KnownTier == {"elite", "high", "medium", "low"}

Tier == KnownTier \cup {"insufficient_data"}

\* What the code holds when it has read no classification at all: Go's "".
NoTier == ""

\* Position of a tier, larger is better; -1 for what is not a known tier.
TierOrder(tier) ==
  CASE tier = "elite"  -> 4
    [] tier = "high"   -> 3
    [] tier = "medium" -> 2
    [] tier = "low"    -> 1
    [] OTHER           -> -1

BothKnown(previous, current) ==
  TierOrder(previous) >= 0 /\ TierOrder(current) >= 0

IsRegression(previous, current) ==
  BothKnown(previous, current) /\ TierOrder(current) < TierOrder(previous)

IsChange(previous, current) ==
  BothKnown(previous, current) /\ TierOrder(current) # TierOrder(previous)

\* alerts.go keeps a private copy of the order to word the webhook's text.
AlertIsPromotion(previous, current) ==
  BothKnown(previous, current) /\ TierOrder(current) > TierOrder(previous)

RuleKind == {"tier_regression", "tier_change"}

RuleMatchesChange(kind, previous, current) ==
  \/ kind = "tier_regression" /\ IsRegression(previous, current)
  \/ kind = "tier_change"     /\ IsChange(previous, current)

-----------------------------------------------------------------------------
(***************************************************************************)
(* Classification.  The limits of one metric are a record [elite, high,    *)
(* medium]: seconds for a duration, a ratio <<num, den>> for a rate.  The  *)
(* code's nil pointer is a sample of size 0.                               *)
(***************************************************************************)

\* The first of three conditions that holds decides, in this order.
FirstEarned(elite, high, medium) ==
  IF elite THEN "elite" ELSE IF high THEN "high" ELSE IF medium THEN "medium" ELSE "low"

\* More is better: deploys per day against a least rate.
ClassifyDeploymentFrequency(deploys, days, limit) ==
  LET AtLeast(q) == deploys * q[2] >= q[1] * days
  IN  IF deploys <= 0 THEN "insufficient_data"
      ELSE FirstEarned(AtLeast(limit.elite), AtLeast(limit.high), AtLeast(limit.medium))

\* Less is better, and a limit itself does not earn its tier (<).
ClassifyDuration(sampleSize, seconds, limit) ==
  IF sampleSize = 0 THEN "insufficient_data"
  ELSE FirstEarned(seconds < limit.elite, seconds < limit.high, seconds < limit.medium)

\* Wrong variant, for checking that a property can fail: the comparison of the
\* deployment frequency.
ClassifyFailuresUpwards(failed, deploys, limit) ==
  LET AtLeast(q) == failed * q[2] >= q[1] * deploys
  IN  IF deploys = 0 THEN "insufficient_data"
      ELSE FirstEarned(AtLeast(limit.elite), AtLeast(limit.high), AtLeast(limit.medium))

\* Less is better, and a limit earns its tier (<=).
ClassifyChangeFailureRate(failed, deploys, limit) ==
  LET AtMost(q) == failed * q[2] <= q[1] * deploys
  IN  IF deploys = 0 THEN "insufficient_data"
      ELSE FirstEarned(AtMost(limit.elite), AtMost(limit.high), AtMost(limit.medium))

\* The lowest known tier, or "insufficient_data" when none is known.
WorstOf(tiers) ==
  LET known == {t \in tiers : TierOrder(t) >= 0}
  IN  IF known = {} THEN "insufficient_data"
      ELSE CHOOSE worst \in known : \A t \in known : TierOrder(worst) <= TierOrder(t)

Hour == 3600
Day  == 24 * Hour
Week == 7 * Day

DefaultThresholds ==
  [ df   |-> [elite |-> <<1, 1>>,   high |-> <<1, 7>>,  medium |-> <<1, 30>>],
    lt   |-> [elite |-> Hour,       high |-> Week,      medium |-> 30 * Day],
    cfr  |-> [elite |-> <<1, 20>>,  high |-> <<1, 10>>, medium |-> <<1, 5>>],
    mttr |-> [elite |-> Hour,       high |-> Day,       medium |-> Week] ]
=============================================================================
