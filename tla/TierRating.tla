----------------------------- MODULE TierRating -----------------------------
(***************************************************************************)
(* How the stored classification of one window follows the data: the       *)
(* measurements HandleComputeMetricWindow reads (handlers.go), the tenant's *)
(* thresholds merged over the defaults, and the tier that comes of them.   *)
(* A step changes the measurements the way the rolling window does between *)
(* two computations: deploys, lead times, failures and recoveries get      *)
(* better, or evidence enters or leaves the window.                        *)
(***************************************************************************)
EXTENDS DoraTiers, Sequences

CONSTANTS
  WindowDays,    \* lengths of the windows, in days
  Configs,       \* values of platform.classification_threshold.config
  Durations,     \* lead times and recovery times, in seconds
  MaxDeploys     \* bound: successful production deploys in the window

Levels == {"elite", "high", "medium"}

\* Numerator and denominator; the code's float64 limits are never negative.
Ratio == Nat \X (Nat \ {0})

Limits == [df : [Levels -> Ratio], lt : [Levels -> Int],
           cfr : [Levels -> Ratio], mttr : [Levels -> Int]]

\* FromJSON: the fields a tenant's config has replace the defaults one by one,
\* so the limits of a metric need not be in order.
Merged(config, metric) ==
  [level \in Levels |->
     IF <<metric, level>> \in DOMAIN config THEN config[<<metric, level>>]
     ELSE DefaultThresholds[metric][level]]

FromJSON(config) ==
  [df |-> Merged(config, "df"), lt |-> Merged(config, "lt"),
   cfr |-> Merged(config, "cfr"), mttr |-> Merged(config, "mttr")]

ASSUME RatingAssumption ==
  /\ WindowDays \subseteq Nat \ {0} /\ Durations \subseteq Nat /\ MaxDeploys \in Nat
  /\ \A config \in Configs : FromJSON(config) \in Limits

VARIABLES
  days,          \* the window
  limits,        \* the thresholds in force
  m              \* the measurements

ratingVars == <<days, limits, m>>

-----------------------------------------------------------------------------
Nil == 0

\* Both aggregates over deployments select the same rows, so the sample of the
\* failure rate is the number of deploys.  A duration without sample is nil.
Measurements ==
  {x \in [deploys : 0..MaxDeploys, failed : 0..MaxDeploys, ltSample : {0, 1},
          lt : Durations \cup {Nil}, mttrSample : {0, 1}, mttr : Durations \cup {Nil}] :
     /\ x.failed <= x.deploys
     /\ x.ltSample = 0 => x.lt = Nil
     /\ x.mttrSample = 0 => x.mttr = Nil}

\* The four classifications, in the order HandleComputeMetricWindow passes them.
Tiers ==
  << ClassifyDeploymentFrequency(m.deploys, days, limits.df),
     ClassifyDuration(m.ltSample, m.lt, limits.lt),
     ClassifyChangeFailureRate(m.failed, m.deploys, limits.cfr),
     ClassifyDuration(m.mttrSample, m.mttr, limits.mttr) >>

CurrentTier == WorstOf({Tiers[i] : i \in 1..4})

RatingInit ==
  /\ days \in WindowDays
  /\ limits \in {FromJSON(config) : config \in Configs}
  /\ m \in Measurements

-----------------------------------------------------------------------------
(* What happens to the measurements.                                        *)

Becomes(x) == m' = x /\ UNCHANGED <<days, limits>>

\* One more deploy, none of whose incidents is known yet.
DeployMore ==
  m.deploys \in 1..(MaxDeploys - 1) /\ Becomes([m EXCEPT !.deploys = @ + 1])

FailLess == m.failed > 0 /\ Becomes([m EXCEPT !.failed = @ - 1])

LeadFaster ==
  m.ltSample > 0 /\ \E s \in Durations : s < m.lt /\ Becomes([m EXCEPT !.lt = s])

RecoverFaster ==
  m.mttrSample > 0 /\ \E s \in Durations : s < m.mttr /\ Becomes([m EXCEPT !.mttr = s])

\* The last merge request, or the last resolved incident, leaves the window.
EvidenceLeaves ==
  \/ m.ltSample > 0 /\ Becomes([m EXCEPT !.ltSample = 0, !.lt = Nil])
  \/ m.mttrSample > 0 /\ Becomes([m EXCEPT !.mttrSample = 0, !.mttr = Nil])

\* The first one enters it.
EvidenceEnters ==
  \/ m.ltSample = 0 /\ \E s \in Durations : Becomes([m EXCEPT !.ltSample = 1, !.lt = s])
  \/ m.mttrSample = 0 /\ \E s \in Durations : Becomes([m EXCEPT !.mttrSample = 1, !.mttr = s])
  \/ m.deploys = 0 /\ MaxDeploys > 0 /\ Becomes([m EXCEPT !.deploys = 1])

Better == DeployMore \/ FailLess \/ LeadFaster \/ RecoverFaster

RatingNext == Better \/ EvidenceLeaves \/ EvidenceEnters

RatingSpec == RatingInit /\ [][RatingNext]_ratingVars

-----------------------------------------------------------------------------
(* Properties.                                                              *)

RatingTypeOK == days \in WindowDays /\ limits \in Limits /\ m \in Measurements

\* A window whose measurements improve, or lose evidence, is never classified
\* lower than before, whatever limits the tenant configured: they may even be
\* out of order, as when one field of a metric is overridden and the rest not.
ImprovementNeverDemotes ==
  [][Better \/ EvidenceLeaves => ~ IsRegression(CurrentTier, CurrentTier')]_ratingVars
=============================================================================
