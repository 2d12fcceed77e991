----------------------------- MODULE TeamRating -----------------------------
(***************************************************************************)
(* The rating of a team: handleTeamMetrics (internal/api/team_metrics.go)  *)
(* measures the rows of all projects of the team at once and classifies    *)
(* the result as TierRating does for one project.  Nothing is stored, so a *)
(* team can be read whatever happened to its projects: a step changes the  *)
(* rows the window holds, the projects of the team or the thresholds.      *)
(* All projects are of the team's tenant.                                  *)
(***************************************************************************)
EXTENDS TierRating, FiniteSetsExt

CONSTANTS
  Assignable,    \* projects of the tenant
  Deployments,   \* successful production deployments
  ProjectOf,     \* the project of each
  Links,         \* <<deployment, merge request>>: the rows deployment_mr_link may have
  Incidents,
  Times,         \* lead times and times to recover of single rows, in seconds
  Affected       \* projects whose jira_project_keys have the incident's key

ASSUME TeamAssumption ==
  /\ ProjectOf \in [Deployments -> Assignable]
  /\ IsFiniteSet(Links) /\ \A l \in Links : l[1] \in Deployments
  /\ Times \subseteq Nat
  /\ Affected \in [Incidents -> SUBSET Assignable]
  /\ IsFiniteSet(Assignable) /\ IsFiniteSet(Deployments) /\ IsFiniteSet(Incidents)

VARIABLES
  exists,        \* the team's row is there
  member,        \* projects with its team_id
  shipped,       \* "outside" the window, "succeeded" in it, or also linked to an incident: "failed"
  lead,          \* the lead time of each link, -1 without one
  resolved       \* incidents resolved in the window: time to recover

teamVars == <<exists, member, shipped, lead, resolved>>

Shipped == {"outside", "succeeded", "failed"}

-----------------------------------------------------------------------------
(* The four queries, over the projects P.  Those of one project are the      *)
(* same with P a singleton.                                                  *)

DeploysOf(P) == {d \in Deployments : shipped[d] # "outside" /\ ProjectOf[d] \in P}

FailedOf(P) == {d \in DeploysOf(P) : shipped[d] = "failed"}

\* One row per link: a deployment counts once for each of its merge requests that
\* has a first commit and is not of a bot.
LeadsOf(P) == {l \in Links : l[1] \in DeploysOf(P) /\ lead[l] >= 0}

\* An incident is joined with every project that has its key: <<project, incident>>.
RecoveriesOf(P) ==
  {r \in P \X Incidents : resolved[r[2]] >= 0 /\ r[1] \in Affected[r[2]]}

\* PERCENTILE_CONT(0.5) of the lead times, in whole seconds: half way between the
\* two in the middle.
Median(L) ==
  LET AtMost(x)  == {l \in L : lead[l] <= lead[x]}
      AtLeast(x) == {l \in L : lead[l] >= lead[x]}
      lower == Min({lead[x] : x \in {y \in L : 2 * Cardinality(AtMost(y)) >= Cardinality(L)}})
      upper == Max({lead[x] : x \in {y \in L : 2 * Cardinality(AtLeast(y)) >= Cardinality(L)}})
  IN  (lower + upper) \div 2

\* A definition marked "Wrong variant" belongs to no behaviour: put in the place
\* of the one after it, it breaks a property.

\* Wrong variant: the sum is of the joined rows, the count of the incidents.
MeanOfIncidents(R) ==
  SumFunction([r \in R |-> resolved[r[2]]]) \div Cardinality({r[2] : r \in R})

Mean(R) == SumFunction([r \in R |-> resolved[r[2]]]) \div Cardinality(R)

\* A duration without sample is nil.
TierOf(P) ==
  LET leads == LeadsOf(P)  recoveries == RecoveriesOf(P)  deploys == Cardinality(DeploysOf(P)) IN
  WorstOf({ ClassifyDeploymentFrequency(deploys, days, limits.df),
            ClassifyDuration(Cardinality(leads), IF leads = {} THEN Nil ELSE Median(leads), limits.lt),
            ClassifyChangeFailureRate(Cardinality(FailedOf(P)), deploys, limits.cfr),
            ClassifyDuration(Cardinality(recoveries),
                             IF recoveries = {} THEN Nil ELSE Mean(recoveries), limits.mttr) })

\* GET /teams/{id}/metrics.
TeamTier == TierOf(member)

-----------------------------------------------------------------------------
(* The rows of the window.                                                  *)

Rows(s, l, r) ==
  /\ shipped' = s /\ lead' = l /\ resolved' = r
  /\ UNCHANGED <<days, limits, m, exists, member>>

\* A deployment enters the window, or leaves it with its links.
Deploy(d) ==
  shipped[d] = "outside" /\ Rows([shipped EXCEPT ![d] = "succeeded"], lead, resolved)

DeployLeaves(d) ==
  /\ shipped[d] # "outside"
  /\ Rows([shipped EXCEPT ![d] = "outside"],
          [l \in Links |-> IF l[1] = d THEN -1 ELSE lead[l]], resolved)

Blame(d) ==
  shipped[d] = "succeeded" /\ Rows([shipped EXCEPT ![d] = "failed"], lead, resolved)

\* A merge request is linked to a deployment, its first commit becomes known, or
\* another one does, or none is any longer.
Measure(l, time) ==
  /\ shipped[l[1]] # "outside" /\ lead[l] # time
  /\ Rows(shipped, [lead EXCEPT ![l] = time], resolved)

Resolve(i, time) == resolved[i] < 0 /\ Rows(shipped, lead, [resolved EXCEPT ![i] = time])

\* It leaves the window, or is opened again.
ResolveLeaves(i) == resolved[i] >= 0 /\ Rows(shipped, lead, [resolved EXCEPT ![i] = -1])

-----------------------------------------------------------------------------
(* The team.                                                                *)

handleCreateTeam ==
  ~exists /\ exists' = TRUE /\ UNCHANGED <<ratingVars, member, shipped, lead, resolved>>

\* project.team_id is set to NULL with it.
handleDeleteTeam ==
  exists /\ exists' = FALSE /\ member' = {} /\ UNCHANGED <<ratingVars, shipped, lead, resolved>>

handleAssignProjectToTeam(p) ==
  /\ exists /\ p \notin member /\ member' = member \cup {p}
  /\ UNCHANGED <<ratingVars, exists, shipped, lead, resolved>>

handleUnassignProjectFromTeam(p) ==
  p \in member /\ member' = member \ {p} /\ UNCHANGED <<ratingVars, exists, shipped, lead, resolved>>

\* `cli thresholds set`.
thresholdsSet(config) ==
  limits' = FromJSON(config) /\ UNCHANGED <<days, m, teamVars>>

TeamInit ==
  /\ RatingInit
  /\ exists = FALSE /\ member = {}
  /\ shipped = [d \in Deployments |-> "outside"] /\ lead = [l \in Links |-> -1]
  /\ resolved = [i \in Incidents |-> -1]

\* The project's own window goes on as in TierRating.
Window == RatingNext /\ UNCHANGED teamVars

TeamNext ==
  \/ Window
  \/ \E d \in Deployments : Deploy(d) \/ DeployLeaves(d) \/ Blame(d)
  \/ \E l \in Links, s \in Times \cup {-1} : Measure(l, s)
  \/ \E i \in Incidents : ResolveLeaves(i) \/ \E s \in Times : Resolve(i, s)
  \/ handleCreateTeam
  \/ handleDeleteTeam
  \/ \E p \in Assignable : handleAssignProjectToTeam(p) \/ handleUnassignProjectFromTeam(p)
  \/ \E config \in Configs : thresholdsSet(config)

TeamSpec == TeamInit /\ [][TeamNext]_<<ratingVars, teamVars>>

-----------------------------------------------------------------------------
(* Properties.                                                              *)

TeamTypeOK ==
  /\ exists \in BOOLEAN /\ member \subseteq Assignable /\ (~exists => member = {})
  /\ shipped \in [Deployments -> Shipped]
  /\ lead \in [Links -> Times \cup {-1}] /\ resolved \in [Incidents -> Times \cup {-1}]

\* Pooling rows of several projects makes a team no worse than its worst project,
\* although its median and its means are those of no project, a deployment counts
\* once for each of its merge requests, an incident once for every project that has
\* its key, and what a project has no sample of is left out of its own tier only.  A
\* team has a tier as soon as one of its projects has.
NotBelowWorstMember ==
  LET tiers == {TierOf({p}) : p \in member} \ {"insufficient_data"} IN
  IF tiers = {} THEN TeamTier = "insufficient_data"
  ELSE TierOrder(TeamTier) >= TierOrder(WorstOf(tiers))
=============================================================================
