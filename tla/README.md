# A verification project for the DORA metrics platform

This directory holds TLA+ models of the DORA metrics platform (`../src`), TLC
configurations that check them on small instances, and proofs, checked by TLAPS,
of their most important properties for every value of the constants. Paths below
are relative to `../src/backend` unless they start with `docs/`.

## 1. The system

The platform mirrors GitLab projects and Jira incidents into PostgreSQL, computes
the four DORA metrics over rolling windows, classifies each window into a tier, and
raises alerts when the tier changes. One process serves the API (`cmd/api`), one or
more run tasks from Redis queues with asynq (`cmd/worker`), one answers MCP clients
(`cmd/mcp-server`), and a CLI (`cmd/cli`) edits configuration and starts tasks by
hand. They share the database and the queues, and nothing else.

| Part | State it keeps | Operations | What is hard about it | What makes it correct |
|---|---|---|---|---|
| Metric computation and alert detection (`collector/handlers.go`) | `metric_window`, `alert_event` | `compute:metric_window`, fan-out to rules | overlapping computations, errors that are swallowed, crash between row and fan-out | alerts are real, unique, of the right tenant, and none is lost silently |
| Tier classification (`calculator/classification.go`, `alerts/tier.go`) | none | classifiers, `WorstOf`, `FromJSON`, `RuleMatchesChange` | limits on boundaries, metrics without a sample, overrides in any order | better data never lowers the tier |
| Alert dispatch (`collector/alerts.go`, `alert_destinations.go`) | delivery columns of `alert_event` | `dispatch:alert`, five retries | lost answers, failed UPDATEs, crashes, rules deleted meanwhile | the history tells the truth; calls are bounded |
| Alert rules (`api/alerts.go`) | `alert_rule` | create, update, delete (with cascade) | requests between the steps of a fan-out or a delivery | events belong to existing rules; removed rules fall silent |
| Worker, queues, scheduler (`cmd/worker/main.go`, `collector/tasks.go`) | Redis | one pool for three queues, periodic tasks, one scheduler per replica | tasks of every kind compete for the same slots | the system falls quiet |
| GitLab collection and correlation (`collector/handlers.go`, `collector/gitlab`) | `deployment`, `merge_request`, `deployment_mr_link`, `last_synced_at` | `collect:gitlab:deployments` | overlapping runs, windows that follow the end of the last run, pages of a listing that moves | nothing falls between two windows; each merge request goes to the deployment that shipped it |
| Jira collection (`collector/handlers.go`, `collector/jira`, `mcp/client`) | `incident`, `deployment_incident_link` | `collect:jira:incidents` | deployments learned after the incident; pages; fallback from MCP to REST; overlapping runs | what was listed is stored; each incident blames the latest deployment known |
| Source instances, projects, scan, reconcile, webhooks (`api/source_instances.go`, `collector/handlers.go`, `api/webhooks.go`, `cmd/cli`) | `source_instance`, `project`, the queue | edit the catalogue, start collections | enqueue errors that are logged only, tasks given up, deletions while tasks wait or run, a pattern stored unchecked that no collection can compile | a change is collected in the end |
| Monthly snapshot (`collector/handlers.go`) | `metric_monthly_snapshot` | one periodic task | month arithmetic, reruns | a month is frozen once |
| Digest, prediction (`collector/digest.go`, `predict.go`, `prediction`) | digest rows, predicted alerts | periodic tasks | their first statement fails, see section 5 | – |
| Atlassian OAuth client (`integrations/atlassian`) | `oauth_state`, `oauth_connection` | connect, refresh, disconnect | rotating refresh tokens, concurrent refreshes, crash after rotation, change of key | a connection is not lost by its own refreshes |
| MCP OAuth server (`mcp/server/oauth.go`) | codes and tokens in memory | authorize, token, revoke | two lock sections per exchange, expiry, restart | a code is redeemed once, by whom it was given to |
| MCP tools (`mcp/server`) | none | queries, one by one | windows and teams change between two queries, and queries fail | an answer is not older than its request; a failure is not taken for a scope without data |
| Teams (`api/teams.go`, `api/team_metrics.go`) | `team`, `project.team_id` | create, delete, assign; rating of pooled rows | medians and means of unions, deployments of several merge requests, incidents of several projects | no worse than the worst project |
| People and identities (`api/people.go`, `identities`, `cmd/cli`) | `person`, `person_identity`, person columns of the rows | backfill, link, propagate, suggest | two UPDATEs per link that write what they joined at their start, concurrent links, tenants that share names | rows follow links, of their own tenant |
| Read API, export, secrets, reliability providers (`api`, `secret`, `reliability`) | none | queries, remote reads | – | – |
| Gamification, anti-gaming (`gamification`, `calculator`) | none | pure functions of the history | boundaries | agree with their definition |

They interact like this. The scheduler and webhooks enqueue collections; a
collection stores rows, links them, moves `last_synced_at`, and enqueues one
computation per window; a computation reads the previous row of its window,
aggregates the mirror, inserts a row and, when the tier changed, inserts one event
per matching rule and enqueues its dispatch; a dispatch reads event and rule, calls
the destination, and updates the event. The API edits rules and deletes source
instances (and their projects) between any two of those steps. All of it runs at
asynq's at-least-once: a task may run again after an error, a crash or a timeout.

`PROJECT.json` lists the parts with their status, and under `hazards` what is hard
to test in this code, at its line, with the properties that would catch it.

## 2. Modules

| Module | What it is |
|---|---|
| `DoraTiers` | tiers, their order, the classifiers, the rule kinds, as operators |
| `TierRating` | one window's measurements changing, and the tier they get |
| `AlertDetection` | compute tasks, rules, rows, events, dispatch queue |
| `AlertDelivery` | abstract: what the delivery of an event promises |
| `AlertDispatch` | dispatch tasks, their attempts and answers; implements `AlertDelivery` |
| `AlertPipeline` | extends `AlertDetection`, with an instance of `AlertDispatch` beside it, in one worker pool |
| `TeamRating` | extends `TierRating`: the rows of several projects, a team of them, and its tier |
| `Collection` | runs of one project's GitLab collection and its correlation |
| `IncidentCollection` | runs of one project's Jira collection and the linking of incidents |
| `Scheduling` | catalogue, scheduler, webhooks, queue and workers, up to what a collection stores |
| `AtlassianOAuth` | the Jira connection of one tenant, its callbacks and collectors |
| `AccessGrant` | abstract: what a code and its token promise |
| `McpServer` | authorization server, check of the bearer, tools; implements `AccessGrant` |
| `People` | people, identities, and the person columns of merge requests and deployments |
| `MC*` | constants of the instances TLC checks |
| `*_proofs` | theorems and their proofs; those about `AlertDetection` are the first part of `AlertPipeline_proofs`, those about `Scheduling`, `TierRating` and `TeamRating` the three parts of `Projects_proofs` |

A definition marked "Wrong variant" is not part of any specification. It states a
plausible bug next to the definition it would replace, and `PROJECT.json`
(`mutants`) says which property that bug breaks: each property is known to be able
to fail.

### TierRating, DoraTiers

The state is what `HandleComputeMetricWindow` measures for one window: deploys and
failed deploys, samples and values of lead time and recovery time, and the limits
after `FromJSON`. Actions improve a measurement, take its evidence away, or bring
evidence in. Values stand on both sides of every limit. Rates are compared by cross
multiplication, so no division is rounded. Thresholds may be overridden field by
field, and so be out of order. What belongs to the window has `Rating` in its name, what
belongs to the team, in the module that extends this one, has `Team`.

### AlertDetection

One record per compute task, with the handler's locals while it runs: the row it
read as the previous one, the row it wrote, the rules still to serve, the event to
enqueue. Each database or Redis call is an action. `rows` is `metric_window` in the
order of `computed_at`; the stamp is taken as the INSERT is sent, and the two are one
action. A row carries, as history, the row its job had read (`basis`). Rules may be
created, changed, deleted (events go with them), and projects removed, at any point.
`FindMatchingAlertRules` is called with scope `project` only, so rules of scope team
and tenant, which the table permits, match nothing.

### AlertDispatch, AlertDelivery

The delivery columns of an event, its task with asynq's retry counter, the running
attempt, the answer it holds, and counters of calls as history. The kinds of answer
are those the handler tells apart. `DropRemoved` and `Load` stand for both reads:
between them only the deletion of the rule matters, and it takes the event too. A
`MarkAlertEventFailed` that fails is swallowed; a `MarkAlertEventDelivered` that fails
returns an error after a 2xx, and the alert is sent again. `AlertDelivery` forgets
queue, retries and answers: a delivery begins while the event exists, ends with the
event taken in or not, and is reported once at most. The refinement maps an attempt
that holds its copies to an open delivery and one that has its answer to an ended one.

### AlertPipeline

It extends `AlertDetection` and holds an instance of `AlertDispatch`, which share
`alert_event` and the queue; what both do together has `Pipeline` in its name. The pool is one number of
workers for tasks of every queue, as `asynq.Config.Concurrency` is. Inserting an
event, enqueueing its task and deleting a rule are joint actions; all others belong
to one side. `MaxFaults` bounds failures of both sides together. What stays behind after
failures is part of the model: an alert whose enqueue failed, or whose last attempt
ended without its UPDATE, is pending for good, and `OnePendingPerFailure` counts them.

### Collection

GitLab on one side: deployments start and finish, merge requests are merged, each
change stamped with the time and moved to the end of the order by `updated_at`. The
mirror on the other: `stored`, `firstCommit`, `links`, `lastSynced`. A run reads the
project, fetches the deployments page by page, stores them in their order, does the
same with merge requests (asking for the commits of each), lists the successful
production deployments, links those merged in each interval, and writes the time.
The unit of time is half an hour: asynq's default timeout for an attempt is 1, the
overlap 2. After the timeout every call of an attempt fails (`Expire`). Environments,
the default branch and the bot filter select the objects and do not change.

### TeamRating

Deployments in the window and whether an incident is linked, the rows that join a
deployment with a merge request (`Links`: a deployment has any number of them, and a
merge request may be of several), each with its lead time once there is a first commit,
incidents with their time to recover, and the projects of one team.
`TierOf(P)` is the four aggregates over the rows of the projects `P`, with the median
of `PERCENTILE_CONT` and the mean of `AVG` cut to whole seconds, and the worst of four
tiers; a project is rated by `TierOf({p})`, the team by `TierOf(member)`, which is what
the two families of queries do. `handleTeamMetrics` makes four queries; it is one
reading here. All projects are of the team's tenant: the code does not make sure of it
(section 5).

### IncidentCollection

Jira and GitLab on one side: issues are created, resolved and reopened, deployments
succeed, and become known to the database later, in any order (`Learn`). A run takes the
issues of its window through MCP, in one answer that may leave issues out, or through
REST page by page, each page an answer of its own moment; a failed MCP call leads to
REST. It then stores each issue, looks for the deployment, and writes the link, in
three steps. `owes` and `known` remember what was there when the run began.

### Scheduling

The catalogue is one sequence, `created`, of every row there ever was in the order of
`created_at`, because the lookups of a Jira instance take the oldest; `gone` are the rows
deleted since, and a row exists when it is in the one and not in the other. Ids are not
used twice, and a project is created after its instance, in the installation too: the
table's foreign key. `pending` holds what changed at a provider and is
not stored. Webhooks and the scheduler's ticks put tasks in the queue, where enqueueing
may fail and nobody is told; a tick's fan-out lists the active projects once and then
enqueues one task at a time; a collection reads the project, then its instance and the
answers, then stores. A deletion may come between any two. Tasks alike are kept once:
the code has no such rule, but a second one changes nothing here.

`project add` stores any text as `production_env_pattern`. A collection of GitLab takes the
text with the project's row, and when it does not compile (`SkipRetry`) the task is
archived at this attempt, without repetition and without any failure (`GiveUp`);
`misset` remembers which projects ever had such a text. The other use of
`asynq.SkipRetry`, a payload that does not parse, cannot occur: the payloads are those the
program has written. Left out is a project whose home is not of GitLab (the CLI does not
check it either): its collection is dropped with a warning.

### AtlassianOAuth

One row of `oauth_connection` (unique per tenant and provider), the rows of
`oauth_state`, requests to `/callback` and collectors in any number, each a step per
query or call. Atlassian's side is a grant per authorization with the serial of its
latest refresh token. Time is in units a collector's call may take; an answer arrives
within `Timeout`, and expiry is counted from its arrival, as the code does. The
encryption key may change between restarts (`ChangeKey`).

### McpServer, AccessGrant

Each section under `OAuthServer.mu` and each query is an action. `origin`, `offers` and
`voided` remember what was drawn, for which request. `AccessGrant` knows only where a code
stands: offered, granted with a token, ended. The refinement maps a code to the
tokens issued for it that `ValidateToken` would still accept. Requests hold their
question and the answers so far; computations insert windows, the API deletes teams.
Either query of a scope may fail. The answer is then an error: `compareTeams` puts it
beside the answers about the other teams and goes on with the next one, every other
question ends with it. No row in the first query is the error "not found", no row in
the second is `insufficient_data`, so it matters that the three are not confused.

### People

Events carry a user name and a person; identities are unique by tenant, kind and name.
A link and the two UPDATEs that propagate it are separate steps of each caller, and a
caller may die between them; the collection stores and renames events meanwhile.

Each UPDATE is two actions. `StartUpdate` takes what its join finds at the statement's
snapshot: which rows, and whose they are to be. `CommitUpdate` writes that to those rows,
whatever has happened to links and rows in between. That is what READ COMMITTED allows:
when the row has been written by another UPDATE meanwhile, the waiting one reads this row
again but not the others of its join, so it still holds the old person. An UPDATE
that started before a link, and ends after the UPDATE that spread this link, thus puts the old
person back, and nobody writes the new one again (section 5). `changed` notes for a running
UPDATE the rows whose name or link has changed under it, and `excused` keeps the rows it
wrote from what it had read. A row that has been given the same person meanwhile is passed
over by the statement and written again in the model, which comes to the same.
Only identities an installation has loaded by hand can be of Jira or have an
email, because no code writes such rows; the suggestions read them and change nothing,
and are not modelled.

## 3. What the runs check

| Run | Shows | Bounds, and why they are enough |
|---|---|---|
| `tier_rating` | a better or smaller sample never lowers the tier of a window; a team is rated no lower than its worst project | 6 deploys (failure rates on every side of the limits), durations on both sides of each limit, three configurations; 2 projects, 3 deployments, 4 links (a deployment of two merge requests, a merge request of two deployments), 2 incidents, one of both projects, each duration the best or the worst. `HalfAtATime`: the window and the team share the thresholds only |
| `alert_detection` | alerts are witnessed by two rows, unique per row and rule, of the own tenant, get their task; with one worker they are the steps of the series, and complete | 3 tasks, 2 projects of 2 tenants, 2 rules, 1 fault, 1 edit: two tasks of one window overlap while the third is a retry or another scope |
| `alert_dispatch` | the history is true, calls are bounded, silence after removal, tasks end; refinement of `AlertDelivery` | the real five retries, 2 faults, 1 event: events do not touch each other's state |
| `alert_pipeline` | calls after a removal are bounded by the pool, a quiet system leaves no pending alert and no transition unknown, after failures one pending alert for each at most, and the system falls quiet | 2 computations, 2 events, 1 fault, 1 edit, 1 or 2 workers: both kinds of task compete |
| `collection` | no update falls between two windows; links are real | 2 overlapping runs over two overlaps of time (5 instants), 1 fault |
| `mr_links` | one run at a time: a merge request goes to the first deployment after it, only there, and is not left out | 2 runs, 2 deployments, 1 merge request at each order of 3 instants, 1 fault, a forced window |
| `incidents` | a run that completes has stored what it listed and linked each incident to the latest deployment known when it began; one deployment is blamed unless a later one came to light afterwards | 2 runs, 2 issues, 2 deployments, pages of 1, 3 instants, 1 change per issue, 1 fault; `Small` bounds issues, deployments, runs and faults together to 4 of 7: a fault meets an issue and two runs, or an issue, a deployment and a run |
| `scheduling` | a change is collected in the end; a task is given up for failures or a pattern that does not compile only, and a deletion costs it one attempt | 1 project, 1 GitLab and 2 Jira instances (one added later), 1 worker, 1 change, in GitLab or in Jira, 2 edits, 2 faults, 1 retry: two faults give a task up, and two edits make a pattern invalid and valid again |
| `atlassian` | a refresh token is lost by a lost answer or a failed save, never by the order of refreshes alone, and a connection is shown unhealthy after a failure or overlapping refreshes only; rows are of one grant; a state serves once; no token handed out is past its end | 2 callbacks, 2 collectors, 2 grants, 2 sites, 2 keys, 1 fault, 5 instants, in which a token comes due |
| `mcp_server` | implements `AccessGrant`; a bearer that passes was granted; a reply is current, or says what failed | 2 codes, 2 tokens, 2 exchanges, 1 request, 1 restart; 1 project and 2 teams, windows of two lengths. `HalfAtATime`: the tools and the authorization server share the check of the bearer only |
| `people` | rows follow links, unless an UPDATE wrote them from links that had changed; a row's person was linked in the row's tenant by a name it had | 2 tenants, 2 people, 1 merge request, 1 deployment, 2 spellings of a name, 2 callers, 1 rename, 1 fault; `Small` bounds their number together. The set of bot names is empty |

The run that expects a violation, `page_skipped`, shows a flaw: an object is never
listed, because another was updated between two pages. Section 5 lists other places
where the code departs from its comments and docs.

Deadlock is not checked: the runs bound tasks, time and requests, and a system that
has used them up stops.

Fairness. `AlertDispatch!FairSpec` assumes that a handler that can take its next step
does, and that a queued task is taken: asynq's processor never leaves a worker idle
while a queue has tasks. `FairPipelineSpec` assumes it of all tasks together
only, since queues are chosen by weight and no order between tasks is promised.
`Scheduling!Fairness` assumes that the scheduler ticks, that a worker's next step
happens, and strong fairness of taking a tick's task and each project's task of each
kind: the three queues have weights, none is strict, and each is served in order, so a
task that is in its queue again and again is taken. It is needed because a worker that
is busy disables the taking. Faults, requests, changes and the clock get no fairness;
faults are bounded, and with that every retry ends.

## 4. What is proved

The theorems hold for every value of the constants that satisfies the module's named
assumption; faults, retries, runs and requests may be any number. Most are of the form
`Spec => []P`. Each rests on an inductive invariant, checked by TLC first, of which the
parts are named in the `*_proofs` module and explained there; this is what they say.

* `AlertPipeline_proofs`, part 1, about `AlertDetection` by itself: `TypeCorrect`,
  `AlertsAreWitnessed`, `AlertsAtMostOnce`, `AlertsOfOwnTenant`, `AlertsGetTheirTask`.
  The invariant says what a running job's locals mean: the row it read exists and
  precedes the one it wrote, its `prev` is that row's tier, the rules left to serve
  matched, no event of its row exists yet for them, and the event it is about to enqueue
  is one it inserted. Without the clause on rules still to serve, uniqueness is not
  inductive. `SerialAlertsAreSteps` and `EveryTransitionAlerts` are for one worker: the
  row the running job read is the last of its scope, so an event is a step of the series;
  and while nothing fails and no rule is edited, a row and the one before it have their
  events, or its job has the rules still to serve.
* Part 2, about `AlertPipeline`: `DetectionWithin` and `DispatchWithin` (its behaviours
  are behaviours of `AlertDetection` and, through the instance, of `AlertDispatch`, so
  part 1 carries over), `QuietIsSettled`, `FailuresStrandOneEach`, `FewLateCalls`,
  `TransitionsReachDestinations`. `FewLateCalls` counts: the events of deleted rules
  that may still get a call, and those that did, are at most one per worker and deletion,
  because each was in the hands of a worker when its rule went.
  `FailuresStrandOneEach` counts too: the alerts that are pending and in nobody's hands any
  more (no job is about to enqueue them, no task waits or runs before its UPDATE) are no
  more than the failures, because only a failing step puts an alert among them, and one only.
* `AlertDispatch_proofs`: `TypeCorrect`, `DeliveredIsTrue`, `CallsWithinBudget`,
  `RemovedFallsSilent`, `StatusIsTrue`, and `Implementation` (every step maps to a step
  of `AlertDelivery` or a stutter). The invariant ties attempt, answer and task state
  together and counts the calls of the running attempt.
* `Projects_proofs`, part 1, about `Scheduling`: `SchedulingTypeCorrect` and
  `GivenUpSafe`. Whoever holds a task to be skipped has read a project that is in `misset`,
  and nothing leaves `misset` (`PatternsOK`). Every other failed attempt is paid for, by a fault or by an instance that was
  deleted, and no two attempts of one task by the same: the invariant says that a task
  in the queue has failed at most `Budget` times (faults plus deleted instances), and one
  in a worker's hands at most that often, *counting the attempt it is about to lose* when
  its project or the instance it read is gone. Without the last part the invariant is not
  inductive, for the deletion is paid before the worker fails. It needs that no project is
  there without its GitLab instance (`RowsOK`): the two are deleted together, and the
  tasks still in the queue are then dropped without failing.
* Part 2, about `TierRating`: `ImprovementIsSafe`, and `ImprovementIsSafeInTeam` where
  the thresholds change too. The steps are lemmas on the classifiers (each is monotone for
  limits in any order) and on `WorstOf`. `RatingAssumption` excludes negative thresholds,
  for which no measured value exists.
* Part 3, about `TeamRating`: `TeamTypeCorrect` and `TeamNeverBelowWorst`, for any number
  of projects, deployments, links of each and incidents. The state needs no invariant beyond its type;
  the argument is about what pooling does. For each metric some project of the team is no
  better than the whole: counts of rows, and sums of durations, add up over the projects
  (`Additive`), so when a weighted difference of two of them has one sign for the team, it
  has it for some project (`SomePartReaches`). With the counts of failures and deploys
  this is the failure rate, with sum and count of recoveries the mean, cut to whole
  seconds. The median is the half sum of a lower and an upper one, which are at least `v`
  when more than, or at least, half of the rows are (`LowerIs`, `UpperIs`); the project is
  found by counting those rows (`SomeMedian`). `SumFunction` is a fold, and is shown to
  add up over disjoint sets by a smallest set on which it would not.
* `Collection_proofs`: `TypeCorrect`, `NothingIsLost` and `LinksAreReal`. The second
  assumes that a listing fits in one page and that two timeouts fit in the overlap. Its
  invariant says, of each object the mirror shows wrongly and each run past its start:
  the run will still store what GitLab shows, or it started at most one timeout after
  the object's last change; and an outdated answer is held only by runs that started
  before that change. A run that stores an outdated answer does so within its own
  timeout, and a run then in progress ends within another: hence twice. For links the
  invariant says that a row with a final status is true wherever it is held (table,
  answer, list of deployments), so that a link made from old rows is real all the same.
  With one worker, `LinksAreComplete`: what a correlating run holds is what the tables
  hold, and every interval behind it is linked; for pages of any size. `LinksAreFirst`,
  for listings of one page: successes enter the table in the order they happened, because
  a run asks for all that is not up to date and stores its listing in the order of the
  updates; so no interval that was correlated is cut by a deployment stored later.
* `IncidentCollection_proofs`: `TypeCorrect`, `BlameIsSound`, `RowsMirror`,
  `LatestAreLinked` (the last two are action properties). The invariant follows each
  issue a run owes: still to be listed, listed, in hand, or stored and linked; and says
  of the deployment in hand between the search and the link that none the run knew when
  it began is later, nor any known now unless it came to light in between. For the
  version stored: unless runs overlapped, there is one, and it holds nothing older than
  its start.
* `AtlassianOAuth_proofs`: `TypeCorrect`, `StateAcceptedOnce`, `TakenStayLive`,
  `RowKeepsOneGrant`, `ConnectionKept`. A token's end, as stored, runs behind its real
  one by at most the timeouts between answer and save. A grant not yet saved is with one
  request only; tokens of one grant are of one row; and of the collectors that read
  one row, the one whose refresh was answered last alone holds the token Atlassian
  accepts, until it saves it.
* `McpServer_proofs`: `TypeCorrect`, `RepliesAreCurrent`, `AcceptedBearers` (an action
  property), and `Implementation` (every step maps to a step of `AccessGrant` or a
  stutter). The invariant: a code is in the map, held by one exchange, or spent on one
  token, never two of them; an exchange past its checks matches what was authorized.
* `People_proofs`: `TypeCorrect`, `EventsAreAttributed`, `RowsFollow`. A linked identity is
  remembered with its person, and an event with its names, and an UPDATE joins an event
  to the identity of its own tenant and the name at its start only, which the event has
  had ever after. What a running UPDATE is to write is the present link of its row unless
  `changed` has it, and a row it is not to write either has that person, or is excused,
  or is on the way of somebody else: so after it commits the rows it wrote follow the
  links, or were noted, and the others are as before.

Assumptions on the constants are those of each module (`...Assumption`); the proofs made
four of them say that sets are finite: the issues of `IncidentAssumption`, which pages
count, the tasks of `CollectionAssumption`, of which the workers take some, the instances
of `SchedulingAssumption`, whose deletions are counted, and projects, deployments, links
and incidents in `TeamAssumption`, of which there are medians and means. The one-page
hypothesis stands in the theorems that need it, and the run `page_skipped` shows that
`NothingLost` fails without it.

Only model-checked:

* Liveness (`TasksEnd`, `FallsQuiet`, `ChangesCollected`) and ENABLED, which the prover
  does not reach.
* Types are checked by the runs `alert_detection` and `collection`; those of the other
  modules with proofs are proved and in no run.

## 5. Where the code departs from its comments, and what is not modelled

Each of these was met while modelling; the models show the code's behaviour.

* Alerts. A failed read of the previous row loses the transition for good, because the
  next computation compares with the new row (`handlers.go:376-378` says it is made up
  for). Two overlapping computations of one window report the same change (`docs/05-architecture.md:85`).
  A retried dispatch delivers an alert again (`alerts.go:26-28` says repeated calls have
  no side effect). A PagerDuty or Opsgenie incident is never resolved by its own key.
* GitLab. When the commits of a merge request cannot be listed, its lead time stays
  unknown, in the next cycle too (`handlers.go:865-867`). When runs overlap, a merge request
  may be linked to the deployment after its own, and later to both (`handlers.go:809-810`).
* Jira. Incidents older than the window that are resolved later are not refreshed
  (`handlers.go:725-726`). An issue whose kind changes keeps its row and its link. Through
  MCP one answer is all there is, and what cannot be decoded is skipped. No computation
  is enqueued at the end. The lower end of the 24 hours is closed.
* Atlassian. `Healthy` says whether an error is stored, not whether the refresh token
  still works (`service.go:65`): it is true after a change of the key, and false after
  overlapping refreshes that ended well.
* MCP. Teams have no stored windows (`handlers.go:475-477`), so tools say
  `insufficient_data` of every team. `explainTrend` compares nothing: its type
  assertions (`tools.go:170`) never hold, and no previous window is read. Client
  entries are cut at `|`, not at the comma `oauth.go:8` names. Codes nobody redeems stay
  in memory. A comparison of teams is no snapshot.
* Teams. `handleTeamMetrics` takes the thresholds of the team's tenant and says that all
  its projects are of that tenant (`team_metrics.go:113-115`); `AssignProjectToTeam`
  does not compare tenants. An incident counts once per project with its key.
* People. Of two overlapping links of one identity the rows may keep the older person:
  an UPDATE that joined before the second link, and waits for rows or reaches them late,
  writes over the second's result (`people.sql.go:503-505` promises every matching merge
  request the person its identity is linked to); only the next link or `people
  propagate` puts it right. Nothing creates identities with an email or of Jira, so
  suggestions come of identities loaded by hand only. Creating a person with identities
  does not propagate, nor does the collection; an upsert that renames the author keeps
  the person.
* Scheduling. With a pattern that does not compile, accepted by `project add`
  (`cmd/cli/main.go:269`), every tick's collection is archived at its first attempt, and
  nothing tells whoever added the project. Only SQL sets `jira_project_keys` or
  `active`. GitLab's webhook takes the oldest project with the id, active or not; Jira's
  asks for active ones. A project registered by its path is never matched. Every replica
  of the worker has a scheduler.
* Digest and prediction. `HandleDigestWeekly` (`digest.go:46`) and `HandlePredictWeekly`
  (`predict.go:41`) select `WHERE is_active = true`, and the column is `active`
  (`migrations/0002_create_platform_tables.up.sql:43`); no migration adds the other. The
  digest also reads tables no migration creates. Both tasks fail, are retried and archived.

Not modelled:

* Digest and prediction, for that reason. The monthly snapshot: one sequential pass with
  a calendar computation (`AddDate(0, -1, 0)` on the 29th to 31st may stay in the month)
  and an upsert that a retry repeats with a newer window.
* Wording, payloads and destinations' formats; parsing; logging and metrics.
* That a lease may expire while the worker still runs the handler: it needs a worker
  cut off from Redis but not from the database.
* Reads that depend on the wall clock within a window (a deploy leaves the window as
  time passes): in `AlertDetection` the measured tier is any tier.
* GitLab timestamps that tie to the millisecond.
* External services, secret stores and reliability providers: one remote read per
  call, no state.
* Gamification, anti-gaming and subcomponents: pure functions of what is stored, shown and
  stored nowhere.
* The frontend, the read-only API and the export.

## 6. Plan

The parts of the system that keep state are modelled, and every safety invariant and
action property the runs check is proved. What could follow:

1. `People`, `AlertDetection`: action properties on what a step never overwrites.
2. `AlertDispatch`: the keys under which PagerDuty and Opsgenie open and resolve an
   incident, with a history of what is open at the destination.
3. The monthly snapshot, with the calendar computation and the upsert a retry repeats.
