--------------------------- MODULE AlertDetection ---------------------------
(***************************************************************************)
(* Detection of tier changes: the compute:metric_window task              *)
(* (HandleComputeMetricWindow and fanOutAlertsForTierChange in             *)
(* internal/collector/handlers.go), the alert rules the API edits          *)
(* (internal/api/alerts.go) and the tables metric_window, alert_rule and   *)
(* alert_event they share.                                                 *)
(*                                                                         *)
(* Nothing serialises two computations of the same window: the five minute *)
(* scan, the nightly reconciliation, the webhooks and the CLI all start    *)
(* collections, each collection enqueues its own computations, and the     *)
(* worker runs several tasks at a time.  Every database access is          *)
(* therefore an action of its own, and a crash or an error may fall        *)
(* between any two of them.  The task is retried by asynq.                 *)
(***************************************************************************)
EXTENDS DoraTiers, Sequences, FiniteSets

CONSTANTS
  Projects, Tenants,
  TenantOf,      \* the tenant of each project
  Windows,       \* lengths of the rolling windows, in days
  RuleIds,
  RuleValues,    \* the alert rules that requests to the API may describe
  NoRule,        \* an identifier with no rule behind it
  AnyScope,      \* alert_rule.scope_id IS NULL
  Jobs,          \* compute tasks ever enqueued
  Outcomes,      \* classifications the measured data may lead to
  MaxRetry,      \* asynq.MaxRetry of the task
  Concurrency,   \* values of asynq.Config.Concurrency, summed over the workers
  MaxFaults,     \* bound: crashes and failed calls in a behaviour
  MaxRuleOps     \* bound: requests that edit rules or projects

RuleRec == [tenant : Tenants, enabled : BOOLEAN, kind : RuleKind,
            scopeKind : {"project", "team", "tenant"},
            scopeId : Projects \cup {AnyScope}, window : Windows]

ASSUME DetectionAssumption ==
  /\ TenantOf \in [Projects -> Tenants]
  /\ RuleValues \subseteq RuleRec
  /\ NoRule \notin RuleRec
  /\ AnyScope \notin Projects
  /\ Outcomes \subseteq Tier
  /\ Concurrency \subseteq Nat /\ MaxRetry \in Nat /\ MaxFaults \in Nat /\ MaxRuleOps \in Nat

VARIABLES
  live,        \* projects that exist
  rules,       \* alert_rule
  retired,     \* identifiers of deleted rules; a UUID is never reused
  rows,        \* metric_window, in the order of computed_at
  events,      \* alert_event, without its delivery columns
  nextEvent,   \* the identifier the next event gets
  dispatched,  \* events whose dispatch:alert task reached the queue
  workers,     \* tasks that may run at a time, fixed when the workers start
  jobs,        \* the compute tasks and, while one runs, its handler's locals
  faults, ruleOps   \* counters for the two bounds

ruleVars == <<live, rules, retired, ruleOps, workers>>
vars == <<live, rules, retired, rows, events, nextEvent, dispatched, workers, jobs,
          faults, ruleOps>>

-----------------------------------------------------------------------------
(* Tables and locals.  A definition marked "Wrong variant" belongs to no     *)
(* behaviour: put in the place of the one after it, it breaks a property.    *)

Rows == [project : Projects, window : Windows, tier : Tier, basis : Nat]

Events == [id : Nat, rule : RuleIds, row : Nat, kind : RuleKind, prev : Tier \cup {NoTier}]

\* A rule as the fan-out holds it: read once, then used for every insert.
Matches == [rule : RuleIds, kind : RuleKind]

Pending == {"new", "queued", "done", "archived"}
Running == {"read", "matching", "inserting", "enqueueing"}

JobRec == [pc : Pending \cup Running, project : Projects, window : Windows,
           prev : Tier \cup {NoTier}, basis : Nat, row : Nat,
           todo : SUBSET Matches, event : Nat, retried : 0..MaxRetry]

SameScope(i, k) == rows[i].project = rows[k].project /\ rows[i].window = rows[k].window

\* Wrong variant: the newest row of any scope.
LatestRowOfAny(p, w, n) == n

\* The newest row of a scope among the first n, 0 when there is none.
LatestRow(p, w, n) ==
  LET of == {i \in 1..n : rows[i].project = p /\ rows[i].window = w}
  IN  IF of = {} THEN 0 ELSE CHOOSE i \in of : \A k \in of : k <= i

Active == {j \in Jobs : jobs[j].pc \in Running}

Init ==
  /\ live = Projects
  /\ rules \in [RuleIds -> RuleValues \cup {NoRule}]
  /\ retired = {} /\ rows = << >> /\ events = {} /\ nextEvent = 1
  /\ dispatched = {} /\ workers \in Concurrency /\ faults = 0 /\ ruleOps = 0
  /\ \E target \in [Jobs -> Projects \X Windows] :
       jobs = [j \in Jobs |-> [pc |-> "new", project |-> target[j][1],
                               window |-> target[j][2], prev |-> NoTier, basis |-> 0,
                               row |-> 0, todo |-> {}, event |-> 0, retried |-> 0]]

Fault == faults < MaxFaults /\ faults' = faults + 1

-----------------------------------------------------------------------------
(***************************************************************************)
(* The task in its queue.  An attempt that ends in an error, or whose      *)
(* worker died, is put back until the retries are used up; the locals of   *)
(* the attempt are lost.                                                   *)
(***************************************************************************)

\* The end of a collection, or the CLI, enqueues the computation of a window.
EnqueueCompute(j) ==
  /\ jobs[j].pc = "new"
  /\ jobs' = [jobs EXCEPT ![j].pc = "queued"]
  /\ UNCHANGED <<ruleVars, rows, events, nextEvent, dispatched, faults>>

Forget(j, pc, retried) ==
  jobs' = [jobs EXCEPT ![j] = [@ EXCEPT !.pc = pc, !.prev = NoTier, !.basis = 0, !.row = 0,
                                        !.todo = {}, !.event = 0, !.retried = retried]]

Succeed(j) == Forget(j, "done", jobs[j].retried)

\* Wrong variant: an attempt counts twice, as it starts and as it fails.
GiveBackTwice(j) ==
  IF jobs[j].retried < MaxRetry
  THEN Forget(j, "queued", jobs[j].retried + 2)
  ELSE Forget(j, "archived", jobs[j].retried)

GiveBack(j) ==
  IF jobs[j].retried < MaxRetry
  THEN Forget(j, "queued", jobs[j].retried + 1)
  ELSE Forget(j, "archived", jobs[j].retried)

\* The worker dies, or the outcome of an attempt never reaches Redis: the lease
\* expires and the task is taken for one that failed.
CrashCompute(j) ==
  /\ jobs[j].pc \in Running \cup {"done"}
  /\ Fault
  /\ GiveBack(j)
  /\ UNCHANGED <<ruleVars, rows, events, nextEvent, dispatched>>

-----------------------------------------------------------------------------
(* HandleComputeMetricWindow.                                               *)

\* Wrong variant: computations start however many run.
MayStartAnyway(j) == jobs[j].pc = "queued"

MayStart(j) == jobs[j].pc = "queued" /\ Cardinality(Active) < workers

\* The project is gone: the task succeeds without doing anything.
SkipMissingProject(j) ==
  /\ MayStart(j)
  /\ jobs[j].project \notin live
  /\ Succeed(j)
  /\ UNCHANGED <<ruleVars, rows, events, nextEvent, dispatched, faults>>

\* GetLatestMetricWindow, before anything is written.
ReadPrevious(j) ==
  LET i == LatestRow(jobs[j].project, jobs[j].window, Len(rows)) IN
  /\ MayStart(j)
  /\ jobs[j].project \in live
  /\ jobs' = [jobs EXCEPT ![j].pc = "read", ![j].basis = i,
                          ![j].prev = IF i = 0 THEN NoTier ELSE rows[i].tier]
  /\ UNCHANGED <<ruleVars, rows, events, nextEvent, dispatched, faults>>

\* That read fails: a warning is logged and the task goes on with no tier.
MissPrevious(j) ==
  /\ MayStart(j)
  /\ jobs[j].project \in live
  /\ Fault
  /\ jobs' = [jobs EXCEPT ![j].pc = "read"]
  /\ UNCHANGED <<ruleVars, rows, events, nextEvent, dispatched>>

\* The aggregate queries and the insert of the new row, which is stamped with
\* computed_at as the insert is sent.  The measured data is whatever the
\* collectors left, so any outcome may come of it.
RecordWindow(j, tier) ==
  /\ jobs[j].pc = "read"
  /\ rows' = Append(rows, [project |-> jobs[j].project, window |-> jobs[j].window,
                           tier |-> tier, basis |-> jobs[j].basis])
  /\ IF IsChange(jobs[j].prev, tier)
     THEN jobs' = [jobs EXCEPT ![j].pc = "matching", ![j].row = Len(rows) + 1]
     ELSE Succeed(j)
  /\ UNCHANGED <<ruleVars, events, nextEvent, dispatched, faults>>

\* One of those queries, or the insert, returns an error.
ComputeFails(j) ==
  /\ \/ jobs[j].pc = "read"
     \/ MayStart(j)                \* GetProject itself
  /\ Fault
  /\ GiveBack(j)
  /\ UNCHANGED <<ruleVars, rows, events, nextEvent, dispatched>>

-----------------------------------------------------------------------------
(***************************************************************************)
(* fanOutAlertsForTierChange.  Its errors are logged and swallowed: the    *)
(* rule is skipped, or the event stays without a task, and the compute     *)
(* task still succeeds.                                                    *)
(***************************************************************************)

\* FindMatchingAlertRules and the filter on the rule's kind.
Matching(p, w, previous, current) ==
  {r \in RuleIds :
     /\ rules[r] # NoRule
     /\ rules[r].enabled
     /\ rules[r].tenant = TenantOf[p]
     /\ rules[r].scopeKind = "project"
     /\ rules[r].window = w
     /\ rules[r].scopeId \in {AnyScope, p}
     /\ RuleMatchesChange(rules[r].kind, previous, current)}

\* Wrong variant: the loop is left after one rule.
ContinueOnce(j, todo) ==
  IF todo = {} \/ jobs[j].pc # "matching" THEN Succeed(j)
  ELSE jobs' = [jobs EXCEPT ![j].pc = "inserting", ![j].todo = todo]

\* Go to the next rule, or leave the loop and the handler.
Continue(j, todo) ==
  IF todo = {} THEN Succeed(j)
  ELSE jobs' = [jobs EXCEPT ![j].pc = "inserting", ![j].todo = todo, ![j].event = 0]

MatchRules(j) ==
  /\ jobs[j].pc = "matching"
  /\ LET found == Matching(jobs[j].project, jobs[j].window, jobs[j].prev,
                           rows[jobs[j].row].tier)
     IN  Continue(j, {[rule |-> r, kind |-> rules[r].kind] : r \in found})
  /\ UNCHANGED <<ruleVars, rows, events, nextEvent, dispatched, faults>>

MatchRulesFails(j) ==
  /\ jobs[j].pc = "matching"
  /\ Fault
  /\ Succeed(j)
  /\ UNCHANGED <<ruleVars, rows, events, nextEvent, dispatched>>

\* Wrong variant: the rule stays among those to be served.
InsertEventAgain(j, m) ==
  /\ jobs[j].pc = "inserting" /\ m \in jobs[j].todo /\ rules[m.rule] # NoRule
  /\ events' = events \cup {[id |-> nextEvent, rule |-> m.rule, row |-> jobs[j].row,
                             kind |-> m.kind, prev |-> jobs[j].prev]}
  /\ nextEvent' = nextEvent + 1
  /\ jobs' = [jobs EXCEPT ![j].pc = "enqueueing", ![j].event = nextEvent]
  /\ UNCHANGED <<ruleVars, rows, dispatched, faults>>

\* The foreign key holds: the rule may have been deleted since it was read.
InsertEvent(j, m) ==
  /\ jobs[j].pc = "inserting" /\ m \in jobs[j].todo
  /\ rules[m.rule] # NoRule
  /\ events' = events \cup {[id |-> nextEvent, rule |-> m.rule, row |-> jobs[j].row,
                             kind |-> m.kind, prev |-> jobs[j].prev]}
  /\ nextEvent' = nextEvent + 1
  /\ jobs' = [jobs EXCEPT ![j].pc = "enqueueing", ![j].event = nextEvent,
                          ![j].todo = @ \ {m}]
  /\ UNCHANGED <<ruleVars, rows, dispatched, faults>>

\* The foreign key refuses the event, or the insert fails for another reason.
InsertEventFails(j, m) ==
  /\ jobs[j].pc = "inserting" /\ m \in jobs[j].todo
  /\ \/ rules[m.rule] = NoRule /\ UNCHANGED faults
     \/ rules[m.rule] # NoRule /\ Fault
  /\ Continue(j, jobs[j].todo \ {m})
  /\ UNCHANGED <<ruleVars, rows, events, nextEvent, dispatched>>

\* Wrong variant: the task is that of the last event anyone inserted.
EnqueueDispatchOfLast(j) ==
  /\ jobs[j].pc = "enqueueing"
  /\ dispatched' = dispatched \cup {nextEvent - 1}
  /\ Continue(j, jobs[j].todo)
  /\ UNCHANGED <<ruleVars, rows, events, nextEvent, faults>>

EnqueueDispatch(j) ==
  /\ jobs[j].pc = "enqueueing"
  /\ dispatched' = dispatched \cup {jobs[j].event}
  /\ Continue(j, jobs[j].todo)
  /\ UNCHANGED <<ruleVars, rows, events, nextEvent, faults>>

\* The call to Redis fails, before or after Redis took the task.
EnqueueDispatchFails(j) ==
  /\ jobs[j].pc = "enqueueing"
  /\ Fault
  /\ dispatched' \in {dispatched, dispatched \cup {jobs[j].event}}
  /\ Continue(j, jobs[j].todo)
  /\ UNCHANGED <<ruleVars, rows, events, nextEvent>>

-----------------------------------------------------------------------------
(* The API's requests.                                                      *)

RuleOp == ruleOps < MaxRuleOps /\ ruleOps' = ruleOps + 1

CreateRule(r, v) ==
  /\ rules[r] = NoRule /\ r \notin retired
  /\ RuleOp
  /\ rules' = [rules EXCEPT ![r] = v]
  /\ UNCHANGED <<live, retired, rows, events, nextEvent, dispatched, workers, jobs, faults>>

\* Every column is COALESCEd with its old value: the tenant is not a parameter,
\* and a rule bound to one scope cannot be widened to all of them again.
UpdateRule(r, v) ==
  /\ rules[r] # NoRule
  /\ v.tenant = rules[r].tenant
  /\ rules[r].scopeId # AnyScope => v.scopeId # AnyScope
  /\ RuleOp
  /\ rules' = [rules EXCEPT ![r] = v]
  /\ UNCHANGED <<live, retired, rows, events, nextEvent, dispatched, workers, jobs, faults>>

\* Wrong variant: no ON DELETE CASCADE.
DeleteRuleAlone(r) ==
  /\ rules[r] # NoRule
  /\ RuleOp
  /\ rules' = [rules EXCEPT ![r] = NoRule]
  /\ retired' = retired \cup {r}
  /\ UNCHANGED <<live, rows, events, nextEvent, dispatched, workers, jobs, faults>>

\* ON DELETE CASCADE takes the rule's events with it.
DeleteRule(r) ==
  /\ rules[r] # NoRule
  /\ RuleOp
  /\ rules' = [rules EXCEPT ![r] = NoRule]
  /\ retired' = retired \cup {r}
  /\ events' = {ev \in events : ev.rule # r}
  /\ UNCHANGED <<live, rows, nextEvent, dispatched, workers, jobs, faults>>

\* Deleting a source instance removes its projects.
RemoveProject(p) ==
  /\ p \in live
  /\ RuleOp
  /\ live' = live \ {p}
  /\ UNCHANGED <<rules, retired, rows, events, nextEvent, dispatched, workers, jobs, faults>>

-----------------------------------------------------------------------------
\* What the worker does for a task when nothing goes wrong.
Work(j) ==
  \/ SkipMissingProject(j)
  \/ ReadPrevious(j)
  \/ \E tier \in Outcomes : RecordWindow(j, tier)
  \/ MatchRules(j)
  \/ \E m \in jobs[j].todo : InsertEvent(j, m) \/ InsertEventFails(j, m)
  \/ EnqueueDispatch(j)

Faulty(j) ==
  \/ CrashCompute(j) \/ MissPrevious(j) \/ ComputeFails(j)
  \/ MatchRulesFails(j) \/ EnqueueDispatchFails(j)

Requests ==
  \E r \in RuleIds :
    \/ \E v \in RuleValues : CreateRule(r, v) \/ UpdateRule(r, v)
    \/ DeleteRule(r)

Next ==
  \/ \E j \in Jobs : EnqueueCompute(j) \/ Work(j) \/ Faulty(j)
  \/ Requests
  \/ \E p \in Projects : RemoveProject(p)

Spec == Init /\ [][Next]_vars

-----------------------------------------------------------------------------
(* Properties.                                                              *)

TypeOK ==
  /\ live \subseteq Projects
  /\ rules \in [RuleIds -> RuleRec \cup {NoRule}]
  /\ retired \subseteq RuleIds
  /\ rows \in Seq(Rows)
  /\ events \subseteq Events
  /\ nextEvent \in Nat \ {0}
  /\ dispatched \subseteq Nat
  /\ workers \in Concurrency
  /\ jobs \in [Jobs -> JobRec]
  /\ faults \in 0..MaxFaults
  /\ ruleOps \in 0..MaxRuleOps

\* An alert is never invented.  However computations, retries, rule edits and
\* crashes interleave, the row an event came from follows, in the table, the
\* row of the same scope its job had read; that row carries the event's
\* previous tier, and the pair is one the rule's kind asks for.
EventsWitnessed ==
  \A ev \in events :
    /\ ev.row \in 1..Len(rows)
    /\ LET b == rows[ev.row].basis IN
       /\ b \in 1..(ev.row - 1)
       /\ SameScope(b, ev.row)
       /\ rows[b].tier = ev.prev
       /\ RuleMatchesChange(ev.kind, ev.prev, rows[ev.row].tier)

\* A row of metric_window alerts a rule at most once: a retried or redelivered
\* computation writes a row of its own and never fans out an earlier one.
OneEventPerRowAndRule ==
  \A e1, e2 \in events :
    e1.row = e2.row /\ e1.rule = e2.rule => e1 = e2

\* The history shows events of existing rules only, and only of rules of the
\* project's own tenant, although rules are edited and deleted while a fan-out
\* works on a list it read earlier.
EventsOfOwnTenant ==
  \A ev \in events :
    /\ rules[ev.rule] # NoRule
    /\ rules[ev.rule].tenant = TenantOf[rows[ev.row].project]

\* A dispatch task carries an identifier that was inserted before, and as long
\* as no call failed and no worker died, no event stays behind without one: its
\* task is in the queue or its own job is about to put it there.
EventsGetTheirTask ==
  /\ dispatched \subseteq 1..(nextEvent - 1)
  /\ faults = 0 =>
       \A ev \in events :
         \/ ev.id \in dispatched
         \/ \E j \in Jobs : jobs[j].pc = "enqueueing" /\ jobs[j].event = ev.id

\* The row of the same scope just before row i, 0 when i is the first.
Before(i) == LatestRow(rows[i].project, rows[i].window, i - 1)

\* docs/05-architecture.md:85 bases alerts on changes of state, to avoid spam.
\* Each event reports a step of the stored series: the tier it calls previous is
\* that of the row just before its own, so one row only announces a transition.
StepsOfTheSeries == \A ev \in events : rows[ev.row].basis = Before(ev.row)

\* It is so as long as one computation runs at a time, crashes included.
SerialStepsOfTheSeries == workers = 1 => StepsOfTheSeries

\* Row i is behind its job: the fan-out of i is over.
FannedOut(i) == \A j \in Jobs : jobs[j].row # i

IsTransition(i) == Before(i) # 0 /\ IsChange(rows[Before(i)].tier, rows[i].tier)

Alerted(i, r) == \E ev \in events : ev.row = i /\ ev.rule = r /\ ev.id \in dispatched

\* With one worker, no failure and no rule edited meanwhile, no transition of
\* the stored series is missed: every rule that covers it has an event, and
\* the event has its dispatch task, once the fan-out of the row is over.
TransitionsAlerted ==
  workers = 1 /\ faults = 0 /\ ruleOps = 0 =>
    \A i \in 1..Len(rows) : IsTransition(i) /\ FannedOut(i) =>
      \A r \in Matching(rows[i].project, rows[i].window, rows[Before(i)].tier, rows[i].tier) :
        Alerted(i, r)
=============================================================================
