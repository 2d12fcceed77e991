----------------------------- MODULE Scheduling ------------------------------
(***************************************************************************)
(* What makes collections run: the catalogue of source instances and       *)
(* projects (internal/api/source_instances.go, cmd/cli), the scheduler of  *)
(* cmd/worker, the fan-out of scan:active_projects and reconcile:projects, *)
(* the webhooks of internal/api, the queue, and the workers that take a    *)
(* collection up to what it stores.                                        *)
(*                                                                         *)
(* Rows are deleted while their tasks wait or run, enqueueing may fail     *)
(* where nobody is told, attempts fail, die, are repeated a few times and  *)
(* then given up; one with an invalid production_env_pattern is given up   *)
(* at its first attempt.  What one collection finds and stores is the     *)
(* subject of Collection and IncidentCollection: here, one that completes  *)
(* stores everything that had changed when it asked.                       *)
(***************************************************************************)
EXTENDS Integers, Sequences, FiniteSets

CONSTANTS
  Instances, Kind, TenantOf,   \* source instances, "gitlab" or "jira", and their tenants
  Projects, Home, ExternalID,  \* projects, their instance, one of GitLab, and id there
  Installed,                   \* rows of the installation, oldest first
  Workers,                     \* Concurrency
  MaxRetry,                    \* of a collection, three
  MaxChanges, MaxEdits, MaxFaults   \* bounds

ASSUME SchedulingAssumption ==
  /\ Kind \in [Instances -> {"gitlab", "jira"}]
  /\ Home \in [Projects -> {i \in Instances : Kind[i] = "gitlab"}]
  /\ Installed \in Seq(Instances \cup Projects)
  /\ \A n \in DOMAIN Installed :   \* the foreign key of the table project
       Installed[n] \in Projects => \E k \in DOMAIN Installed : Installed[k] = Home[Installed[n]]
  /\ Instances \cap Projects = {}
  /\ IsFiniteSet(Instances)
  /\ {MaxRetry, MaxChanges, MaxEdits, MaxFaults} \subseteq Nat

Kinds == {"gitlab", "jira"}

VARIABLES
  created,   \* source instances and projects ever created, oldest first
  gone,      \* those deleted; ids are never used again
  active,    \* projects whose column active is true
  keyed,     \* projects whose column jira_project_keys is not empty
  invalid,   \* projects whose column production_env_pattern does not compile
  misset,    \* history: projects that have ever been in `invalid'
  pending,   \* <<kind, project>> with a change that is not stored
  queue,     \* tasks waiting; tasks alike are kept once
  worker,    \* where each worker is and what it holds
  archived,  \* <<kind, project>> of the collections given up
  changes, edits, faults

catalogue == <<created, gone, active, keyed, invalid, misset, edits>>
bounds    == <<changes, faults>>
vars == <<catalogue, pending, queue, worker, archived, bounds>>

-----------------------------------------------------------------------------
Created(id) == \E n \in DOMAIN created : created[n] = id

\* The row is there.
Exists(id) == Created(id) /\ id \notin gone

Idle == [pc |-> "idle"]

\* Tasks: one collection of a project, or a tick of the scheduler.  The ticks of
\* scan and of reconcile differ in how far back the collections look, only.
NewTask(kind, p) == [kind |-> kind, project |-> p, failed |-> 0]
TickTask         == [kind |-> "tick"]

Fault == faults < MaxFaults /\ faults' = faults + 1
Edit  == edits < MaxEdits /\ edits' = edits + 1

Init ==
  /\ created = Installed /\ gone = {}
  /\ active = {p \in Projects : Exists(p)}
  /\ keyed \in SUBSET active
  /\ invalid \in SUBSET active /\ misset = invalid
  /\ pending = {}
  /\ queue = {} /\ archived = {}
  /\ worker = [w \in Workers |-> Idle]
  /\ changes = 0 /\ edits = 0 /\ faults = 0

-----------------------------------------------------------------------------
(* The catalogue.                                                           *)

\* POST /source-instances, source-instance add.
CreateSourceInstance(i) ==
  /\ ~Created(i)
  /\ created' = Append(created, i)
  /\ UNCHANGED <<gone, active, keyed, invalid, misset, edits, pending, queue, worker, archived, bounds>>

\* project add: active, without Jira keys, in an instance of the tenant, with any
\* text as the pattern.
CreateProject(p) ==
  /\ ~Created(p) /\ Exists(Home[p])
  /\ created' = Append(created, p)
  /\ active' = active \cup {p}
  /\ invalid' \in {invalid, invalid \cup {p}} /\ misset' = misset \cup invalid'
  /\ UNCHANGED <<gone, keyed, edits, pending, queue, worker, archived, bounds>>

\* No code sets these columns after the INSERT; an operator does, by SQL.
SetColumns(p) ==
  /\ Exists(p) /\ Edit
  /\ \/ active' = (active \cup {p}) \ (active \cap {p}) /\ UNCHANGED <<keyed, invalid>>
     \/ keyed' = (keyed \cup {p}) \ (keyed \cap {p}) /\ UNCHANGED <<active, invalid>>
     \/ invalid' = (invalid \cup {p}) \ (invalid \cap {p}) /\ UNCHANGED <<active, keyed>>
  /\ misset' = misset \cup invalid'
  /\ UNCHANGED <<created, gone, pending, queue, worker, archived, bounds>>

\* DELETE /source-instances/{id}: the projects of a GitLab instance, and the
\* incidents of a Jira one, go with it.  Tasks stay in the queue.
DeleteSourceInstance(i) ==
  /\ Exists(i) /\ Edit
  /\ LET dead == {i} \cup {p \in Projects : Exists(p) /\ Home[p] = i} IN
     /\ gone' = gone \cup dead
     /\ active' = active \ dead /\ keyed' = keyed \ dead /\ invalid' = invalid \ dead
     /\ pending' = {c \in pending : c[2] \notin dead}
  /\ UNCHANGED <<created, misset, queue, worker, archived, bounds>>

\* Something changes at a provider.
Change(kind, p) ==
  /\ Exists(p) /\ changes < MaxChanges
  /\ changes' = changes + 1
  /\ pending' = pending \cup {<<kind, p>>}
  /\ worker' = [w \in Workers |->
       IF worker[w].pc = "fetched" /\ worker[w].task.kind = kind /\ worker[w].task.project = p
       THEN [worker[w] EXCEPT !.fresh = FALSE] ELSE worker[w]]
  /\ UNCHANGED <<catalogue, queue, archived, faults>>

-----------------------------------------------------------------------------
(* What enqueues.                                                           *)

\* A definition marked "Wrong variant" belongs to no behaviour: put in the place
\* of the one after it, it breaks a property.

\* Wrong variant: tasks have an id of their own, taken by one that was given up.
EnqueueByID(task) ==
  queue' = IF task # TickTask /\ <<task.kind, task.project>> \in archived
           THEN queue ELSE queue \cup {task}

Enqueue(task) == queue' = queue \cup {task}

\* A failure to enqueue is logged, and that is all.
TryEnqueue(task) == (Enqueue(task) /\ UNCHANGED faults) \/ (Fault /\ UNCHANGED queue)

\* The scheduler: every five minutes, and at 03:00.
Tick ==
  /\ TickTask \notin queue
  /\ Enqueue(TickTask)
  /\ UNCHANGED <<catalogue, pending, worker, archived, bounds>>

\* collect now looks the project up first.
CollectNow(p) ==
  /\ Exists(p) /\ NewTask("gitlab", p) \notin queue
  /\ Enqueue(NewTask("gitlab", p))
  /\ UNCHANGED <<catalogue, pending, worker, archived, bounds>>

Oldest(S) ==
  {id \in S : \E n \in DOMAIN created : created[n] = id /\ \A k \in 1..n-1 : created[k] \notin S}

\* The oldest project with the id in any GitLab instance, active or not.
GetGitLabProjectByExternalID(x) == Oldest({p \in Projects : Exists(p) /\ ExternalID[p] = x})

\* A webhook about a change of p, which may come late, again or not at all, and is
\* answered 200 whatever happens.
GitLabWebhook(p) ==
  /\ <<"gitlab", p>> \in pending
  /\ \E q \in GetGitLabProjectByExternalID(ExternalID[p]) :
       NewTask("gitlab", q) \notin queue /\ TryEnqueue(NewTask("gitlab", q))
  /\ UNCHANGED <<catalogue, pending, worker, archived, changes>>

\* Jira's go to the active projects with the key: here one key for all.
ListActiveProjectsByJiraProjectKey == active \cap keyed

JiraWebhook(p) ==
  /\ \E q \in Projects : <<"jira", q>> \in pending
  /\ p \in ListActiveProjectsByJiraProjectKey
  /\ NewTask("jira", p) \notin queue /\ TryEnqueue(NewTask("jira", p))
  /\ UNCHANGED <<catalogue, pending, worker, archived, changes>>

-----------------------------------------------------------------------------
(* The workers.                                                             *)

Done(w) == worker' = [worker EXCEPT ![w] = Idle] /\ UNCHANGED <<queue, archived>>

\* To the archived tasks.
GiveUp(w, task) ==
  /\ worker' = [worker EXCEPT ![w] = Idle]
  /\ archived' = archived \cup {<<task.kind, task.project>>}
  /\ UNCHANGED queue

\* An attempt that ends in an error is repeated MaxRetry times, a tick never.
Failed(w, task) ==
  \/ task = TickTask /\ Done(w)
  \/ task # TickTask /\ task.failed = MaxRetry /\ GiveUp(w, task)
  \/ /\ task # TickTask /\ task.failed < MaxRetry
     /\ worker' = [worker EXCEPT ![w] = Idle]
     /\ queue' = queue \cup {[task EXCEPT !.failed = @ + 1]}
     /\ UNCHANGED archived

\* Takes a task out of the queue on top of what the handler does with it.
Taken(task) == queue \ {task}

ListActiveProjects == active

FanOutTasks ==
  {NewTask("gitlab", p) : p \in ListActiveProjects}
  \cup {NewTask("jira", p) : p \in ListActiveProjects \cap keyed}

\* HandleScanActiveProjects and HandleReconcileAll: the projects are listed once,
\* and enqueued one after the other; here, in any order.
TakeTick(w) ==
  /\ worker[w] = Idle /\ TickTask \in queue
  /\ queue' = Taken(TickTask)
  /\ worker' = [worker EXCEPT ![w] = [pc |-> "fanning", task |-> TickTask, todo |-> FanOutTasks]]
  /\ UNCHANGED <<catalogue, pending, archived, bounds>>

FanOut(w) ==
  /\ worker[w].pc = "fanning"
  /\ \E task \in worker[w].todo :
       /\ TryEnqueue(task)
       /\ worker' = [worker EXCEPT ![w].todo = @ \ {task}]
  /\ UNCHANGED <<catalogue, pending, archived, changes>>

FanOutDone(w) ==
  /\ worker[w].pc = "fanning" /\ worker[w].todo = {}
  /\ Done(w)
  /\ UNCHANGED <<catalogue, pending, bounds>>

\* Wrong variant: a project that is not there is an error.
SkipsNever(task) == FALSE

\* GetProject finds nothing, or the project has no Jira keys: the task is dropped.
Skips(task) == ~Exists(task.project) \/ (task.kind = "jira" /\ task.project \notin keyed)

\* regexp.Compile refuses the pattern: asynq.SkipRetry.  The payloads, which end
\* an attempt the same way when they do not parse, are those the program wrote.
SkipRetry(task) == task.kind = "gitlab" /\ task.project \in invalid

\* The first query of HandleCollectGitlab and HandleCollectJira: the row is read
\* once, with the pattern, which HandleCollectGitlab compiles later.
GetProject(w, task) ==
  /\ worker[w] = Idle /\ task \in queue /\ task # TickTask
  /\ queue' = Taken(task)
  /\ worker' = [worker EXCEPT ![w] =
                  IF Skips(task) THEN Idle
                  ELSE [pc |-> "loaded", task |-> task, skip |-> SkipRetry(task)]]
  /\ UNCHANGED <<catalogue, pending, archived, bounds>>

\* The instance of the project, or the tenant's first of Jira.
InstanceOf(task) ==
  IF task.kind = "gitlab" THEN {i \in {Home[task.project]} : Exists(i)}
  ELSE Oldest({i \in Instances : Exists(i) /\ Kind[i] = "jira"
                                 /\ TenantOf[i] = TenantOf[Home[task.project]]})

\* No instance is an error for GitLab, and ends the task for Jira.  Then the
\* pattern is compiled, and the provider is asked.
Fetch(w) ==
  /\ worker[w].pc = "loaded"
  /\ LET task == worker[w].task IN
     \/ \E i \in InstanceOf(task) :
          /\ ~worker[w].skip
          /\ worker' = [worker EXCEPT ![w] = [pc |-> "fetched", task |-> task, instance |-> i,
                                             fresh |-> TRUE]]
          /\ UNCHANGED <<queue, archived>>
     \/ InstanceOf(task) # {} /\ worker[w].skip /\ GiveUp(w, task)
     \/ InstanceOf(task) = {} /\ task.kind = "gitlab" /\ Failed(w, task)
     \/ InstanceOf(task) = {} /\ task.kind = "jira" /\ Done(w)
  /\ UNCHANGED <<catalogue, pending, bounds>>

\* The rows are stored; their foreign keys are of the project and the instance.
Store(w) ==
  /\ worker[w].pc = "fetched"
  /\ LET task == worker[w].task IN
     IF Exists(task.project) /\ Exists(worker[w].instance)
     THEN /\ Done(w)
          /\ pending' = IF worker[w].fresh THEN pending \ {<<task.kind, task.project>>} ELSE pending
     ELSE Failed(w, task) /\ UNCHANGED pending
  /\ UNCHANGED <<catalogue, bounds>>

\* A secret, a request or a statement fails, or the worker dies and its lease
\* expires.
AttemptFails(w) ==
  /\ worker[w] # Idle /\ Fault
  /\ Failed(w, worker[w].task)
  /\ UNCHANGED <<catalogue, pending, changes>>

-----------------------------------------------------------------------------
Catalogue ==
  \/ \E i \in Instances : CreateSourceInstance(i) \/ DeleteSourceInstance(i)
  \/ \E p \in Projects : CreateProject(p) \/ SetColumns(p)
  \/ \E kind \in Kinds, p \in Projects : Change(kind, p)

Step(w) == FanOut(w) \/ FanOutDone(w) \/ Fetch(w) \/ Store(w)

Take(w, kind, p) == \E task \in queue \ {TickTask} : task.kind = kind /\ task.project = p /\ GetProject(w, task)

Next ==
  \/ Catalogue
  \/ Tick \/ \E w \in Workers : TakeTick(w)
  \/ \E p \in Projects : CollectNow(p) \/ GitLabWebhook(p) \/ JiraWebhook(p)
  \/ \E w \in Workers, kind \in Kinds, p \in Projects : Take(w, kind, p)
  \/ \E w \in Workers : Step(w) \/ AttemptFails(w)

\* The scheduler ticks, attempts end, and no queue is starved: asynq takes from
\* the three queues in proportion to their weights, each in order.
Fairness ==
  /\ WF_vars(Tick)
  /\ SF_vars(\E w \in Workers : TakeTick(w))
  /\ \A kind \in Kinds, p \in Projects : SF_vars(\E w \in Workers : Take(w, kind, p))
  /\ \A w \in Workers : WF_vars(Step(w))

Spec == Init /\ [][Next]_vars /\ Fairness

-----------------------------------------------------------------------------
(* Properties.                                                              *)

\* Whether the program still has to collect the project.
Collectable(kind, p) ==
  /\ p \in active
  /\ kind = "gitlab" => p \notin invalid
  /\ kind = "jira" => p \in keyed /\ InstanceOf(NewTask("jira", p)) # {}

Tasks == [kind : Kinds, project : Projects, failed : 0..MaxRetry]

FreshTasks == {NewTask(kind, p) : kind \in Kinds, p \in Projects}

WorkerStates ==
  {Idle}
  \cup [pc : {"fanning"}, task : {TickTask}, todo : SUBSET FreshTasks]
  \cup [pc : {"loaded"}, task : Tasks, skip : BOOLEAN]
  \cup [pc : {"fetched"}, task : Tasks, instance : Instances, fresh : BOOLEAN]

TypeOK ==
  /\ created \in Seq(Instances \cup Projects) /\ gone \subseteq Instances \cup Projects
  /\ active \subseteq Projects /\ keyed \subseteq Projects
  /\ invalid \subseteq Projects /\ misset \subseteq Projects
  /\ pending \subseteq Kinds \X Projects /\ archived \subseteq Kinds \X Projects
  /\ queue \subseteq Tasks \cup {TickTask}
  /\ worker \in [Workers -> WorkerStates]
  /\ changes \in 0..MaxChanges /\ edits \in 0..MaxEdits /\ faults \in 0..MaxFaults

\* A change at an active project reaches the tables, whatever is lost, fails, dies
\* or is given up on the way, as long as failures end: unless the project is
\* deleted or put out of collection, by an invalid pattern too.
ChangesCollected ==
  \A kind \in Kinds, p \in Projects :
    <<kind, p>> \in pending /\ Collectable(kind, p)
      ~> <<kind, p>> \notin pending \/ ~Collectable(kind, p)

\* Deleting an instance costs a task one attempt at most, and an invalid pattern is
\* the collection's of GitLab only: one that is given up had it at some time, or
\* failed often enough, never because what it was to collect is gone.
GivenUpForFailures ==
  \A c \in archived :
    \/ c[1] = "gitlab" /\ c[2] \in misset
    \/ faults + Cardinality(gone \cap Instances) > MaxRetry
=============================================================================
