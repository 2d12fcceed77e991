--------------------------- MODULE Projects_proofs ---------------------------
(***************************************************************************)
(* Proofs about what a project goes through between two collections and    *)
(* once it is measured: the tasks that collect it (Scheduling), the tier   *)
(* of its window (TierRating) and that of its team (TeamRating).  The      *)
(* three specifications share no variable; each theorem names the one it   *)
(* is about.                                                               *)
(***************************************************************************)
EXTENDS Scheduling, TeamRating, FiniteSetTheorems, WellFoundedInduction, TLAPS

(***************************************************************************)
(* Part 1.  Scheduling: the tasks that collect a project.                  *)
(***************************************************************************)

-----------------------------------------------------------------------------
(* The tasks.                                                               *)

LEMMA TaskFacts ==
  /\ \A kind \in Kinds, p \in Projects :
       /\ NewTask(kind, p) \in Tasks /\ NewTask(kind, p).failed = 0
       /\ NewTask(kind, p) # TickTask
  /\ TickTask \notin Tasks
  /\ FreshTasks \subseteq Tasks
  /\ \A task \in FreshTasks : task.failed = 0 /\ task # TickTask
<1>1. 0 \in 0..MaxRetry
  BY SchedulingAssumption
<1>2. ASSUME NEW kind \in Kinds, NEW p \in Projects
      PROVE  NewTask(kind, p) \in Tasks /\ NewTask(kind, p).failed = 0
  BY <1>1 DEF NewTask, Tasks
<1>3. TickTask \notin Tasks
  <2> SUFFICES ASSUME TickTask \in Tasks PROVE FALSE
    OBVIOUS
  <2>1. TickTask.kind \in Kinds /\ TickTask.kind = "tick"
    BY DEF Tasks, TickTask
  <2>2. QED BY <2>1 DEF Kinds
<1>4. QED BY <1>2, <1>3 DEF FreshTasks

\* What a worker holds, by where it is.
LEMMA HeldTypes ==
  ASSUME NEW x \in WorkerStates
  PROVE  /\ x.pc \in {"idle", "fanning", "loaded", "fetched"}
         /\ x.pc = "idle" => x = Idle
         /\ x.pc = "fanning" => x.task = TickTask /\ x.todo \subseteq FreshTasks
         /\ x.pc \in {"loaded", "fetched"} => x.task \in Tasks
         /\ x.pc = "loaded" => x.skip \in BOOLEAN
         /\ x.pc = "fetched" => x.instance \in Instances /\ x.fresh \in BOOLEAN
<1>1. CASE x = Idle
  BY <1>1 DEF Idle
<1>2. CASE x \in [pc : {"fanning"}, task : {TickTask}, todo : SUBSET FreshTasks]
  BY <1>2
<1>3. CASE x \in [pc : {"loaded"}, task : Tasks, skip : BOOLEAN]
  BY <1>3
<1>4. CASE x \in [pc : {"fetched"}, task : Tasks, instance : Instances, fresh : BOOLEAN]
  BY <1>4
<1>5. QED BY <1>1, <1>2, <1>3, <1>4 DEF WorkerStates

LEMMA WorkerForms ==
  /\ Idle \in WorkerStates /\ Idle.pc = "idle"
  /\ \A todo \in SUBSET FreshTasks :
       [pc |-> "fanning", task |-> TickTask, todo |-> todo] \in WorkerStates
  /\ \A task \in Tasks, skip \in BOOLEAN :
       [pc |-> "loaded", task |-> task, skip |-> skip] \in WorkerStates
  /\ \A task \in Tasks, i \in Instances, fresh \in BOOLEAN :
       [pc |-> "fetched", task |-> task, instance |-> i, fresh |-> fresh] \in WorkerStates
  BY DEF WorkerStates, Idle

\* A task that failed once more.
LEMMA FailedTask ==
  ASSUME NEW task \in Tasks, task.failed < MaxRetry
  PROVE  LET again == [task EXCEPT !.failed = task.failed + 1] IN
         again \in Tasks /\ again.failed = task.failed + 1
<1>1. MaxRetry \in Nat /\ task.failed \in 0..MaxRetry
  BY SchedulingAssumption DEF Tasks
<1>2. task.failed + 1 \in 0..MaxRetry
  BY <1>1
<1>3. QED BY <1>2 DEF Tasks

LEMMA CountersType ==
  TypeOK => changes \in Nat /\ edits \in Nat /\ faults \in Nat
  BY SchedulingAssumption DEF TypeOK

-----------------------------------------------------------------------------
(* The types.                                                               *)

LEMMA TypeInit == Init => TypeOK
<1> SUFFICES ASSUME Init PROVE TypeOK
  OBVIOUS
<1>1. /\ MaxChanges \in Nat /\ MaxEdits \in Nat /\ MaxFaults \in Nat
      /\ Installed \in Seq(Instances \cup Projects)
  BY SchedulingAssumption
<1>2. worker \in [Workers -> WorkerStates]
  BY WorkerForms DEF Init
<1>3. QED BY <1>1, <1>2 DEF Init, TypeOK

LEMMA FailedType ==
  ASSUME TypeOK, NEW w \in Workers, worker[w] # Idle, Failed(w, worker[w].task)
  PROVE  /\ queue' \subseteq Tasks \cup {TickTask}
         /\ worker' \in [Workers -> WorkerStates]
         /\ archived' \subseteq Kinds \X Projects
<1> DEFINE task == worker[w].task
<1>1. worker[w] \in WorkerStates
  BY DEF TypeOK
<1>2. task \in Tasks \/ task = TickTask
  BY <1>1, HeldTypes
<1>3. worker' \in [Workers -> WorkerStates]
  BY WorkerForms DEF Failed, Done, GiveUp, TypeOK
<1>4. CASE task = TickTask
  BY <1>3, <1>4 DEF Failed, Done, TypeOK
<1>5. CASE task # TickTask /\ task.failed = MaxRetry
  <2>1. task \in Tasks
    BY <1>2, <1>5
  <2>2. archived' = archived \cup {<<task.kind, task.project>>} /\ queue' = queue
    <3>1. MaxRetry \in Nat /\ ~(MaxRetry < MaxRetry)
      BY SchedulingAssumption
    <3>2. QED BY <1>5, <3>1 DEF Failed, GiveUp
  <2>3. QED BY <1>3, <2>1, <2>2 DEF TypeOK, Tasks
<1>6. CASE task # TickTask /\ task.failed < MaxRetry
  <2>1. task \in Tasks
    BY <1>2, <1>6
  <2>2. queue' = queue \cup {[task EXCEPT !.failed = task.failed + 1]} /\ archived' = archived
    <3>1. task.failed # MaxRetry
      BY <1>6, <2>1, SchedulingAssumption DEF Tasks
    <3>2. QED BY <1>6, <3>1 DEF Failed
  <2>3. [task EXCEPT !.failed = task.failed + 1] \in Tasks
    BY <1>6, <2>1, FailedTask
  <2> HIDE DEF task
  <2>4. QED BY <1>3, <2>2, <2>3 DEF TypeOK
<1>7. task = TickTask \/ task.failed = MaxRetry \/ task.failed < MaxRetry
  BY DEF Failed
<1>8. QED BY <1>4, <1>5, <1>6, <1>7

LEMMA GiveUpType ==
  ASSUME TypeOK, NEW w \in Workers, NEW task \in Tasks, GiveUp(w, task)
  PROVE  /\ queue' \subseteq Tasks \cup {TickTask}
         /\ worker' \in [Workers -> WorkerStates]
         /\ archived' \subseteq Kinds \X Projects
<1>1. <<task.kind, task.project>> \in Kinds \X Projects
  BY DEF Tasks
<1>2. QED BY <1>1, WorkerForms DEF GiveUp, TypeOK

LEMMA TryEnqueueType ==
  ASSUME TypeOK, NEW task \in Tasks \cup {TickTask}, TryEnqueue(task)
  PROVE  queue' \subseteq Tasks \cup {TickTask} /\ faults' \in 0..MaxFaults
<1>1. faults + 1 \in 0..MaxFaults \/ ~(faults < MaxFaults)
  BY SchedulingAssumption DEF TypeOK
<1>2. QED BY <1>1 DEF TryEnqueue, Enqueue, Fault, TypeOK

LEMMA EditType ==
  TypeOK /\ Edit => edits' \in 0..MaxEdits
  BY SchedulingAssumption DEF TypeOK, Edit

LEMMA FaultType ==
  TypeOK /\ Fault => faults' \in 0..MaxFaults
  BY SchedulingAssumption DEF TypeOK, Fault

LEMMA TypeNext == TypeOK /\ [Next]_vars => TypeOK'
<1> SUFFICES ASSUME TypeOK, [Next]_vars PROVE TypeOK'
  OBVIOUS
<1> USE DEF catalogue, bounds
<1>0. created \in Seq(Instances \cup Projects)
  BY DEF TypeOK
<1>1. ASSUME NEW i \in Instances, CreateSourceInstance(i) PROVE TypeOK'
  <2>1. Append(created, i) \in Seq(Instances \cup Projects)
    BY <1>0
  <2>2. QED BY <1>1, <2>1 DEF CreateSourceInstance, TypeOK
<1>2. ASSUME NEW i \in Instances, DeleteSourceInstance(i) PROVE TypeOK'
  <2>1. edits' \in 0..MaxEdits
    BY <1>2, EditType DEF DeleteSourceInstance
  <2>2. QED BY <1>2, <2>1 DEF DeleteSourceInstance, TypeOK
<1>3. ASSUME NEW p \in Projects, CreateProject(p) PROVE TypeOK'
  <2>1. Append(created, p) \in Seq(Instances \cup Projects)
    BY <1>0
  <2>2. QED BY <1>3, <2>1 DEF CreateProject, TypeOK
<1>4. ASSUME NEW p \in Projects, SetColumns(p) PROVE TypeOK'
  <2>1. edits' \in 0..MaxEdits
    BY <1>4, EditType DEF SetColumns
  <2>2. QED BY <1>4, <2>1 DEF SetColumns, TypeOK
<1>5. ASSUME NEW kind \in Kinds, NEW p \in Projects, Change(kind, p) PROVE TypeOK'
  <2>1. ASSUME NEW w \in Workers PROVE worker'[w] \in WorkerStates
    <3>1. worker[w] \in WorkerStates
      BY DEF TypeOK
    <3>2. CASE worker'[w] = worker[w]
      BY <3>1, <3>2
    <3>3. CASE worker[w].pc = "fetched" /\ worker'[w] = [worker[w] EXCEPT !.fresh = FALSE]
      <4>1. worker[w] \in [pc : {"fetched"}, task : Tasks, instance : Instances, fresh : BOOLEAN]
        BY <3>1, <3>3 DEF WorkerStates, Idle
      <4>2. [worker[w] EXCEPT !.fresh = FALSE]
              \in [pc : {"fetched"}, task : Tasks, instance : Instances, fresh : BOOLEAN]
        BY <4>1
      <4>3. QED BY <3>3, <4>2 DEF WorkerStates
    <3>4. QED BY <1>5, <3>2, <3>3 DEF Change
  <2>2. worker' \in [Workers -> WorkerStates]
    BY <1>5, <2>1 DEF Change
  <2>3. changes' \in 0..MaxChanges
    BY <1>5, SchedulingAssumption DEF Change, TypeOK
  <2>4. QED BY <1>5, <2>2, <2>3 DEF Change, TypeOK
<1>6. CASE Tick
  BY <1>6 DEF Tick, Enqueue, TypeOK
<1>7. ASSUME NEW w \in Workers, TakeTick(w) PROVE TypeOK'
  <2>1. FanOutTasks \subseteq FreshTasks
    BY DEF FanOutTasks, FreshTasks, ListActiveProjects, Kinds, TypeOK
  <2>2. worker' \in [Workers -> WorkerStates]
    BY <1>7, <2>1, WorkerForms DEF TakeTick, TypeOK
  <2>3. QED BY <1>7, <2>2 DEF TakeTick, Taken, TypeOK
<1>8. ASSUME NEW p \in Projects, CollectNow(p) PROVE TypeOK'
  BY <1>8, TaskFacts DEF CollectNow, Enqueue, Kinds, TypeOK
<1>9. ASSUME NEW p \in Projects, GitLabWebhook(p) PROVE TypeOK'
  <2>1. PICK q \in GetGitLabProjectByExternalID(ExternalID[p]) : TryEnqueue(NewTask("gitlab", q))
    BY <1>9 DEF GitLabWebhook
  <2>2. q \in Projects
    BY DEF GetGitLabProjectByExternalID, Oldest
  <2>3. NewTask("gitlab", q) \in Tasks
    BY <2>2, TaskFacts DEF Kinds
  <2>4. queue' \subseteq Tasks \cup {TickTask} /\ faults' \in 0..MaxFaults
    BY <2>1, <2>3, TryEnqueueType
  <2>5. QED BY <1>9, <2>4 DEF GitLabWebhook, TypeOK
<1>10. ASSUME NEW p \in Projects, JiraWebhook(p) PROVE TypeOK'
  <2>1. NewTask("jira", p) \in Tasks
    BY TaskFacts DEF Kinds
  <2>2. queue' \subseteq Tasks \cup {TickTask} /\ faults' \in 0..MaxFaults
    BY <1>10, <2>1, TryEnqueueType DEF JiraWebhook
  <2>3. QED BY <1>10, <2>2 DEF JiraWebhook, TypeOK
<1>11. ASSUME NEW w \in Workers, NEW task \in queue \ {TickTask}, GetProject(w, task) PROVE TypeOK'
  <2>1. task \in Tasks
    BY <1>11 DEF TypeOK
  <2>2. [pc |-> "loaded", task |-> task, skip |-> SkipRetry(task)] \in WorkerStates
    <3>1. SkipRetry(task) \in BOOLEAN
      BY DEF SkipRetry
    <3>2. QED BY <2>1, <3>1, WorkerForms
  <2>2a. worker' \in [Workers -> WorkerStates]
    BY <1>11, <2>2, WorkerForms DEF GetProject, TypeOK
  <2>3. QED BY <1>11, <2>2a DEF GetProject, Taken, TypeOK
<1>12. ASSUME NEW w \in Workers, FanOut(w) PROVE TypeOK'
  <2>1. worker[w] \in WorkerStates
    BY DEF TypeOK
  <2>2. PICK task \in worker[w].todo :
          TryEnqueue(task) /\ worker' = [worker EXCEPT ![w].todo = worker[w].todo \ {task}]
    BY <1>12 DEF FanOut
  <2>3. worker[w].todo \subseteq FreshTasks
    BY <1>12, <2>1, HeldTypes DEF FanOut
  <2>4. queue' \subseteq Tasks \cup {TickTask} /\ faults' \in 0..MaxFaults
    BY <2>2, <2>3, TaskFacts, TryEnqueueType
  <2>5. worker[w] \in [pc : {"fanning"}, task : {TickTask}, todo : SUBSET FreshTasks]
    BY <1>12, <2>1 DEF WorkerStates, FanOut, Idle
  <2>6. [worker[w] EXCEPT !.todo = worker[w].todo \ {task}]
          \in [pc : {"fanning"}, task : {TickTask}, todo : SUBSET FreshTasks]
    BY <2>3, <2>5
  <2>7. worker' = [worker EXCEPT ![w] = [worker[w] EXCEPT !.todo = worker[w].todo \ {task}]]
    BY <2>2
  <2>8. worker' \in [Workers -> WorkerStates]
    BY <2>6, <2>7 DEF WorkerStates, TypeOK
  <2>9. QED BY <1>12, <2>4, <2>8 DEF FanOut, TypeOK
<1>13. ASSUME NEW w \in Workers, FanOutDone(w) PROVE TypeOK'
  BY <1>13, WorkerForms DEF FanOutDone, Done, TypeOK
<1>14. ASSUME NEW w \in Workers, Fetch(w) PROVE TypeOK'
  <2> DEFINE task == worker[w].task
  <2>1. worker[w] \in WorkerStates /\ worker[w].pc = "loaded"
    BY <1>14 DEF TypeOK, Fetch
  <2>2. task \in Tasks /\ worker[w] # Idle
    BY <2>1, HeldTypes, WorkerForms
  <2>3. /\ queue' \subseteq Tasks \cup {TickTask}
        /\ worker' \in [Workers -> WorkerStates]
        /\ archived' \subseteq Kinds \X Projects
    <3>1. ASSUME NEW i \in InstanceOf(task),
                 worker' = [worker EXCEPT ![w] = [pc |-> "fetched", task |-> task, instance |-> i,
                                                  fresh |-> TRUE]]
          PROVE  worker' \in [Workers -> WorkerStates]
      <4>1. i \in Instances
        BY <2>2, SchedulingAssumption DEF InstanceOf, Oldest, Tasks
      <4> HIDE DEF task
      <4>2. [pc |-> "fetched", task |-> task, instance |-> i, fresh |-> TRUE] \in WorkerStates
        BY <2>2, <4>1, WorkerForms
      <4>3. QED BY <3>1, <4>2 DEF TypeOK
    <3>2. CASE Failed(w, task)
      BY <2>2, <3>2, FailedType
    <3>3. CASE Done(w)
      BY <3>3, WorkerForms DEF Done, TypeOK
    <3>4. CASE GiveUp(w, task)
      BY <2>2, <3>4, GiveUpType
    <3>5. QED BY <1>14, <3>1, <3>2, <3>3, <3>4 DEF Fetch, TypeOK
  <2>4. QED BY <1>14, <2>3 DEF Fetch, TypeOK
<1>15. ASSUME NEW w \in Workers, Store(w) PROVE TypeOK'
  <2>1. worker[w] \in WorkerStates /\ worker[w].pc = "fetched" /\ worker[w] # Idle
    BY <1>15, WorkerForms DEF TypeOK, Store
  <2>2. /\ queue' \subseteq Tasks \cup {TickTask}
        /\ worker' \in [Workers -> WorkerStates]
        /\ archived' \subseteq Kinds \X Projects
    <3>1. CASE Failed(w, worker[w].task)
      BY <2>1, <3>1, FailedType
    <3>2. CASE Done(w)
      BY <3>2, WorkerForms DEF Done, TypeOK
    <3>3. QED BY <1>15, <3>1, <3>2 DEF Store
  <2>3. pending' \subseteq pending
    BY <1>15 DEF Store
  <2>4. QED BY <1>15, <2>2, <2>3 DEF Store, TypeOK
<1>16. ASSUME NEW w \in Workers, AttemptFails(w) PROVE TypeOK'
  <2>1. /\ queue' \subseteq Tasks \cup {TickTask}
        /\ worker' \in [Workers -> WorkerStates]
        /\ archived' \subseteq Kinds \X Projects
    BY <1>16, FailedType DEF AttemptFails
  <2>2. faults' \in 0..MaxFaults
    BY <1>16, FaultType DEF AttemptFails
  <2>3. QED BY <1>16, <2>1, <2>2 DEF AttemptFails, TypeOK
<1>17. CASE UNCHANGED vars
  BY <1>17 DEF vars, TypeOK
<1>18. QED
  BY <1>1, <1>2, <1>3, <1>4, <1>5, <1>6, <1>7, <1>8, <1>9, <1>10, <1>11, <1>12, <1>13, <1>14,
     <1>15, <1>16, <1>17 DEF Next, Catalogue, Step, Take

-----------------------------------------------------------------------------
(***************************************************************************)
(* Why a task fails: for a fault, or because an instance was deleted while *)
(* a worker held it.  A deletion costs a held task its attempt at once,    *)
(* before the worker comes to notice.                                      *)
(***************************************************************************)

Budget == faults + Cardinality(gone \cap Instances)

\* What the worker took its task for, and what it will store for, is there.
Whole(x) ==
  /\ Exists(x.task.project)
  /\ x.pc = "fetched" => Exists(x.instance)

Spent(x) == IF Whole(x) THEN x.task.failed ELSE x.task.failed + 1

RowsOK == \A p \in Projects : Exists(p) => Exists(Home[p])

WaitingOK == \A task \in queue \ {TickTask} : task.failed <= Budget

HeldOK == \A w \in Workers : worker[w].pc \in {"loaded", "fetched"} => Spent(worker[w]) <= Budget

\* The patterns a worker holds as invalid were in the table.
PatternsOK ==
  /\ invalid \subseteq misset
  /\ \A w \in Workers : worker[w].pc = "loaded" /\ worker[w].skip =>
       worker[w].task.kind = "gitlab" /\ worker[w].task.project \in misset

Misset(c) == c[1] = "gitlab" /\ c[2] \in misset

SchedulingInv ==
  TypeOK /\ PatternsOK /\ RowsOK /\ WaitingOK /\ HeldOK /\ GivenUpForFailures

LEMMA PatternsNext == TypeOK /\ PatternsOK /\ [Next]_vars => PatternsOK' /\ misset \subseteq misset'
<1> SUFFICES ASSUME TypeOK, PatternsOK, [Next]_vars PROVE PatternsOK' /\ misset \subseteq misset'
  OBVIOUS
<1> USE DEF catalogue
<1>1. worker \in [Workers -> WorkerStates]
  BY DEF TypeOK
<1>2. ASSUME \A v \in Workers : worker'[v].pc = "loaded" => worker'[v] = worker[v],
             misset \subseteq misset', invalid' \subseteq misset'
      PROVE  PatternsOK' /\ misset \subseteq misset'
  BY <1>2 DEF PatternsOK
<1>3. CASE UNCHANGED <<invalid, misset>> /\ \A v \in Workers : worker'[v].pc = "loaded" => worker'[v] = worker[v]
  BY <1>2, <1>3 DEF PatternsOK
<1>4. ASSUME NEW w \in Workers, NEW x, worker' = [worker EXCEPT ![w] = x], x.pc # "loaded",
             UNCHANGED <<invalid, misset>>
      PROVE  PatternsOK' /\ misset \subseteq misset'
  BY <1>1, <1>3, <1>4
<1>5. ASSUME NEW w \in Workers, NEW task, Failed(w, task) \/ GiveUp(w, task) \/ Done(w),
             UNCHANGED <<invalid, misset>>
      PROVE  PatternsOK' /\ misset \subseteq misset'
  BY <1>4, <1>5, WorkerForms DEF Failed, GiveUp, Done
<1>6. ASSUME NEW i \in Instances, CreateSourceInstance(i) \/ DeleteSourceInstance(i)
      PROVE  PatternsOK' /\ misset \subseteq misset'
  BY <1>2, <1>6 DEF CreateSourceInstance, DeleteSourceInstance, PatternsOK
<1>7. ASSUME NEW p \in Projects, CreateProject(p) \/ SetColumns(p)
      PROVE  PatternsOK' /\ misset \subseteq misset'
  BY <1>2, <1>7 DEF CreateProject, SetColumns, PatternsOK
<1>8. ASSUME NEW kind \in Kinds, NEW p \in Projects, Change(kind, p)
      PROVE  PatternsOK' /\ misset \subseteq misset'
  <2>1. ASSUME NEW v \in Workers, worker[v].pc = "fetched",
               worker'[v] = [worker[v] EXCEPT !.fresh = FALSE]
        PROVE  worker'[v].pc # "loaded"
    <3>1. worker[v] \in [pc : {"fetched"}, task : Tasks, instance : Instances, fresh : BOOLEAN]
      BY <1>1, <2>1 DEF WorkerStates, Idle
    <3>2. QED BY <2>1, <3>1
  <2>2. \A v \in Workers : \/ worker'[v] = worker[v]
                           \/ worker[v].pc = "fetched"
                              /\ worker'[v] = [worker[v] EXCEPT !.fresh = FALSE]
    BY <1>8 DEF Change
  <2>3. QED BY <1>3, <1>8, <2>1, <2>2 DEF Change
<1>9. CASE Tick
  BY <1>3, <1>9 DEF Tick
<1>10. ASSUME NEW p \in Projects, CollectNow(p) \/ GitLabWebhook(p) \/ JiraWebhook(p)
       PROVE  PatternsOK' /\ misset \subseteq misset'
  BY <1>3, <1>10 DEF CollectNow, GitLabWebhook, JiraWebhook
<1>11. ASSUME NEW w \in Workers, TakeTick(w) PROVE PatternsOK' /\ misset \subseteq misset'
  BY <1>1, <1>3, <1>11 DEF TakeTick
<1>12. ASSUME NEW w \in Workers, NEW task \in queue \ {TickTask}, GetProject(w, task)
       PROVE  PatternsOK' /\ misset \subseteq misset'
  <2>1. UNCHANGED <<invalid, misset>>
    BY <1>12 DEF GetProject
  <2>2. \A v \in Workers : v # w => worker'[v] = worker[v]
    BY <1>1, <1>12 DEF GetProject
  <2>3. worker'[w] = Idle \/ worker'[w] = [pc |-> "loaded", task |-> task, skip |-> SkipRetry(task)]
    BY <1>1, <1>12 DEF GetProject
  <2>4. worker'[w].pc = "loaded" /\ worker'[w].skip =>
          worker'[w].task.kind = "gitlab" /\ worker'[w].task.project \in invalid
    <3>1. CASE worker'[w] = Idle
      BY <3>1, WorkerForms
    <3>2. CASE worker'[w] = [pc |-> "loaded", task |-> task, skip |-> SkipRetry(task)]
      <4>1. worker'[w].skip = SkipRetry(task) /\ worker'[w].task = task
        BY <3>2
      <4>2. SkipRetry(task) => task.kind = "gitlab" /\ task.project \in invalid
        BY DEF SkipRetry
      <4>3. QED BY <4>1, <4>2
    <3>3. QED BY <2>3, <3>1, <3>2
  <2>5. QED BY <2>1, <2>2, <2>4 DEF PatternsOK
<1>13. ASSUME NEW w \in Workers, FanOut(w) PROVE PatternsOK' /\ misset \subseteq misset'
  <2>1. PICK task \in worker[w].todo : worker' = [worker EXCEPT ![w].todo = worker[w].todo \ {task}]
    BY <1>13 DEF FanOut
  <2>2. worker[w] \in [pc : {"fanning"}, task : {TickTask}, todo : SUBSET FreshTasks]
    BY <1>1, <1>13 DEF WorkerStates, FanOut, Idle
  <2>3. worker'[w] = [worker[w] EXCEPT !.todo = worker[w].todo \ {task}]
    BY <1>1, <2>1
  <2>4. worker'[w].pc # "loaded"
    BY <2>2, <2>3
  <2>5. QED BY <1>1, <1>3, <1>13, <2>1, <2>4 DEF FanOut
<1>14. ASSUME NEW w \in Workers, FanOutDone(w) PROVE PatternsOK' /\ misset \subseteq misset'
  BY <1>5, <1>14 DEF FanOutDone
<1>15. ASSUME NEW w \in Workers, Fetch(w) PROVE PatternsOK' /\ misset \subseteq misset'
  <2> DEFINE task == worker[w].task
  <2>1. UNCHANGED <<invalid, misset>>
    BY <1>15 DEF Fetch
  <2>2. ASSUME NEW i, worker' = [worker EXCEPT ![w] = [pc |-> "fetched", task |-> task,
                                                      instance |-> i, fresh |-> TRUE]]
        PROVE  PatternsOK' /\ misset \subseteq misset'
    <3> DEFINE x == [pc |-> "fetched", task |-> task, instance |-> i, fresh |-> TRUE]
    <3>1. x.pc # "loaded" /\ worker' = [worker EXCEPT ![w] = x]
      BY <2>2
    <3> HIDE DEF x
    <3>2. QED BY <1>4, <2>1, <3>1
  <2>3. CASE Failed(w, task) \/ GiveUp(w, task) \/ Done(w)
    BY <1>5, <2>1, <2>3
  <2>4. QED BY <1>15, <2>2, <2>3 DEF Fetch
<1>16. ASSUME NEW w \in Workers, Store(w) \/ AttemptFails(w) PROVE PatternsOK' /\ misset \subseteq misset'
  BY <1>5, <1>16 DEF Store, AttemptFails
<1>17. CASE UNCHANGED vars
  BY <1>3, <1>17 DEF vars
<1>18. QED
  BY <1>6, <1>7, <1>8, <1>9, <1>10, <1>11, <1>12, <1>13, <1>14, <1>15, <1>16, <1>17
     DEF Next, Catalogue, Step, Take

LEMMA BudgetType ==
  ASSUME TypeOK
  PROVE  /\ Budget \in Nat /\ Cardinality(gone \cap Instances) \in Nat
         /\ IsFiniteSet(gone \cap Instances)
<1>1. IsFiniteSet(gone \cap Instances)
  BY SchedulingAssumption, FS_Subset
<1>2. QED BY <1>1, CountersType, FS_CardinalityType DEF Budget

LEMMA CountersAndBudget == TypeOK => faults \in Nat /\ Budget \in Nat
  BY CountersType, BudgetType

LEMMA CountersAndBudgetNext == TypeOK' => (faults \in Nat /\ Budget \in Nat)'
  BY CountersAndBudget, PTL

LEMMA FailedInt ==
  ASSUME NEW task \in Tasks
  PROVE  task.failed \in Nat /\ task # TickTask /\ task.project \in Projects
  BY SchedulingAssumption, TaskFacts DEF Tasks

\* Steps that leave the rows alone cost no task its attempt.
LEMMA SameRows ==
  ASSUME created' = created, gone' = gone
  PROVE  /\ \A id : Exists(id)' <=> Exists(id)
         /\ \A x : Whole(x)' <=> Whole(x)
         /\ \A x : Spent(x)' = Spent(x)
<1>1. \A id : Exists(id)' <=> Exists(id)
  BY DEF Exists, Created
<1>2. \A x : Whole(x)' <=> Whole(x)
  BY <1>1 DEF Whole
<1>3. QED BY <1>1, <1>2 DEF Spent

\* What a step has to keep that leaves the rows alone.
LEMMA Kept ==
  ASSUME SchedulingInv, TypeOK', PatternsOK', misset \subseteq misset',
         created' = created, gone' = gone, faults <= faults',
         \A task \in queue' \ {TickTask} : task \in queue \/ task.failed <= Budget',
         \A w \in Workers : worker'[w].pc \in {"loaded", "fetched"} =>
           worker'[w] = worker[w] \/ Spent(worker'[w]) <= Budget',
         \A c \in archived' : c \in archived \/ Misset(c)' \/ Budget' > MaxRetry
  PROVE  SchedulingInv'
<1>1. Budget \in Nat /\ Budget' \in Nat
  BY CountersAndBudget, CountersAndBudgetNext DEF SchedulingInv
<1>2. Budget <= Budget'
  <2>1. faults \in Nat /\ faults' \in Nat
    BY CountersType, CountersAndBudgetNext DEF SchedulingInv
  <2>2. Cardinality(gone \cap Instances) \in Nat
    BY BudgetType DEF SchedulingInv
  <2>3. QED BY <2>1, <2>2 DEF Budget
<1>3. RowsOK'
  BY SameRows DEF SchedulingInv, RowsOK
<1>4. WaitingOK'
  <2> SUFFICES ASSUME NEW task \in queue' \ {TickTask} PROVE task.failed <= Budget'
    BY DEF WaitingOK
  <2>1. task.failed \in Nat
    BY FailedInt DEF TypeOK
  <2>2. QED BY <1>1, <1>2, <2>1 DEF SchedulingInv, WaitingOK
<1>5. HeldOK'
  <2> SUFFICES ASSUME NEW w \in Workers, worker'[w].pc \in {"loaded", "fetched"}
               PROVE  Spent(worker'[w]) <= Budget'
    BY SameRows DEF HeldOK
  <2>1. CASE worker'[w] = worker[w]
    <3>1. worker[w].task \in Tasks
      BY <2>1, HeldTypes DEF SchedulingInv, TypeOK
    <3>2. Spent(worker[w]) \in Nat
      BY <3>1, FailedInt DEF Spent
    <3>3. Spent(worker[w]) <= Budget
      BY <2>1 DEF SchedulingInv, HeldOK
    <3>4. QED BY <1>1, <1>2, <2>1, <3>2, <3>3
  <2>2. QED BY <2>1
<1>6. GivenUpForFailures'
  <2> SUFFICES ASSUME NEW c \in archived' PROVE Misset(c)' \/ Budget' > MaxRetry
    BY DEF GivenUpForFailures, Misset, Budget
  <2>1. MaxRetry \in Nat
    BY SchedulingAssumption
  <2>2. c \in archived => Misset(c)' \/ Budget > MaxRetry
    BY DEF SchedulingInv, GivenUpForFailures, Misset, Budget
  <2>3. QED BY <1>1, <1>2, <2>1, <2>2
<1>7. QED BY <1>3, <1>4, <1>5, <1>6 DEF SchedulingInv

LEMMA FailedKeeps ==
  ASSUME SchedulingInv, TypeOK', PatternsOK', misset \subseteq misset',
         created' = created, gone' = gone, faults <= faults',
         NEW w \in Workers, worker[w] # Idle, Failed(w, worker[w].task),
         worker[w].pc \in {"loaded", "fetched"} => worker[w].task.failed + 1 <= Budget'
  PROVE  SchedulingInv'
<1> DEFINE task == worker[w].task
<1>1. worker[w] \in WorkerStates
  BY DEF SchedulingInv, TypeOK
<1>2. \/ worker[w].pc = "fanning" /\ task = TickTask
      \/ worker[w].pc \in {"loaded", "fetched"} /\ task \in Tasks /\ task.failed + 1 <= Budget'
  BY <1>1, HeldTypes
<1>3. \A v \in Workers : worker'[v].pc \in {"loaded", "fetched"} => worker'[v] = worker[v]
  BY WorkerForms DEF Failed, Done, GiveUp, SchedulingInv, TypeOK
<1>4. Budget' \in Nat /\ MaxRetry \in Nat
  BY CountersAndBudgetNext, SchedulingAssumption
<1>5. CASE task = TickTask /\ UNCHANGED <<queue, archived>>
  BY <1>3, <1>5, Kept
<1>6. CASE /\ task # TickTask /\ task.failed = MaxRetry
           /\ archived' = archived \cup {<<task.kind, task.project>>} /\ queue' = queue
  <2>1. Budget' > MaxRetry
    BY <1>2, <1>4, <1>6
  <2>2. QED BY <1>3, <1>6, <2>1, Kept
<1>7. CASE /\ task # TickTask /\ task.failed < MaxRetry /\ archived' = archived
           /\ queue' = queue \cup {[task EXCEPT !.failed = task.failed + 1]}
  <2>1. [task EXCEPT !.failed = task.failed + 1].failed <= Budget'
    BY <1>2, <1>7, FailedTask
  <2> HIDE DEF task
  <2>2. QED BY <1>3, <1>7, <2>1, Kept
<1>8. QED BY <1>5, <1>6, <1>7 DEF Failed, Done, GiveUp

\* An invalid pattern.
LEMMA SkipKeeps ==
  ASSUME SchedulingInv, TypeOK', PatternsOK', misset \subseteq misset',
         created' = created, gone' = gone, faults' = faults,
         NEW w \in Workers, worker[w].pc = "loaded", worker[w].skip, GiveUp(w, worker[w].task)
  PROVE  SchedulingInv'
<1> DEFINE c == <<worker[w].task.kind, worker[w].task.project>>
<1>1. c[1] = "gitlab" /\ c[2] \in misset'
  BY DEF SchedulingInv, PatternsOK
<1>2. \A v \in Workers : worker'[v].pc \in {"loaded", "fetched"} => worker'[v] = worker[v]
  BY WorkerForms DEF GiveUp, SchedulingInv, TypeOK
<1>3. archived' = archived \cup {c} /\ queue' = queue
  BY DEF GiveUp
<1>4. faults <= faults'
  BY CountersType DEF SchedulingInv
<1>5. \A a \in archived' : a \in archived \/ Misset(a)'
  <2> HIDE DEF c
  <2>1. QED BY <1>1, <1>3 DEF Misset
<1>6. QED BY <1>2, <1>3, <1>4, <1>5, Kept

LEMMA TryEnqueueKeeps ==
  ASSUME TypeOK, NEW task, TryEnqueue(task)
  PROVE  faults <= faults' /\ queue' \subseteq queue \cup {task}
  BY CountersType DEF TryEnqueue, Enqueue, Fault

\* A new row.
LEMMA CreateKeeps ==
  ASSUME SchedulingInv, TypeOK', PatternsOK', misset \subseteq misset', NEW row \in Instances \cup Projects, ~Created(row),
         created' = Append(created, row), gone' = gone, row \in Projects => Exists(Home[row]),
         UNCHANGED <<queue, worker, archived, faults>>
  PROVE  SchedulingInv'
<1>1. \A id : Created(id)' <=> Created(id) \/ id = row
  <2>1. created \in Seq(Instances \cup Projects)
    BY DEF SchedulingInv, TypeOK
  <2>2. /\ Len(created) \in Nat /\ DOMAIN created = 1..Len(created)
        /\ DOMAIN created' = 1..(Len(created) + 1)
        /\ \A n \in 1..Len(created) : created'[n] = created[n]
        /\ created'[Len(created) + 1] = row
    BY <2>1
  <2> SUFFICES ASSUME NEW id PROVE Created(id)' <=> Created(id) \/ id = row
    OBVIOUS
  <2>3. ASSUME NEW n \in DOMAIN created', created'[n] = id PROVE Created(id) \/ id = row
    <3>1. n \in 1..Len(created) \/ n = Len(created) + 1
      BY <2>2
    <3>2. QED BY <2>2, <2>3, <3>1 DEF Created
  <2>4. ASSUME NEW n \in DOMAIN created, created[n] = id PROVE Created(id)'
    <3>1. n \in DOMAIN created'
      BY <2>2
    <3>2. QED BY <2>2, <2>4, <3>1 DEF Created
  <2>5. Created(row)'
    <3>1. Len(created) + 1 \in DOMAIN created'
      BY <2>2
    <3>2. QED BY <2>2, <3>1 DEF Created
  <2>6. QED BY <2>3, <2>4, <2>5 DEF Created
<1>2. \A id : Exists(id)' => Exists(id) \/ id = row
  BY <1>1 DEF Exists
<1>3. \A id : Exists(id) => Exists(id)'
  BY <1>1 DEF Exists
<1>4. RowsOK'
  BY <1>2, <1>3 DEF RowsOK, SchedulingInv
<1>5. Budget' = Budget
  BY DEF Budget
<1>6. WaitingOK' /\ GivenUpForFailures'
  <2>1. WaitingOK'
    BY <1>5 DEF SchedulingInv, WaitingOK
  <2>2. GivenUpForFailures'
    BY DEF SchedulingInv, GivenUpForFailures
  <2>3. QED BY <2>1, <2>2
<1>7. HeldOK'
  <2> SUFFICES ASSUME NEW w \in Workers, worker[w].pc \in {"loaded", "fetched"}
               PROVE  (Spent(worker[w]) <= Budget)'
    BY DEF HeldOK
  <2>1. worker[w].task \in Tasks
    BY HeldTypes DEF SchedulingInv, TypeOK
  <2>2. worker[w].task.failed \in Nat /\ Budget \in Nat
    BY <2>1, FailedInt, BudgetType DEF SchedulingInv
  <2>3. Whole(worker[w]) => Whole(worker[w])'
    BY <1>3 DEF Whole
  <2>4. Spent(worker[w]) <= Budget
    BY DEF SchedulingInv, HeldOK
  <2>5. Spent(worker[w])' <= Spent(worker[w])
    BY <2>2, <2>3 DEF Spent
  <2>6. Spent(worker[w])' \in Nat /\ Spent(worker[w]) \in Nat
    BY <2>2 DEF Spent
  <2>7. QED BY <1>5, <2>2, <2>4, <2>5, <2>6
<1>8. QED BY <1>4, <1>6, <1>7 DEF SchedulingInv

\* A deletion gives every task one more failure.
LEMMA DeleteKeeps ==
  ASSUME SchedulingInv, TypeOK', PatternsOK', misset \subseteq misset',
         NEW i \in Instances, DeleteSourceInstance(i)
  PROVE  SchedulingInv'
<1> DEFINE dead == {i} \cup {p \in Projects : Exists(p) /\ Home[p] = i}
<1>1. /\ Exists(i) /\ gone' = gone \cup dead /\ created' = created
      /\ UNCHANGED <<queue, worker, archived, faults>>
  BY DEF DeleteSourceInstance, bounds
<1>2. Budget' = Budget + 1
  <2>1. gone' \cap Instances = (gone \cap Instances) \cup {i} /\ i \notin gone \cap Instances
    BY <1>1, SchedulingAssumption DEF Exists
  <2>2. Cardinality(gone' \cap Instances) = Cardinality(gone \cap Instances) + 1
    BY <2>1, BudgetType, FS_AddElement DEF SchedulingInv
  <2>3. faults \in Nat /\ Cardinality(gone \cap Instances) \in Nat
    BY CountersType, BudgetType DEF SchedulingInv
  <2>4. QED BY <1>1, <2>2, <2>3 DEF Budget
<1>3. Budget \in Nat /\ MaxRetry \in Nat
  BY BudgetType, SchedulingAssumption DEF SchedulingInv
<1>4. \A id : Exists(id)' <=> Exists(id) /\ id \notin dead
  BY <1>1 DEF Exists, Created
<1>5. RowsOK'
  <2> SUFFICES ASSUME NEW p \in Projects, Exists(p)' PROVE Exists(Home[p])'
    BY DEF RowsOK
  <2>1. Exists(p) /\ Home[p] # i
    BY <1>4
  <2>2. Home[p] \in Instances /\ Home[p] \notin Projects
    BY SchedulingAssumption
  <2>3. Exists(Home[p])
    BY <2>1 DEF SchedulingInv, RowsOK
  <2>4. QED BY <1>4, <2>1, <2>2, <2>3
<1>6. WaitingOK'
  <2> SUFFICES ASSUME NEW task \in queue \ {TickTask} PROVE task.failed <= Budget'
    BY <1>1 DEF WaitingOK
  <2>1. task.failed \in Nat
    BY FailedInt DEF SchedulingInv, TypeOK
  <2>2. task.failed <= Budget
    BY DEF SchedulingInv, WaitingOK
  <2>3. QED BY <1>2, <1>3, <2>1, <2>2
<1>7. HeldOK'
  <2> SUFFICES ASSUME NEW w \in Workers, worker[w].pc \in {"loaded", "fetched"}
               PROVE  (Spent(worker[w]) <= Budget)'
    BY <1>1 DEF HeldOK
  <2>1. worker[w].task \in Tasks
    BY HeldTypes DEF SchedulingInv, TypeOK
  <2>2. worker[w].task.failed \in Nat
    BY <2>1, FailedInt
  <2>3. Spent(worker[w]) <= Budget
    BY DEF SchedulingInv, HeldOK
  <2>4. worker[w].task.failed <= Budget
    BY <1>3, <2>2, <2>3 DEF Spent
  <2>5. Spent(worker[w])' <= worker[w].task.failed + 1
    BY <1>1, <2>2 DEF Spent
  <2>6. Spent(worker[w])' \in Nat
    BY <1>1, <2>2 DEF Spent
  <2>7. QED BY <1>2, <1>3, <2>2, <2>4, <2>5, <2>6
<1>8. GivenUpForFailures'
  <2> SUFFICES ASSUME NEW c \in archived PROVE Misset(c)' \/ Budget' > MaxRetry
    BY <1>1 DEF GivenUpForFailures, Misset, Budget
  <2>1. Misset(c)' \/ Budget > MaxRetry
    BY DEF SchedulingInv, GivenUpForFailures, Misset, Budget
  <2>2. QED BY <1>2, <1>3, <2>1
<1>9. QED BY <1>5, <1>6, <1>7, <1>8 DEF SchedulingInv

LEMMA SchedulingInit == Init => SchedulingInv
<1> SUFFICES ASSUME Init PROVE SchedulingInv
  OBVIOUS
<1>1. TypeOK
  BY TypeInit
<1>2. RowsOK
  <2> SUFFICES ASSUME NEW p \in Projects, Exists(p) PROVE Exists(Home[p])
    BY DEF RowsOK
  <2>1. PICK n \in DOMAIN Installed : Installed[n] = p
    BY DEF Init, Exists, Created
  <2>2. PICK k \in DOMAIN Installed : Installed[k] = Home[p]
    BY <2>1, SchedulingAssumption
  <2>3. QED BY <2>2 DEF Init, Exists, Created
<1>3. HeldOK
  BY WorkerForms DEF Init, HeldOK
<1>4. PatternsOK
  BY WorkerForms DEF Init, PatternsOK
<1>5. QED BY <1>1, <1>2, <1>3, <1>4 DEF Init, SchedulingInv, WaitingOK, GivenUpForFailures

\* The steps that fail an attempt do so for the reason the budget counts.
LEMMA WorkerKeeps ==
  ASSUME SchedulingInv, TypeOK', PatternsOK', misset \subseteq misset', NEW w \in Workers,
         Fetch(w) \/ Store(w) \/ AttemptFails(w)
  PROVE  SchedulingInv'
<1> DEFINE task == worker[w].task
<1>1. worker[w] \in WorkerStates /\ worker \in [Workers -> WorkerStates]
  BY DEF SchedulingInv, TypeOK
<1>2. Budget \in Nat /\ Budget' \in Nat
  BY CountersAndBudget, CountersAndBudgetNext DEF SchedulingInv
<1>3. worker[w].pc \in {"loaded", "fetched"} =>
        task \in Tasks /\ task.failed \in Nat /\ Spent(worker[w]) <= Budget
  BY <1>1, HeldTypes, FailedInt DEF SchedulingInv, HeldOK
<1>4. faults \in Nat
  BY CountersType DEF SchedulingInv
<1>5. ASSUME UNCHANGED <<created, gone, faults, queue, archived>>, NEW x,
             worker' = [worker EXCEPT ![w] = x],
             x.pc \in {"loaded", "fetched"} => Spent(x) <= Budget
      PROVE  SchedulingInv'
  <2>1. Budget' = Budget
    BY <1>5 DEF Budget
  <2>2. \A v \in Workers : v # w => worker'[v] = worker[v]
    BY <1>1, <1>5
  <2>3. worker'[w] = x
    BY <1>1, <1>5
  <2>4. \A v \in Workers : worker'[v].pc \in {"loaded", "fetched"} =>
          worker'[v] = worker[v] \/ Spent(worker'[v]) <= Budget'
    BY <1>5, <2>1, <2>2, <2>3
  <2>5. QED BY <1>4, <1>5, <2>4, Kept
<1>6. CASE Fetch(w)
  <2>1. worker[w].pc = "loaded" /\ worker[w] # Idle
    BY <1>6, WorkerForms DEF Fetch
  <2>2. created' = created /\ gone' = gone /\ faults' = faults /\ Budget' = Budget
    BY <1>6 DEF Fetch, catalogue, bounds, Budget
  <2>3. ASSUME NEW i \in InstanceOf(task), UNCHANGED <<queue, archived>>,
               worker' = [worker EXCEPT ![w] = [pc |-> "fetched", task |-> task, instance |-> i,
                                                fresh |-> TRUE]]
        PROVE  SchedulingInv'
    <3> DEFINE x == [pc |-> "fetched", task |-> task, instance |-> i, fresh |-> TRUE]
    <3>1. Exists(i)
      BY DEF InstanceOf, Oldest
    <3>2. x.pc = "fetched" /\ x.task = task /\ x.instance = i
      OBVIOUS
    <3>3. Whole(x) <=> Whole(worker[w])
      BY <2>1, <3>1, <3>2 DEF Whole
    <3>4. Spent(x) = Spent(worker[w])
      BY <3>2, <3>3 DEF Spent
    <3>5. worker' = [worker EXCEPT ![w] = x]
      BY <2>3
    <3> HIDE DEF x, task
    <3>6. QED BY <1>3, <1>5, <2>1, <2>2, <2>3, <3>4, <3>5
  <2>4. CASE InstanceOf(task) = {} /\ task.kind = "gitlab" /\ Failed(w, task)
    <3>1. ~Exists(Home[task.project]) /\ task.project \in Projects
      BY <1>3, <2>1, <2>4, FailedInt DEF InstanceOf
    <3>2. ~Whole(worker[w])
      BY <3>1 DEF Whole, SchedulingInv, RowsOK
    <3>3. task.failed + 1 <= Budget'
      BY <1>3, <2>1, <2>2, <3>2 DEF Spent
    <3>4. QED BY <1>4, <2>1, <2>2, <2>4, <3>3, FailedKeeps
  <2>5. CASE Done(w)
    BY <1>5, <2>2, <2>5, WorkerForms DEF Done
  <2>6. CASE worker[w].skip /\ GiveUp(w, task)
    BY <2>1, <2>2, <2>6, SkipKeeps
  <2>7. QED BY <1>6, <2>3, <2>4, <2>5, <2>6 DEF Fetch
<1>7. CASE Store(w)
  <2>1. worker[w].pc = "fetched" /\ worker[w] # Idle
    BY <1>7, WorkerForms DEF Store
  <2>2. created' = created /\ gone' = gone /\ faults' = faults /\ Budget' = Budget
    BY <1>7 DEF Store, catalogue, bounds, Budget
  <2>3. CASE Done(w)
    BY <1>5, <2>2, <2>3, WorkerForms DEF Done
  <2>4. CASE ~Whole(worker[w]) /\ Failed(w, task)
    <3>1. task.failed + 1 <= Budget'
      BY <1>3, <2>1, <2>2, <2>4 DEF Spent
    <3>2. QED BY <1>4, <2>1, <2>2, <2>4, <3>1, FailedKeeps
  <2>5. QED BY <1>7, <2>1, <2>3, <2>4 DEF Store, Whole
<1>8. CASE AttemptFails(w)
  <2>1. /\ worker[w] # Idle /\ Failed(w, task) /\ faults' = faults + 1
        /\ created' = created /\ gone' = gone
    BY <1>8 DEF AttemptFails, Fault, catalogue
  <2>2. Cardinality(gone \cap Instances) \in Nat
    BY BudgetType DEF SchedulingInv
  <2>3. Budget' = Budget + 1
    BY <1>4, <2>1, <2>2 DEF Budget
  <2>4. worker[w].pc \in {"loaded", "fetched"} => task.failed + 1 <= Budget'
    BY <1>2, <1>3, <2>3 DEF Spent
  <2>5. QED BY <1>4, <2>1, <2>4, FailedKeeps
<1>9. QED BY <1>6, <1>7, <1>8

LEMMA SchedulingNext == SchedulingInv /\ [Next]_vars => SchedulingInv'
<1> SUFFICES ASSUME SchedulingInv, [Next]_vars PROVE SchedulingInv'
  OBVIOUS
<1>1. TypeOK' /\ PatternsOK' /\ misset \subseteq misset'
  BY TypeNext, PatternsNext DEF SchedulingInv
<1>2. faults \in Nat
  BY CountersType DEF SchedulingInv
<1>3. Budget \in Nat /\ Budget' \in Nat
  BY <1>1, CountersAndBudget, CountersAndBudgetNext DEF SchedulingInv
<1>4. worker \in [Workers -> WorkerStates]
  BY DEF SchedulingInv, TypeOK
\* Steps that leave the workers alone, and enqueue what never failed.
<1>5. ASSUME UNCHANGED <<created, gone, worker, archived>>, faults <= faults',
             NEW task \in Tasks \cup {TickTask}, queue' \subseteq queue \cup {task},
             task = TickTask \/ task.failed = 0
      PROVE  SchedulingInv'
  <2>1. \A t \in queue' \ {TickTask} : t \in queue \/ t.failed <= Budget'
    BY <1>3, <1>5
  <2>2. QED BY <1>1, <1>5, <2>1, Kept
<1>6. ASSUME NEW i \in Instances, CreateSourceInstance(i) PROVE SchedulingInv'
  <2>1. i \notin Projects
    BY SchedulingAssumption
  <2>2. QED BY <1>1, <1>6, <2>1, CreateKeeps DEF CreateSourceInstance, bounds
<1>7. ASSUME NEW i \in Instances, DeleteSourceInstance(i) PROVE SchedulingInv'
  BY <1>1, <1>7, DeleteKeeps
<1>8. ASSUME NEW p \in Projects, CreateProject(p) PROVE SchedulingInv'
  BY <1>1, <1>8, CreateKeeps DEF CreateProject, bounds
<1>9. ASSUME NEW p \in Projects, SetColumns(p) PROVE SchedulingInv'
  <2>1. UNCHANGED <<created, gone, worker, archived, queue, faults>>
    BY <1>9 DEF SetColumns, bounds
  <2>2. QED BY <1>2, <1>5, <2>1
<1>10. ASSUME NEW kind \in Kinds, NEW p \in Projects, Change(kind, p) PROVE SchedulingInv'
  <2>1. UNCHANGED <<created, gone, archived, queue, faults>> /\ Budget' = Budget
    BY <1>10 DEF Change, catalogue, Budget
  <2>2. ASSUME NEW w \in Workers, worker'[w].pc \in {"loaded", "fetched"}
        PROVE  worker'[w] = worker[w] \/ Spent(worker'[w]) <= Budget'
    <3>1. worker[w] \in WorkerStates
      BY <1>4
    <3>2. CASE worker[w].pc = "fetched" /\ worker'[w] = [worker[w] EXCEPT !.fresh = FALSE]
      <4>1. worker[w] \in [pc : {"fetched"}, task : Tasks, instance : Instances, fresh : BOOLEAN]
        BY <3>1, <3>2 DEF WorkerStates, Idle
      <4>2. /\ worker'[w].pc = worker[w].pc /\ worker'[w].task = worker[w].task
            /\ worker'[w].instance = worker[w].instance
        BY <3>2, <4>1
      <4>3. Spent(worker'[w]) = Spent(worker[w])
        BY <4>2 DEF Spent, Whole
      <4>4. Spent(worker[w]) <= Budget
        BY <3>2 DEF SchedulingInv, HeldOK
      <4>5. QED BY <2>1, <4>3, <4>4
    <3>3. CASE worker'[w] = worker[w]
      BY <3>3
    <3>4. QED BY <1>10, <3>2, <3>3 DEF Change
  <2>3. QED BY <1>1, <1>2, <2>1, <2>2, Kept
<1>11. CASE Tick
  BY <1>2, <1>5, <1>11 DEF Tick, Enqueue, catalogue, bounds
<1>12. ASSUME NEW w \in Workers, TakeTick(w) PROVE SchedulingInv'
  <2>1. UNCHANGED <<created, gone, archived, faults>> /\ queue' \subseteq queue
    BY <1>12 DEF TakeTick, Taken, catalogue, bounds
  <2>2. \A v \in Workers : worker'[v].pc \in {"loaded", "fetched"} => worker'[v] = worker[v]
    BY <1>4, <1>12 DEF TakeTick
  <2>3. QED BY <1>1, <1>2, <2>1, <2>2, Kept
<1>13. ASSUME NEW p \in Projects, CollectNow(p) PROVE SchedulingInv'
  <2>1. NewTask("gitlab", p) \in Tasks /\ NewTask("gitlab", p).failed = 0
    BY TaskFacts DEF Kinds
  <2>2. QED BY <1>2, <1>5, <1>13, <2>1 DEF CollectNow, Enqueue, catalogue, bounds
<1>14. ASSUME NEW p \in Projects, GitLabWebhook(p) PROVE SchedulingInv'
  <2>1. PICK q \in GetGitLabProjectByExternalID(ExternalID[p]) : TryEnqueue(NewTask("gitlab", q))
    BY <1>14 DEF GitLabWebhook
  <2>2. q \in Projects
    BY DEF GetGitLabProjectByExternalID, Oldest
  <2>3. NewTask("gitlab", q) \in Tasks /\ NewTask("gitlab", q).failed = 0
    BY <2>2, TaskFacts DEF Kinds
  <2>4. faults <= faults' /\ queue' \subseteq queue \cup {NewTask("gitlab", q)}
    BY <2>1, TryEnqueueKeeps DEF SchedulingInv
  <2>5. QED BY <1>5, <1>14, <2>3, <2>4 DEF GitLabWebhook, catalogue
<1>15. ASSUME NEW p \in Projects, JiraWebhook(p) PROVE SchedulingInv'
  <2>1. NewTask("jira", p) \in Tasks /\ NewTask("jira", p).failed = 0
    BY TaskFacts DEF Kinds
  <2>2. faults <= faults' /\ queue' \subseteq queue \cup {NewTask("jira", p)}
    BY <1>15, TryEnqueueKeeps DEF SchedulingInv, JiraWebhook
  <2>3. QED BY <1>5, <1>15, <2>1, <2>2 DEF JiraWebhook, catalogue
<1>16. ASSUME NEW w \in Workers, NEW task \in queue \ {TickTask}, GetProject(w, task)
       PROVE  SchedulingInv'
  <2>1. UNCHANGED <<created, gone, archived, faults>> /\ queue' \subseteq queue /\ Budget' = Budget
    BY <1>16 DEF GetProject, Taken, catalogue, bounds, Budget
  <2>2. \A v \in Workers : v # w => worker'[v] = worker[v]
    BY <1>4, <1>16 DEF GetProject
  <2>3. worker'[w].pc \in {"loaded", "fetched"} => Spent(worker'[w]) <= Budget'
    <3> SUFFICES ASSUME worker'[w].pc \in {"loaded", "fetched"} PROVE Spent(worker'[w]) <= Budget'
      OBVIOUS
    <3>1. ~Skips(task) /\ worker'[w] = [pc |-> "loaded", task |-> task, skip |-> SkipRetry(task)]
      BY <1>4, <1>16, WorkerForms DEF GetProject
    <3>2. worker'[w].pc = "loaded" /\ worker'[w].task = task
      BY <3>1
    <3>3. Exists(task.project)
      BY <3>1 DEF Skips
    <3>4. Spent(worker'[w]) = task.failed
      BY <3>2, <3>3 DEF Spent, Whole
    <3>5. task.failed <= Budget
      BY DEF SchedulingInv, WaitingOK
    <3>6. QED BY <2>1, <3>4, <3>5
  <2>4. QED BY <1>1, <1>2, <2>1, <2>2, <2>3, Kept
<1>17. ASSUME NEW w \in Workers, FanOut(w) PROVE SchedulingInv'
  <2>1. PICK task \in worker[w].todo :
          TryEnqueue(task) /\ worker' = [worker EXCEPT ![w].todo = worker[w].todo \ {task}]
    BY <1>17 DEF FanOut
  <2>2. worker[w].pc = "fanning" /\ worker[w] \in WorkerStates
    BY <1>4, <1>17 DEF FanOut
  <2>3. task \in FreshTasks
    BY <2>1, <2>2, HeldTypes
  <2>4. task.failed = 0 /\ task \in Tasks
    BY <2>3, TaskFacts
  <2>5. faults <= faults' /\ queue' \subseteq queue \cup {task}
    BY <2>1, TryEnqueueKeeps DEF SchedulingInv
  <2>6. UNCHANGED <<created, gone, archived>>
    BY <1>17 DEF FanOut, catalogue
  <2>7. worker[w] \in [pc : {"fanning"}, task : {TickTask}, todo : SUBSET FreshTasks]
    BY <2>2 DEF WorkerStates, Idle
  <2>8. worker'[w] = [worker[w] EXCEPT !.todo = worker[w].todo \ {task}]
    BY <1>4, <2>1
  <2>9. worker'[w].pc = "fanning"
    BY <2>7, <2>8
  <2>10. \A v \in Workers : worker'[v].pc \in {"loaded", "fetched"} => worker'[v] = worker[v]
    BY <1>4, <2>1, <2>9
  <2>11. \A t \in queue' \ {TickTask} : t \in queue \/ t.failed <= Budget'
    BY <1>3, <2>4, <2>5
  <2>12. QED BY <1>1, <2>5, <2>6, <2>10, <2>11, Kept
<1>18. ASSUME NEW w \in Workers, FanOutDone(w) PROVE SchedulingInv'
  <2>1. UNCHANGED <<created, gone, archived, faults, queue>>
    BY <1>18 DEF FanOutDone, Done, catalogue, bounds
  <2>2. \A v \in Workers : worker'[v].pc \in {"loaded", "fetched"} => worker'[v] = worker[v]
    BY <1>4, <1>18, WorkerForms DEF FanOutDone, Done
  <2>3. QED BY <1>1, <1>2, <2>1, <2>2, Kept
<1>19. ASSUME NEW w \in Workers, Fetch(w) \/ Store(w) \/ AttemptFails(w) PROVE SchedulingInv'
  BY <1>1, <1>19, WorkerKeeps
<1>20. CASE UNCHANGED vars
  BY <1>2, <1>5, <1>20 DEF vars, catalogue, bounds
<1>21. QED
  BY <1>6, <1>7, <1>8, <1>9, <1>10, <1>11, <1>12, <1>13, <1>14, <1>15, <1>16, <1>17, <1>18,
     <1>19, <1>20 DEF Next, Catalogue, Step, Take

\* What the catalogue, the queue and the workers hold.
THEOREM SchedulingTypeCorrect == Spec => []TypeOK
  BY TypeInit, TypeNext, PTL DEF Spec

\* HandleCollectGitlab and HandleCollectJira drop the task of a project that is
\* not there, a delete leaves the tasks in the queue, and only an invalid
\* production_env_pattern ends a collection of GitLab at once: any other that was
\* given up failed as often for faults and deletions of instances under a worker,
\* however many projects, instances, workers and repetitions there are.
THEOREM GivenUpSafe == Spec => []GivenUpForFailures
<1>1. SchedulingInv => GivenUpForFailures
  BY DEF SchedulingInv
<1>2. QED BY <1>1, SchedulingInit, SchedulingNext, PTL DEF Spec

-----------------------------------------------------------------------------
(***************************************************************************)
(* Part 2.  TierRating: the classification of a window, for every          *)
(* configuration of the thresholds and every measurement.                  *)
(***************************************************************************)

-----------------------------------------------------------------------------
(* The order of the tiers and the worst of several.                         *)

LEMMA TierOrderType ==
  /\ \A t \in KnownTier : TierOrder(t) \in 1..4
  /\ TierOrder("insufficient_data") = -1
  /\ \A t \in Tier : TierOrder(t) \in -1..4
<1>1. \A t \in KnownTier : TierOrder(t) \in 1..4
  BY DEF KnownTier, TierOrder
<1>2. TierOrder("insufficient_data") = -1
  BY DEF TierOrder
<1>3. QED BY <1>1, <1>2 DEF Tier

\* Every non-empty set of known tiers has a least one.
LEMMA LeastTierExists ==
  ASSUME NEW S \in SUBSET KnownTier, S # {}
  PROVE  \E w \in S : \A t \in S : TierOrder(w) <= TierOrder(t)
<1>1. /\ TierOrder("elite") = 4 /\ TierOrder("high") = 3
      /\ TierOrder("medium") = 2 /\ TierOrder("low") = 1
  BY DEF TierOrder
<1>2. \A t \in S : t \in {"elite", "high", "medium", "low"}
  BY DEF KnownTier
<1>3. CASE "low" \in S
  BY <1>1, <1>2, <1>3
<1>4. CASE "low" \notin S /\ "medium" \in S
  BY <1>1, <1>2, <1>4
<1>5. CASE "low" \notin S /\ "medium" \notin S /\ "high" \in S
  BY <1>1, <1>2, <1>5
<1>6. CASE S = {"elite"}
  BY <1>1, <1>6
<1>7. QED BY <1>2, <1>3, <1>4, <1>5, <1>6

\* WorstOf is the least of the known tiers, or insufficient when there is none.
LEMMA WorstOfIsLeast ==
  ASSUME NEW S \in SUBSET Tier
  PROVE  LET known == S \cap KnownTier IN
         IF known = {} THEN WorstOf(S) = "insufficient_data"
         ELSE /\ WorstOf(S) \in known
              /\ \A t \in known : TierOrder(WorstOf(S)) <= TierOrder(t)
<1> DEFINE known == S \cap KnownTier
<1>1. {t \in S : TierOrder(t) >= 0} = known
  BY TierOrderType DEF Tier
<1>2. CASE known = {}
  BY <1>1, <1>2 DEF WorstOf
<1>3. CASE known # {}
  <2> DEFINE w == CHOOSE worst \in known : \A t \in known : TierOrder(worst) <= TierOrder(t)
  <2>1. \E worst \in known : \A t \in known : TierOrder(worst) <= TierOrder(t)
    <3>1. known \in SUBSET KnownTier
      OBVIOUS
    <3> HIDE DEF known
    <3>2. QED BY <1>3, <3>1, LeastTierExists
  <2>2. WorstOf(S) = w
    BY <1>1, <1>3 DEF WorstOf
  <2>3. w \in known /\ \A t \in known : TierOrder(w) <= TierOrder(t)
    <3> HIDE DEF known
    <3>1. QED BY <2>1
  <2> HIDE DEF w
  <2>4. QED BY <1>3, <2>2, <2>3
<1>4. QED BY <1>2, <1>3

-----------------------------------------------------------------------------
(***************************************************************************)
(* A classification may rise or lose its evidence.  When none of the four  *)
(* does anything else, the worst of them does not fall.                    *)
(***************************************************************************)

NotWorse(new, old) ==
  \/ new = "insufficient_data"
  \/ old \in KnownTier /\ new \in KnownTier /\ TierOrder(new) >= TierOrder(old)

LEMMA WorstNotWorse ==
  ASSUME NEW s \in [1..4 -> Tier], NEW t \in [1..4 -> Tier],
         \A i \in 1..4 : NotWorse(t[i], s[i])
  PROVE  ~ IsRegression(WorstOf({s[i] : i \in 1..4}), WorstOf({t[i] : i \in 1..4}))
<1> DEFINE S == {s[i] : i \in 1..4}
           T == {t[i] : i \in 1..4}
<1> SUFFICES ~ IsRegression(WorstOf(S), WorstOf(T))
  OBVIOUS
<1>1. S \in SUBSET Tier /\ T \in SUBSET Tier
  OBVIOUS
<1>2. CASE T \cap KnownTier = {}
  <2>1. WorstOf(T) = "insufficient_data"
    BY <1>1, <1>2, WorstOfIsLeast
  <2>2. QED BY <2>1, TierOrderType DEF IsRegression, BothKnown
<1>3. CASE T \cap KnownTier # {}
  <2>1. WorstOf(T) \in T \cap KnownTier
    BY <1>1, <1>3, WorstOfIsLeast
  <2>2. PICK i \in 1..4 : WorstOf(T) = t[i]
    BY <2>1
  <2>3. s[i] \in S \cap KnownTier /\ TierOrder(t[i]) >= TierOrder(s[i])
    BY <2>1, <2>2 DEF NotWorse, KnownTier
  <2>4. WorstOf(S) \in KnownTier /\ TierOrder(WorstOf(S)) <= TierOrder(s[i])
    BY <1>1, <2>3, WorstOfIsLeast
  <2>5. TierOrder(s[i]) \in Int /\ TierOrder(t[i]) \in Int /\ TierOrder(WorstOf(S)) \in Int
    BY <2>1, <2>2, <2>3, <2>4, TierOrderType
  <2> HIDE DEF S, T
  <2>6. QED BY <2>2, <2>3, <2>4, <2>5 DEF IsRegression
<1>4. QED BY <1>2, <1>3

LEMMA TierOrderValues ==
  /\ TierOrder("elite") = 4 /\ TierOrder("high") = 3
  /\ TierOrder("medium") = 2 /\ TierOrder("low") = 1
  BY DEF TierOrder

LEMMA NotWorseReflexive ==
  ASSUME NEW t \in Tier
  PROVE  NotWorse(t, t)
<1>1. t \in KnownTier => TierOrder(t) \in Int
  BY TierOrderType
<1>2. QED BY <1>1 DEF NotWorse, Tier

LEMMA FasterNotWorse ==
  ASSUME NEW a \in Int, NEW b \in Int, b <= a, NEW n \in Nat, NEW k \in Nat,
         n # 0 \/ k = 0, NEW limit \in [Levels -> Int]
  PROVE  NotWorse(ClassifyDuration(k, b, limit), ClassifyDuration(n, a, limit))
<1>1. limit.elite \in Int /\ limit.high \in Int /\ limit.medium \in Int
  BY DEF Levels
<1>2. CASE k = 0
  BY <1>2 DEF ClassifyDuration, NotWorse
<1>3. CASE k # 0
  <2>1. /\ ClassifyDuration(n, a, limit)
             = FirstEarned(a < limit.elite, a < limit.high, a < limit.medium)
        /\ ClassifyDuration(k, b, limit)
             = FirstEarned(b < limit.elite, b < limit.high, b < limit.medium)
    BY <1>3 DEF ClassifyDuration
  <2>2. /\ a < limit.elite => b < limit.elite
        /\ a < limit.high => b < limit.high
        /\ a < limit.medium => b < limit.medium
    BY <1>1
  <2>3. QED BY <2>1, <2>2, TierOrderValues DEF FirstEarned, NotWorse, KnownTier
<1>4. QED BY <1>2, <1>3

\* Comparing ratios by cross multiplication is monotone in the measured side.
LEMMA ScaledMore ==
  ASSUME NEW a \in Nat, NEW b \in Nat, a <= b, NEW q \in Nat
  PROVE  a * q <= b * q
<1>1. PICK d \in Nat : b = a + d
  <2>1. b - a \in Nat /\ b = a + (b - a)
    OBVIOUS
  <2>2. QED BY <2>1
<1>2. b * q = a * q + d * q /\ d * q \in Nat /\ a * q \in Nat
  BY <1>1
<1>3. QED BY <1>2

LEMMA MoreDeploysNotWorse ==
  ASSUME NEW a \in Nat \ {0}, NEW b \in Nat, a <= b, NEW w \in Nat,
         NEW limit \in [Levels -> Ratio]
  PROVE  NotWorse(ClassifyDeploymentFrequency(b, w, limit),
                  ClassifyDeploymentFrequency(a, w, limit))
<1> DEFINE AtLeast(n, level) == n * limit[level][2] >= limit[level][1] * w
<1>1. ASSUME NEW level \in Levels PROVE AtLeast(a, level) => AtLeast(b, level)
  <2>1. limit[level][2] \in Nat /\ limit[level][1] \in Nat
    BY DEF Ratio
  <2>2. a * limit[level][2] <= b * limit[level][2]
    BY <2>1, ScaledMore
  <2>3. /\ a * limit[level][2] \in Nat /\ b * limit[level][2] \in Nat
        /\ limit[level][1] * w \in Nat
    BY <2>1
  <2>4. QED BY <2>2, <2>3
<1>2. /\ ClassifyDeploymentFrequency(a, w, limit)
           = FirstEarned(AtLeast(a, "elite"), AtLeast(a, "high"), AtLeast(a, "medium"))
      /\ ClassifyDeploymentFrequency(b, w, limit)
           = FirstEarned(AtLeast(b, "elite"), AtLeast(b, "high"), AtLeast(b, "medium"))
  BY DEF ClassifyDeploymentFrequency
<1>3. {"elite", "high", "medium"} \subseteq Levels
  BY DEF Levels
<1>4. /\ AtLeast(a, "elite") => AtLeast(b, "elite")
      /\ AtLeast(a, "high") => AtLeast(b, "high")
      /\ AtLeast(a, "medium") => AtLeast(b, "medium")
  BY <1>1, <1>3
<1> HIDE DEF AtLeast
<1>5. QED BY <1>2, <1>4, TierOrderValues DEF FirstEarned, NotWorse, KnownTier

LEMMA FewerFailuresNotWorse ==
  ASSUME NEW f \in Nat, NEW g \in Nat, g <= f, NEW a \in Nat, NEW b \in Nat, a <= b, a # 0,
         NEW limit \in [Levels -> Ratio]
  PROVE  NotWorse(ClassifyChangeFailureRate(g, b, limit),
                  ClassifyChangeFailureRate(f, a, limit))
<1> DEFINE AtMost(x, n, level) == x * limit[level][2] <= limit[level][1] * n
<1>1. ASSUME NEW level \in Levels PROVE AtMost(f, a, level) => AtMost(g, b, level)
  <2>1. limit[level][2] \in Nat /\ limit[level][1] \in Nat
    BY DEF Ratio
  <2>2. g * limit[level][2] <= f * limit[level][2]
    BY <2>1, ScaledMore
  <2>3. a * limit[level][1] <= b * limit[level][1]
    BY <2>1, ScaledMore
  <2>4. /\ g * limit[level][2] \in Nat /\ f * limit[level][2] \in Nat
        /\ a * limit[level][1] = limit[level][1] * a
        /\ b * limit[level][1] = limit[level][1] * b
        /\ a * limit[level][1] \in Nat /\ b * limit[level][1] \in Nat
    BY <2>1
  <2>5. QED BY <2>2, <2>3, <2>4
<1>2. /\ ClassifyChangeFailureRate(f, a, limit)
           = FirstEarned(AtMost(f, a, "elite"), AtMost(f, a, "high"), AtMost(f, a, "medium"))
      /\ ClassifyChangeFailureRate(g, b, limit)
           = FirstEarned(AtMost(g, b, "elite"), AtMost(g, b, "high"), AtMost(g, b, "medium"))
  BY DEF ClassifyChangeFailureRate
<1>3. {"elite", "high", "medium"} \subseteq Levels
  BY DEF Levels
<1>4. /\ AtMost(f, a, "elite") => AtMost(g, b, "elite")
      /\ AtMost(f, a, "high") => AtMost(g, b, "high")
      /\ AtMost(f, a, "medium") => AtMost(g, b, "medium")
  BY <1>1, <1>3
<1> HIDE DEF AtMost
<1>5. QED BY <1>2, <1>4, TierOrderValues DEF FirstEarned, NotWorse, KnownTier

-----------------------------------------------------------------------------
(* The steps of the window.                                                 *)

LEMMA ClassifyTypes ==
  ASSUME NEW x \in Int, NEW y \in Int, NEW z \in Int, NEW limit
  PROVE  /\ ClassifyDeploymentFrequency(x, y, limit) \in Tier
         /\ ClassifyDuration(x, y, limit) \in Tier
         /\ ClassifyChangeFailureRate(x, y, limit) \in Tier
  BY DEF ClassifyDeploymentFrequency, ClassifyDuration, ClassifyChangeFailureRate,
         FirstEarned, Tier, KnownTier

LEMMA MeasurementsType ==
  \A x \in Measurements :
    /\ x.deploys \in Nat /\ x.failed \in Nat /\ x.ltSample \in Nat /\ x.lt \in Nat
    /\ x.mttrSample \in Nat /\ x.mttr \in Nat
<1>1. Durations \cup {Nil} \subseteq Nat /\ 0..MaxDeploys \subseteq Nat
  BY RatingAssumption DEF Nil
<1>2. SUFFICES ASSUME NEW x \in Measurements
               PROVE  /\ x.deploys \in Nat /\ x.failed \in Nat /\ x.ltSample \in Nat
                      /\ x.lt \in Nat /\ x.mttrSample \in Nat /\ x.mttr \in Nat
  OBVIOUS
<1>3. /\ x.deploys \in 0..MaxDeploys /\ x.failed \in 0..MaxDeploys
      /\ x.ltSample \in {0, 1} /\ x.mttrSample \in {0, 1}
      /\ x.lt \in Durations \cup {Nil} /\ x.mttr \in Durations \cup {Nil}
  BY DEF Measurements
<1>4. QED BY <1>1, <1>3

LEMMA TiersType == RatingTypeOK => Tiers \in [1..4 -> Tier]
<1> SUFFICES ASSUME RatingTypeOK PROVE Tiers \in [1..4 -> Tier]
  OBVIOUS
<1>1. /\ m.deploys \in Int /\ m.failed \in Int /\ m.ltSample \in Int /\ m.lt \in Int
      /\ m.mttrSample \in Int /\ m.mttr \in Int /\ days \in Int
  BY MeasurementsType, RatingAssumption DEF RatingTypeOK
<1>2. /\ ClassifyDeploymentFrequency(m.deploys, days, limits.df) \in Tier
      /\ ClassifyDuration(m.ltSample, m.lt, limits.lt) \in Tier
      /\ ClassifyChangeFailureRate(m.failed, m.deploys, limits.cfr) \in Tier
      /\ ClassifyDuration(m.mttrSample, m.mttr, limits.mttr) \in Tier
  BY <1>1, ClassifyTypes
<1>3. QED BY <1>2 DEF Tiers

LEMMA TiersTypeNext == RatingTypeOK' => (Tiers \in [1..4 -> Tier])'
  BY TiersType, PTL

\* What the steps that better the window, or take evidence from it, have in common.
Improves(x, y) ==
  /\ x.deploys <= y.deploys /\ (x.deploys = 0 => y.deploys = 0) /\ y.failed <= x.failed
  /\ y.ltSample = 0 \/ (x.ltSample # 0 /\ y.lt <= x.lt)
  /\ y.mttrSample = 0 \/ (x.mttrSample # 0 /\ y.mttr <= x.mttr)

LEMMA StepImproves ==
  ASSUME RatingTypeOK, Better \/ EvidenceLeaves
  PROVE  Improves(m, m') /\ UNCHANGED <<days, limits>>
<1>1. /\ m.deploys \in Nat /\ m.failed \in Nat /\ m.ltSample \in Nat /\ m.lt \in Nat
      /\ m.mttrSample \in Nat /\ m.mttr \in Nat
  BY MeasurementsType DEF RatingTypeOK
<1>2. m \in Measurements
  BY DEF RatingTypeOK
<1>3. CASE DeployMore
  BY <1>1, <1>2, <1>3 DEF DeployMore, Becomes, Improves, Measurements
<1>4. CASE FailLess
  BY <1>1, <1>2, <1>4 DEF FailLess, Becomes, Improves, Measurements
<1>5. CASE LeadFaster
  <2>1. PICK s \in Durations : s < m.lt /\ Becomes([m EXCEPT !.lt = s])
    BY <1>5 DEF LeadFaster
  <2>2. s \in Nat
    BY RatingAssumption
  <2>3. QED BY <1>1, <1>2, <1>5, <2>1, <2>2 DEF LeadFaster, Becomes, Improves, Measurements
<1>6. CASE RecoverFaster
  <2>1. PICK s \in Durations : s < m.mttr /\ Becomes([m EXCEPT !.mttr = s])
    BY <1>6 DEF RecoverFaster
  <2>2. s \in Nat
    BY RatingAssumption
  <2>3. QED BY <1>1, <1>2, <1>6, <2>1, <2>2 DEF RecoverFaster, Becomes, Improves, Measurements
<1>7. CASE EvidenceLeaves
  <2>1. CASE Becomes([m EXCEPT !.ltSample = 0, !.lt = Nil])
    BY <1>1, <1>2, <2>1 DEF Becomes, Improves, Measurements
  <2>2. CASE Becomes([m EXCEPT !.mttrSample = 0, !.mttr = Nil])
    BY <1>1, <1>2, <2>2 DEF Becomes, Improves, Measurements
  <2>3. QED BY <1>7, <2>1, <2>2 DEF EvidenceLeaves
<1>8. QED BY <1>3, <1>4, <1>5, <1>6, <1>7 DEF Better

LEMMA ImprovedTiers ==
  ASSUME RatingTypeOK, RatingTypeOK', Improves(m, m'), UNCHANGED <<days, limits>>
  PROVE  \A i \in 1..4 : NotWorse(Tiers'[i], Tiers[i])
<1>1. /\ m.deploys \in Nat /\ m.failed \in Nat /\ m.ltSample \in Nat /\ m.lt \in Nat
      /\ m.mttrSample \in Nat /\ m.mttr \in Nat
  BY MeasurementsType DEF RatingTypeOK
<1>2. /\ m'.deploys \in Nat /\ m'.failed \in Nat /\ m'.ltSample \in Nat /\ m'.lt \in Nat
      /\ m'.mttrSample \in Nat /\ m'.mttr \in Nat
  BY MeasurementsType DEF RatingTypeOK
<1>3. /\ days \in Nat /\ limits.df \in [Levels -> Ratio] /\ limits.lt \in [Levels -> Int]
      /\ limits.cfr \in [Levels -> Ratio] /\ limits.mttr \in [Levels -> Int]
  BY RatingAssumption DEF RatingTypeOK, Limits
<1>4. NotWorse(ClassifyDeploymentFrequency(m'.deploys, days, limits.df),
               ClassifyDeploymentFrequency(m.deploys, days, limits.df))
  <2>1. CASE m.deploys = 0
    BY <2>1 DEF Improves, ClassifyDeploymentFrequency, NotWorse
  <2>2. CASE m.deploys # 0
    BY <1>1, <1>2, <1>3, <2>2, MoreDeploysNotWorse DEF Improves
  <2>3. QED BY <2>1, <2>2
<1>5. NotWorse(ClassifyDuration(m'.ltSample, m'.lt, limits.lt),
               ClassifyDuration(m.ltSample, m.lt, limits.lt))
  <2>1. CASE m'.ltSample = 0
    BY <2>1 DEF ClassifyDuration, NotWorse
  <2>2. CASE m'.ltSample # 0
    BY <1>1, <1>2, <1>3, <2>2, FasterNotWorse DEF Improves
  <2>3. QED BY <2>1, <2>2
<1>6. NotWorse(ClassifyChangeFailureRate(m'.failed, m'.deploys, limits.cfr),
               ClassifyChangeFailureRate(m.failed, m.deploys, limits.cfr))
  <2>1. CASE m.deploys = 0
    BY <2>1 DEF Improves, ClassifyChangeFailureRate, NotWorse
  <2>2. CASE m.deploys # 0
    BY <1>1, <1>2, <1>3, <2>2, FewerFailuresNotWorse DEF Improves
  <2>3. QED BY <2>1, <2>2
<1>7. NotWorse(ClassifyDuration(m'.mttrSample, m'.mttr, limits.mttr),
               ClassifyDuration(m.mttrSample, m.mttr, limits.mttr))
  <2>1. CASE m'.mttrSample = 0
    BY <2>1 DEF ClassifyDuration, NotWorse
  <2>2. CASE m'.mttrSample # 0
    <3>1. m.mttrSample # 0 /\ m'.mttr <= m.mttr
      BY <2>2 DEF Improves
    <3>2. QED BY <1>1, <1>2, <1>3, <3>1, FasterNotWorse
  <2>3. QED BY <2>1, <2>2
<1>8. QED BY <1>4, <1>5, <1>6, <1>7 DEF Tiers

LEMMA RatingTypeInit == RatingInit => RatingTypeOK
  BY RatingAssumption DEF RatingInit, RatingTypeOK

LEMMA RatingTypeNext == RatingTypeOK /\ [RatingNext]_ratingVars => RatingTypeOK'
<1> SUFFICES ASSUME RatingTypeOK, [RatingNext]_ratingVars PROVE RatingTypeOK'
  OBVIOUS
<1>0. m \in Measurements /\ MaxDeploys \in Nat /\ Durations \subseteq Nat
  BY RatingAssumption DEF RatingTypeOK
<1>1. CASE DeployMore
  BY <1>0, <1>1 DEF DeployMore, Becomes, RatingTypeOK, Measurements
<1>2. CASE FailLess
  BY <1>0, <1>2 DEF FailLess, Becomes, RatingTypeOK, Measurements
<1>3. CASE LeadFaster
  BY <1>0, <1>3 DEF LeadFaster, Becomes, RatingTypeOK, Measurements
<1>4. CASE RecoverFaster
  BY <1>0, <1>4 DEF RecoverFaster, Becomes, RatingTypeOK, Measurements
<1>5. CASE EvidenceLeaves
  BY <1>0, <1>5 DEF EvidenceLeaves, Becomes, RatingTypeOK, Measurements
<1>6. CASE EvidenceEnters
  <2>1. ASSUME m.ltSample = 0, NEW s \in Durations,
               Becomes([m EXCEPT !.ltSample = 1, !.lt = s])
        PROVE  RatingTypeOK'
    <3>1. m' = [m EXCEPT !.ltSample = 1, !.lt = s] /\ UNCHANGED <<days, limits>>
      BY <2>1 DEF Becomes
    <3>2. m' \in [deploys : 0..MaxDeploys, failed : 0..MaxDeploys, ltSample : {0, 1},
                  lt : Durations \cup {Nil}, mttrSample : {0, 1}, mttr : Durations \cup {Nil}]
      BY <1>0, <3>1 DEF Measurements
    <3>3. /\ m'.ltSample = 1 /\ m'.deploys = m.deploys /\ m'.failed = m.failed
          /\ m'.mttrSample = m.mttrSample /\ m'.mttr = m.mttr
      BY <1>0, <3>1 DEF Measurements
    <3>4. /\ m.failed <= m.deploys
          /\ m.ltSample = 0 => m.lt = Nil
          /\ m.mttrSample = 0 => m.mttr = Nil
      BY <1>0 DEF Measurements
    <3>5. m' \in Measurements
      BY <3>2, <3>3, <3>4 DEF Measurements
    <3>6. QED BY <3>1, <3>5 DEF RatingTypeOK
  <2>2. ASSUME m.mttrSample = 0, NEW s \in Durations,
               Becomes([m EXCEPT !.mttrSample = 1, !.mttr = s])
        PROVE  RatingTypeOK'
    <3>1. m' = [m EXCEPT !.mttrSample = 1, !.mttr = s] /\ UNCHANGED <<days, limits>>
      BY <2>2 DEF Becomes
    <3>2. m' \in [deploys : 0..MaxDeploys, failed : 0..MaxDeploys, ltSample : {0, 1},
                  lt : Durations \cup {Nil}, mttrSample : {0, 1}, mttr : Durations \cup {Nil}]
      BY <1>0, <3>1 DEF Measurements
    <3>3. /\ m'.mttrSample = 1 /\ m'.deploys = m.deploys /\ m'.failed = m.failed
          /\ m'.ltSample = m.ltSample /\ m'.lt = m.lt
      BY <1>0, <3>1 DEF Measurements
    <3>4. /\ m.failed <= m.deploys
          /\ m.ltSample = 0 => m.lt = Nil
          /\ m.mttrSample = 0 => m.mttr = Nil
      BY <1>0 DEF Measurements
    <3>5. m' \in Measurements
      BY <3>2, <3>3, <3>4 DEF Measurements
    <3>6. QED BY <3>1, <3>5 DEF RatingTypeOK
  <2>3. ASSUME m.deploys = 0, MaxDeploys > 0, Becomes([m EXCEPT !.deploys = 1]) PROVE RatingTypeOK'
    BY <1>0, <2>3 DEF Becomes, RatingTypeOK, Measurements
  <2>4. QED BY <1>6, <2>1, <2>2, <2>3 DEF EvidenceEnters
<1>7. CASE UNCHANGED ratingVars
  BY <1>7 DEF ratingVars, RatingTypeOK
<1>8. QED BY <1>1, <1>2, <1>3, <1>4, <1>5, <1>6, <1>7 DEF RatingNext, Better

LEMMA StepNeverDemotes ==
  RatingTypeOK /\ RatingTypeOK'
    => [Better \/ EvidenceLeaves => ~ IsRegression(CurrentTier, CurrentTier')]_ratingVars
<1> SUFFICES ASSUME RatingTypeOK, RatingTypeOK', Better \/ EvidenceLeaves
             PROVE  ~ IsRegression(CurrentTier, CurrentTier')
  OBVIOUS
<1>1. Tiers \in [1..4 -> Tier] /\ Tiers' \in [1..4 -> Tier]
  BY TiersType, TiersTypeNext
<1>2. \A i \in 1..4 : NotWorse(Tiers'[i], Tiers[i])
  BY StepImproves, ImprovedTiers
<1>3. QED BY <1>1, <1>2, WorstNotWorse DEF CurrentTier

\* Better deploys, failures, lead times or recoveries, and evidence that leaves
\* the window, never lower the classification HandleComputeMetricWindow stores,
\* for every tenant's thresholds: so no regression is alerted because of them.
THEOREM ImprovementIsSafe == RatingSpec => ImprovementNeverDemotes
<1>1. RatingSpec => []RatingTypeOK
  BY RatingTypeInit, RatingTypeNext, PTL DEF RatingSpec
<1>2. QED BY <1>1, StepNeverDemotes, PTL DEF ImprovementNeverDemotes

-----------------------------------------------------------------------------
(***************************************************************************)
(* Part 3.  TeamRating: the rows of several projects measured together.    *)
(***************************************************************************)

-----------------------------------------------------------------------------
(* Finite sets of sets and of numbers.                                      *)

LEMMA SmallestSet ==
  ASSUME NEW S, IsFiniteSet(S), NEW T, \A x \in T : x \subseteq S, T # {}
  PROVE  \E x \in T : \A y \in T : y \subseteq x => y = x
<1>1. T \subseteq FiniteSubsetsOf(S)
  BY FS_Subset DEF FiniteSubsetsOf
<1>2. PICK x \in T : \A y \in T : ~ (<<y, x>> \in StrictSubsetOrdering(S))
  BY <1>1, FS_StrictSubsetOrderingWellFounded, WFMin
<1>3. QED BY <1>2 DEF StrictSubsetOrdering

LEMMA Greatest ==
  ASSUME NEW S, IsFiniteSet(S), S # {}, NEW f, \A x \in S : f[x] \in Nat
  PROVE  \E x \in S : \A y \in S : f[y] <= f[x]
<1> DEFINE From(x) == {y \in S : f[y] >= f[x]}
           T == {From(x) : x \in S}
<1>1. \A y \in T : y \subseteq S
  OBVIOUS
<1>2. T # {}
  OBVIOUS
<1>3. PICK t \in T : \A y \in T : y \subseteq t => y = t
  <2> HIDE DEF From, T
  <2>1. QED BY <1>1, <1>2, SmallestSet
<1>4. PICK x \in S : t = From(x)
  OBVIOUS
<1>5. ASSUME NEW y \in S, f[y] > f[x] PROVE FALSE
  <2>1. From(y) \in T
    OBVIOUS
  <2>2. From(y) \subseteq From(x)
    <3> SUFFICES ASSUME NEW z \in From(y) PROVE z \in From(x)
      OBVIOUS
    <3>1. z \in S /\ f[z] >= f[y] /\ f[z] \in Nat /\ f[y] \in Nat /\ f[x] \in Nat
      OBVIOUS
    <3>2. f[z] >= f[x]
      BY <1>5, <3>1
    <3>3. QED BY <3>1, <3>2
  <2>3. From(y) = From(x)
    BY <1>3, <1>4, <2>1, <2>2
  <2>4. f[x] \in Nat /\ f[y] \in Nat
    OBVIOUS
  <2>5. x \in From(x) /\ x \notin From(y)
    BY <1>5, <2>4
  <2>6. QED BY <2>3, <2>5
<1>6. ASSUME NEW y \in S PROVE f[y] <= f[x]
  <2>1. f[x] \in Nat /\ f[y] \in Nat
    OBVIOUS
  <2>2. QED BY <1>5, <2>1
<1>7. QED BY <1>6

LEMMA Least ==
  ASSUME NEW S, S # {}, NEW f, \A x \in S : f[x] \in Nat
  PROVE  \E x \in S : \A y \in S : f[x] <= f[y]
<1> DEFINE T == {f[x] : x \in S}
<1>1. T \subseteq Nat /\ T # {}
  OBVIOUS
<1>2. PICK n \in T : \A k \in T : <<k, n>> \notin OpToRel(<, Nat)
  <2> HIDE DEF T
  <2>1. QED BY <1>1, NatLessThanWellFounded, WFMin
<1>3. PICK x \in S : n = f[x]
  OBVIOUS
<1>4. ASSUME NEW y \in S PROVE f[x] <= f[y]
  <2>1. f[x] \in Nat /\ f[y] \in Nat /\ f[y] \in T
    OBVIOUS
  <2>2. ~ (f[y] < f[x])
    BY <1>2, <1>3, <2>1 DEF OpToRel
  <2>3. QED BY <2>1, <2>2
<1>5. QED BY <1>4

-----------------------------------------------------------------------------
(***************************************************************************)
(* A number for every set of projects, and the number of two sets that     *)
(* have no project in common is the sum of theirs.                         *)
(***************************************************************************)

Additive(c, P) ==
  /\ c \in [SUBSET P -> Int] /\ c[{}] = 0
  /\ \A Q \in SUBSET P : \A p \in Q : c[Q] = c[Q \ {p}] + c[{p}]

LEMMA AdditiveNat ==
  ASSUME NEW P, IsFiniteSet(P), NEW c, Additive(c, P), \A p \in P : c[{p}] >= 0
  PROVE  \A Q \in SUBSET P : c[Q] >= 0
<1> DEFINE T == {Q \in SUBSET P : c[Q] < 0}
<1>1. CASE T = {}
  BY <1>1 DEF Additive
<1>2. CASE T # {}
  <2>1. PICK Q \in T : \A y \in T : y \subseteq Q => y = Q
    <3>1. \A y \in T : y \subseteq P
      OBVIOUS
    <3> HIDE DEF T
    <3>2. QED BY <1>2, <3>1, SmallestSet
  <2>2. Q # {}
    <3>1. c[{}] = 0 /\ ~ (0 < 0)
      BY DEF Additive
    <3>2. c[Q] < 0
      OBVIOUS
    <3>3. QED BY <3>1, <3>2
  <2>3. PICK p \in Q : TRUE
    BY <2>2
  <2>4. Q \ {p} \notin T
    BY <2>1, <2>3
  <2>5. c[Q \ {p}] >= 0 /\ c[{p}] >= 0 /\ c[Q] = c[Q \ {p}] + c[{p}]
    BY <2>4 DEF Additive
  <2>6. c[Q \ {p}] \in Int /\ c[{p}] \in Int /\ c[Q] \in Int
    BY DEF Additive
  <2>7. QED BY <2>1, <2>5, <2>6
<1>3. QED BY <1>1, <1>2

\* A total that is not positive has a part that is negative, or all parts are zero.
LEMMA SomePart ==
  ASSUME NEW P, IsFiniteSet(P), NEW c, Additive(c, P), c[P] <= 0,
         \A p \in P : c[{p}] >= 0
  PROVE  \A p \in P : c[{p}] = 0
<1> SUFFICES ASSUME NEW p \in P PROVE c[{p}] = 0
  OBVIOUS
<1>1. c[P] = c[P \ {p}] + c[{p}]
  BY DEF Additive
<1>2. c[P \ {p}] >= 0 /\ c[{p}] >= 0
  BY AdditiveNat
<1>3. c[P \ {p}] \in Int /\ c[{p}] \in Int /\ c[P] \in Int
  BY DEF Additive
<1>4. QED BY <1>1, <1>2, <1>3

LEMMA SomePartNegative ==
  ASSUME NEW P, IsFiniteSet(P), NEW c, Additive(c, P), c[P] < 0
  PROVE  \E p \in P : c[{p}] < 0
<1>1. PICK p \in P : ~ (c[{p}] >= 0)
  <2>1. c[P] \in Int /\ ~ (c[P] >= 0)
    BY DEF Additive
  <2>2. QED BY <2>1, AdditiveNat
<1>2. c[{p}] \in Int
  <2>1. {p} \in SUBSET P
    OBVIOUS
  <2>2. QED BY <2>1 DEF Additive
<1>3. QED BY <1>1, <1>2

-----------------------------------------------------------------------------
(***************************************************************************)
(* The sum of a function over a finite set, which SumFunction takes in an  *)
(* unspecified order: it exists, is unique, and does not depend on the     *)
(* order.                                                                  *)
(***************************************************************************)

SumStep(f, v, s) ==
  IF s = {} THEN 0 ELSE v[CHOOSE y \in s : TRUE] + f[s \ {CHOOSE y \in s : TRUE}]

IsSum(f, v, T) == f = [s \in SUBSET T |-> SumStep(f, v, s)]

LEMMA SumsAgree ==
  ASSUME NEW S, IsFiniteSet(S), NEW T, T \subseteq S, NEW v,
         NEW f, IsSum(f, v, T), NEW g, IsSum(g, v, S)
  PROVE  \A s \in SUBSET T : f[s] = g[s]
<1> DEFINE Bad == {s \in SUBSET T : f[s] # g[s]}
<1>1. CASE Bad = {}
  BY <1>1
<1>2. CASE Bad # {}
  <2>1. PICK s \in Bad : \A y \in Bad : y \subseteq s => y = s
    <3>1. \A y \in Bad : y \subseteq S
      OBVIOUS
    <3> HIDE DEF Bad
    <3>2. QED BY <1>2, <3>1, SmallestSet
  <2>2. f[s] = SumStep(f, v, s) /\ g[s] = SumStep(g, v, s)
    BY DEF IsSum
  <2>3. s # {}
    BY <2>2 DEF SumStep
  <2> DEFINE x == CHOOSE y \in s : TRUE
  <2>4. x \in s
    BY <2>3
  <2>5. f[s \ {x}] = g[s \ {x}]
    BY <2>1, <2>4
  <2>6. f[s] = v[x] + f[s \ {x}] /\ g[s] = v[x] + g[s \ {x}]
    BY <2>2, <2>3 DEF SumStep
  <2>7. QED BY <2>5, <2>6
<1>3. QED BY <1>1, <1>2

LEMMA SumExists ==
  ASSUME NEW S, IsFiniteSet(S), NEW v
  PROVE  \E f : IsSum(f, v, S)
<1> DEFINE Bad == {T \in SUBSET S : ~ \E f : IsSum(f, v, T)}
<1>1. CASE Bad = {}
  BY <1>1
<1>2. CASE Bad # {}
  <2>1. PICK T \in Bad : \A y \in Bad : y \subseteq T => y = T
    <3>1. \A y \in Bad : y \subseteq S
      OBVIOUS
    <3> HIDE DEF Bad
    <3>2. QED BY <1>2, <3>1, SmallestSet
  <2> DEFINE Sub(s) == s \ {CHOOSE y \in s : TRUE}
             fn(s) == CHOOSE f : IsSum(f, v, s)
             h == [s \in SUBSET T |->
                     IF s = {} THEN 0 ELSE v[CHOOSE y \in s : TRUE] + fn(Sub(s))[Sub(s)]]
  <2>2. ASSUME NEW s \in SUBSET T, s # T PROVE IsSum(fn(s), v, s)
    <3>1. \E f : IsSum(f, v, s)
      BY <2>1, <2>2
    <3>2. QED BY <3>1
  <2>3. ASSUME NEW s \in SUBSET T, s # {} PROVE Sub(s) \subseteq s /\ Sub(s) # s
    BY <2>3
  <2>4. ASSUME NEW s \in SUBSET T, s # T PROVE h[s] = fn(s)[s]
    <3>1. IsSum(fn(s), v, s)
      BY <2>2, <2>4
    <3> HIDE DEF fn
    <3>2. fn(s)[s] = SumStep(fn(s), v, s)
      BY <3>1 DEF IsSum
    <3>3. CASE s = {}
      BY <3>2, <3>3 DEF SumStep
    <3>4. CASE s # {}
      <4>1. Sub(s) \subseteq s /\ Sub(s) # s
        BY <2>3, <3>4
      <4>2. Sub(s) # T /\ Sub(s) \in SUBSET T
        BY <2>4, <4>1
      <4>3. IsSum(fn(Sub(s)), v, Sub(s))
        BY <2>2, <4>2
      <4>4. IsFiniteSet(s)
        BY FS_Subset
      <4> HIDE DEF Sub
      <4>5. \A t \in SUBSET Sub(s) : fn(Sub(s))[t] = fn(s)[t]
        BY <3>1, <4>1, <4>3, <4>4, SumsAgree
      <4>6. fn(Sub(s))[Sub(s)] = fn(s)[Sub(s)]
        BY <4>5
      <4>7. fn(s)[s] = v[CHOOSE y \in s : TRUE] + fn(s)[Sub(s)]
        BY <3>2, <3>4 DEF SumStep, Sub
      <4>8. h[s] = v[CHOOSE y \in s : TRUE] + fn(Sub(s))[Sub(s)]
        BY <3>4
      <4>9. QED BY <4>6, <4>7, <4>8
    <3>5. QED BY <3>3, <3>4
  <2>5. ASSUME NEW s \in SUBSET T PROVE h[s] = SumStep(h, v, s)
    <3>1. CASE s = {}
      BY <3>1 DEF SumStep
    <3>2. CASE s # {}
      <4>1. Sub(s) \in SUBSET T /\ Sub(s) # T
        BY <2>3, <3>2
      <4>2. h[Sub(s)] = fn(Sub(s))[Sub(s)]
        <5> HIDE DEF Sub, h, fn
        <5>1. QED BY <2>4, <4>1
      <4>3. h[s] = v[CHOOSE y \in s : TRUE] + fn(Sub(s))[Sub(s)]
        BY <3>2
      <4> HIDE DEF h, fn
      <4>4. QED BY <3>2, <4>2, <4>3 DEF SumStep
    <3>3. QED BY <3>1, <3>2
  <2>6. h = [s \in SUBSET T |-> h[s]]
    OBVIOUS
  <2> HIDE DEF h
  <2>7. h = [s \in SUBSET T |-> SumStep(h, v, s)]
    BY <2>5, <2>6
  <2>8. IsSum(h, v, T)
    BY <2>7 DEF IsSum
  <2>9. QED BY <2>8
<1>3. QED BY <1>1, <1>2

LEMMA SumFunctionIs ==
  ASSUME NEW S, IsFiniteSet(S), NEW v, DOMAIN v = S, NEW g, IsSum(g, v, S)
  PROVE  SumFunction(v) = g[S]
<1> DEFINE Fits(f) == f = [s \in SUBSET S |->
             IF s = {} THEN 0 ELSE v[CHOOSE y \in s : TRUE] + f[s \ {CHOOSE y \in s : TRUE}]]
           iter == CHOOSE f : Fits(f)
<1>1. SumFunction(v) = iter[S]
  BY DEF SumFunction, SumFunctionOnSet, FoldFunctionOnSet, MapThenFoldSet
<1>2. \A f : Fits(f) <=> IsSum(f, v, S)
  BY DEF IsSum, SumStep
<1> HIDE DEF Fits
<1>3. Fits(g)
  BY <1>2
<1>4. IsSum(iter, v, S)
  <2>1. Fits(iter)
    BY <1>3
  <2>2. QED BY <1>2, <2>1
<1> HIDE DEF iter
<1>5. iter[S] = g[S]
  BY <1>4, SumsAgree
<1>6. QED BY <1>1, <1>5

LEMMA SumType ==
  ASSUME NEW S, IsFiniteSet(S), NEW v \in [S -> Nat], NEW g, IsSum(g, v, S)
  PROVE  g \in [SUBSET S -> Nat] /\ g[{}] = 0
<1> DEFINE Bad == {s \in SUBSET S : g[s] \notin Nat}
<1>1. \A s \in SUBSET S : g[s] = SumStep(g, v, s)
  BY DEF IsSum
<1>2. CASE Bad = {}
  <2>1. g = [s \in SUBSET S |-> g[s]]
    BY DEF IsSum
  <2>2. {} \in SUBSET S
    OBVIOUS
  <2>3. g[{}] = 0
    BY <1>1, <2>2 DEF SumStep
  <2>4. QED BY <1>2, <2>1, <2>3
<1>3. CASE Bad # {}
  <2>1. PICK s \in Bad : \A y \in Bad : y \subseteq s => y = s
    <3>1. \A y \in Bad : y \subseteq S
      OBVIOUS
    <3> HIDE DEF Bad
    <3>2. QED BY <1>3, <3>1, SmallestSet
  <2>2. s # {}
    <3>1. SumStep(g, v, {}) \in Nat
      BY DEF SumStep
    <3>2. g[s] = SumStep(g, v, s) /\ g[s] \notin Nat
      BY <1>1
    <3>3. QED BY <3>1, <3>2
  <2> DEFINE x == CHOOSE y \in s : TRUE
  <2>3. x \in s
    BY <2>2
  <2>4. g[s] = v[x] + g[s \ {x}]
    BY <1>1, <2>2 DEF SumStep
  <2> HIDE DEF x
  <2>5. g[s \ {x}] \in Nat /\ v[x] \in Nat
    BY <2>1, <2>3
  <2>6. g[s] \in Nat
    BY <2>4, <2>5
  <2>7. QED BY <2>6
<1>4. QED BY <1>2, <1>3

\* The element that is added last may be any.
LEMMA SumRemove ==
  ASSUME NEW S, IsFiniteSet(S), NEW v \in [S -> Nat], NEW g, IsSum(g, v, S)
  PROVE  \A s \in SUBSET S : \A x \in s : g[s] = v[x] + g[s \ {x}]
<1> DEFINE Bad == {s \in SUBSET S : ~ \A x \in s : g[s] = v[x] + g[s \ {x}]}
<1>1. \A s \in SUBSET S : g[s] = SumStep(g, v, s) /\ g[s] \in Nat
  BY SumType DEF IsSum
<1>2. CASE Bad = {}
  BY <1>2
<1>3. CASE Bad # {}
  <2>1. PICK s \in Bad : \A y \in Bad : y \subseteq s => y = s
    <3>1. \A y \in Bad : y \subseteq S
      OBVIOUS
    <3> HIDE DEF Bad
    <3>2. QED BY <1>3, <3>1, SmallestSet
  <2>2. PICK x \in s : g[s] # v[x] + g[s \ {x}]
    OBVIOUS
  <2> DEFINE z == CHOOSE y \in s : TRUE
  <2>3. z \in s
    BY <2>2
  <2>4. g[s] = v[z] + g[s \ {z}]
    BY <1>1, <2>2 DEF SumStep
  <2> HIDE DEF z
  <2>5. x # z
    BY <2>2, <2>4
  <2>6. s \ {z} \notin Bad /\ s \ {x} \notin Bad
    BY <2>1, <2>2, <2>3
  <2>7. g[s \ {z}] = v[x] + g[(s \ {z}) \ {x}]
    BY <2>2, <2>5, <2>6
  <2>8. g[s \ {x}] = v[z] + g[(s \ {x}) \ {z}]
    BY <2>3, <2>5, <2>6
  <2>9. (s \ {z}) \ {x} = (s \ {x}) \ {z}
    OBVIOUS
  <2>10. /\ g[(s \ {x}) \ {z}] \in Nat /\ v[x] \in Nat /\ v[z] \in Nat
         /\ g[s \ {x}] \in Nat /\ g[s \ {z}] \in Nat
    BY <1>1, <2>3
  <2>11. g[s] = v[x] + g[s \ {x}]
    BY <2>4, <2>7, <2>8, <2>9, <2>10
  <2>12. QED BY <2>2, <2>11
<1>4. QED BY <1>2, <1>3

LEMMA SumUnion ==
  ASSUME NEW S, IsFiniteSet(S), NEW v \in [S -> Nat], NEW g, IsSum(g, v, S),
         NEW s \in SUBSET S, NEW t \in SUBSET S, s \cap t = {}
  PROVE  g[s \cup t] = g[s] + g[t]
<1> DEFINE Bad == {u \in SUBSET t : g[s \cup u] # g[s] + g[u]}
<1>1. g \in [SUBSET S -> Nat] /\ g[{}] = 0
  BY SumType
<1>2. CASE Bad = {}
  BY <1>2
<1>3. CASE Bad # {}
  <2>1. PICK u \in Bad : \A y \in Bad : y \subseteq u => y = u
    <3>1. \A y \in Bad : y \subseteq S
      OBVIOUS
    <3> HIDE DEF Bad
    <3>2. QED BY <1>3, <3>1, SmallestSet
  <2>2. u # {}
    <3>1. s \cup {} = s /\ g[s] \in Nat
      BY <1>1
    <3>2. g[s \cup {}] = g[s] + g[{}]
      BY <1>1, <3>1
    <3>3. QED BY <3>2
  <2>3. PICK x \in u : TRUE
    BY <2>2
  <2>4. g[s \cup (u \ {x})] = g[s] + g[u \ {x}]
    BY <2>1, <2>3
  <2>5. (s \cup u) \ {x} = s \cup (u \ {x})
    BY <2>3
  <2>6. g[s \cup u] = v[x] + g[(s \cup u) \ {x}]
    BY <2>3, SumRemove
  <2>7. g[u] = v[x] + g[u \ {x}]
    BY <2>3, SumRemove
  <2>8. v[x] \in Nat /\ g[s] \in Nat /\ g[u \ {x}] \in Nat
    BY <1>1
  <2>9. g[s \cup u] = g[s] + g[u]
    BY <2>4, <2>5, <2>6, <2>7, <2>8
  <2>10. QED BY <2>9
<1>4. QED BY <1>2, <1>3

\* The sum over a part is that of the function restricted to it.
LEMMA SumOfPart ==
  ASSUME NEW S, IsFiniteSet(S), NEW v \in [S -> Nat], NEW g, IsSum(g, v, S),
         NEW Q \in SUBSET S, NEW w, w = [r \in Q |-> v[r]]
  PROVE  SumFunction(w) = g[Q]
<1>1. IsFiniteSet(Q)
  BY FS_Subset
<1>2. PICK f : IsSum(f, w, Q)
  BY <1>1, SumExists
<1>3. SumFunction(w) = f[Q]
  BY <1>1, <1>2, SumFunctionIs
<1>4. IsSum(f, v, Q)
  <2>1. \A s \in SUBSET Q : SumStep(f, w, s) = SumStep(f, v, s)
    BY DEF SumStep
  <2>2. QED BY <1>2, <2>1 DEF IsSum
<1>5. f[Q] = g[Q]
  BY <1>4, SumsAgree
<1>6. QED BY <1>3, <1>5

-----------------------------------------------------------------------------
(***************************************************************************)
(* The median.  Both rows in the middle are told by how many rows are at   *)
(* least as large as a value: half of them, or more than half.             *)
(***************************************************************************)

From(D, f, v) == {d \in D : f[d] >= v}

AtMost(D, f, x) == {d \in D : f[d] <= f[x]}

LowerOf(D, f) == Min({f[x] : x \in {y \in D : 2 * Cardinality(AtMost(D, f, y)) >= Cardinality(D)}})

UpperOf(D, f) == Max({f[x] : x \in {y \in D : 2 * Cardinality(From(D, f, f[y])) >= Cardinality(D)}})

LEMMA Cardinals ==
  ASSUME NEW D, IsFiniteSet(D), NEW E, E \subseteq D
  PROVE  /\ IsFiniteSet(E) /\ Cardinality(E) \in Nat /\ Cardinality(D) \in Nat
         /\ Cardinality(E) <= Cardinality(D)
         /\ Cardinality(E) = Cardinality(D) => E = D
         /\ Cardinality(E) = 0 <=> E = {}
         /\ Cardinality(D \ E) = Cardinality(D) - Cardinality(E)
<1>1. D \cap E = E
  OBVIOUS
<1>2. E \in SUBSET D
  OBVIOUS
<1>3. /\ IsFiniteSet(E) /\ Cardinality(E) <= Cardinality(D)
      /\ Cardinality(D) = Cardinality(E) => D = E
  BY <1>2, FS_Subset
<1>4. Cardinality(E) \in Nat /\ Cardinality(D) \in Nat
  BY <1>3, FS_CardinalityType
<1>5. Cardinality(E) = 0 <=> E = {}
  BY <1>3, FS_EmptySet
<1>6. Cardinality(D \ E) = Cardinality(D) - Cardinality(E)
  BY <1>1, FS_Difference
<1>7. QED BY <1>3, <1>4, <1>5, <1>6

LEMMA UpperIs ==
  ASSUME NEW D, IsFiniteSet(D), D # {}, NEW f, \A d \in D : f[d] \in Nat
  PROVE  /\ UpperOf(D, f) \in Nat
         /\ \A v \in Nat : UpperOf(D, f) >= v
                             <=> 2 * Cardinality(From(D, f, v)) >= Cardinality(D)
<1> DEFINE E == {y \in D : 2 * Cardinality(From(D, f, f[y])) >= Cardinality(D)}
           A == {f[x] : x \in E}
<1>1. \A v : From(D, f, v) \subseteq D
  BY DEF From
<1>2. Cardinality(D) \in Nat /\ Cardinality(D) # 0
  BY Cardinals
<1>3. \A v : Cardinality(From(D, f, v)) \in Nat
  BY <1>1, Cardinals
<1>4. E # {}
  <2>1. PICK x \in D : \A y \in D : f[x] <= f[y]
    BY Least
  <2>2. From(D, f, f[x]) = D
    BY <2>1 DEF From
  <2>3. QED BY <1>2, <2>2
<1>5. E \subseteq D /\ IsFiniteSet(E) /\ \A y \in E : f[y] \in Nat
  BY Cardinals
<1>6. PICK x \in E : \A y \in E : f[y] <= f[x]
  <2> HIDE DEF E
  <2>1. QED BY <1>4, <1>5, Greatest
<1>7. UpperOf(D, f) = f[x]
  <2>1. f[x] \in A /\ A \subseteq Nat
    BY <1>5
  <2>2. \A k \in A : f[x] >= k
    BY <1>5, <1>6
  <2>3. Max(A) \in A /\ \A k \in A : Max(A) >= k
    <3> HIDE DEF A
    <3>1. QED BY <2>1, <2>2 DEF Max
  <2>4. UpperOf(D, f) = Max(A)
    BY DEF UpperOf
  <2> HIDE DEF A, E
  <2>5. f[x] >= Max(A) /\ Max(A) >= f[x] /\ Max(A) \in Nat /\ f[x] \in Nat
    BY <2>1, <2>2, <2>3
  <2>6. QED BY <2>4, <2>5
<1>8. ASSUME NEW v \in Nat, f[x] >= v PROVE 2 * Cardinality(From(D, f, v)) >= Cardinality(D)
  <2>1. From(D, f, f[x]) \subseteq From(D, f, v)
    BY <1>5, <1>8 DEF From
  <2>2. Cardinality(From(D, f, f[x])) <= Cardinality(From(D, f, v))
    BY <1>1, <2>1, Cardinals
  <2>3. 2 * Cardinality(From(D, f, f[x])) >= Cardinality(D)
    OBVIOUS
  <2>4. QED BY <1>2, <1>3, <2>2, <2>3
<1>9. ASSUME NEW v \in Nat, 2 * Cardinality(From(D, f, v)) >= Cardinality(D) PROVE f[x] >= v
  <2>1. From(D, f, v) # {}
    <3>1. Cardinality(From(D, f, v)) # 0
      BY <1>2, <1>3, <1>9
    <3>2. QED BY <1>1, <3>1, Cardinals
  <2>2. \A y \in From(D, f, v) : f[y] \in Nat
    BY DEF From
  <2>3. PICK w \in From(D, f, v) : \A y \in From(D, f, v) : f[w] <= f[y]
    BY <2>1, <2>2, Least
  <2>4. w \in D /\ f[w] \in Nat /\ f[w] >= v
    BY <2>2 DEF From
  <2>5. From(D, f, f[w]) = From(D, f, v)
    BY <2>3, <2>4 DEF From
  <2>6. w \in E
    BY <1>9, <2>4, <2>5
  <2>7. f[w] <= f[x] /\ f[x] \in Nat
    BY <1>5, <1>6, <2>6
  <2>8. QED BY <2>4, <2>7
<1>10. f[x] \in Nat
  BY <1>5
<1> HIDE DEF E, A
<1>11. QED BY <1>7, <1>8, <1>9, <1>10

LEMMA LowerIs ==
  ASSUME NEW D, IsFiniteSet(D), D # {}, NEW f, \A d \in D : f[d] \in Nat
  PROVE  /\ LowerOf(D, f) \in Nat /\ \E x \in D : f[x] = LowerOf(D, f)
         /\ \A v \in Nat : LowerOf(D, f) >= v
                             <=> 2 * Cardinality(From(D, f, v)) > Cardinality(D)
<1> DEFINE E == {y \in D : 2 * Cardinality(AtMost(D, f, y)) >= Cardinality(D)}
           A == {f[x] : x \in E}
           Below(v) == D \ From(D, f, v)
<1>1. /\ \A v : From(D, f, v) \subseteq D
      /\ \A x : AtMost(D, f, x) \subseteq D
  BY DEF From, AtMost
<1>2. Cardinality(D) \in Nat /\ Cardinality(D) # 0
  BY Cardinals
<1>3. /\ \A v : Cardinality(From(D, f, v)) \in Nat
      /\ \A x : Cardinality(AtMost(D, f, x)) \in Nat
      /\ \A v : /\ Cardinality(Below(v)) = Cardinality(D) - Cardinality(From(D, f, v))
                /\ Cardinality(Below(v)) \in Nat /\ IsFiniteSet(Below(v))
  <2>1. \A v : Below(v) \subseteq D
    OBVIOUS
  <2>2. QED BY <1>1, <2>1, Cardinals
<1>4. E # {}
  <2>1. PICK x \in D : \A y \in D : f[y] <= f[x]
    BY Greatest
  <2>2. AtMost(D, f, x) = D
    BY <2>1 DEF AtMost
  <2>3. QED BY <1>2, <2>2
<1>5. E \subseteq D /\ \A y \in E : f[y] \in Nat
  OBVIOUS
<1>6. PICK x \in E : \A y \in E : f[x] <= f[y]
  <2> HIDE DEF E
  <2>1. QED BY <1>4, <1>5, Least
<1>7. LowerOf(D, f) = f[x]
  <2>1. f[x] \in A /\ A \subseteq Nat
    BY <1>5
  <2>2. \A k \in A : f[x] <= k
    BY <1>6
  <2>3. Min(A) \in A /\ \A k \in A : Min(A) <= k
    <3> HIDE DEF A
    <3>1. QED BY <2>1, <2>2 DEF Min
  <2>4. LowerOf(D, f) = Min(A)
    BY DEF LowerOf
  <2> HIDE DEF A, E
  <2>5. f[x] <= Min(A) /\ Min(A) <= f[x] /\ Min(A) \in Nat /\ f[x] \in Nat
    BY <2>1, <2>2, <2>3
  <2>6. QED BY <2>4, <2>5
<1>8. ASSUME NEW v \in Nat, ~ (f[x] >= v)
      PROVE  ~ (2 * Cardinality(From(D, f, v)) > Cardinality(D))
  <2>1. f[x] < v /\ f[x] \in Nat
    BY <1>5, <1>8
  <2>2. AtMost(D, f, x) \subseteq Below(v)
    BY <2>1 DEF AtMost, From
  <2>3. Cardinality(AtMost(D, f, x)) <= Cardinality(Below(v))
    <3> HIDE DEF Below
    <3>1. QED BY <1>3, <2>2, Cardinals
  <2>4. 2 * Cardinality(AtMost(D, f, x)) >= Cardinality(D)
    OBVIOUS
  <2> HIDE DEF Below
  <2>5. QED BY <1>2, <1>3, <2>3, <2>4
<1>9. ASSUME NEW v \in Nat, ~ (2 * Cardinality(From(D, f, v)) > Cardinality(D))
      PROVE  ~ (f[x] >= v)
  <2>1. 2 * Cardinality(Below(v)) >= Cardinality(D)
    <3> HIDE DEF Below
    <3>1. QED BY <1>2, <1>3, <1>9
  <2>2. Below(v) # {}
    <3> HIDE DEF Below
    <3>1. Cardinality(Below(v)) # 0
      BY <1>2, <1>3, <2>1
    <3>2. QED BY <3>1, FS_EmptySet
  <2>3. \A y \in Below(v) : f[y] \in Nat
    OBVIOUS
  <2>4. PICK w \in Below(v) : \A y \in Below(v) : f[y] <= f[w]
    <3> HIDE DEF Below
    <3>1. QED BY <1>3, <2>2, <2>3, Greatest
  <2>5. w \in D /\ f[w] \in Nat /\ f[w] < v
    BY <2>3 DEF From
  <2>6. AtMost(D, f, w) = Below(v)
    <3>1. \A y \in D : f[y] \in Nat
      OBVIOUS
    <3>2. \A y \in D : y \in Below(v) <=> f[y] < v
      BY <3>1 DEF From
    <3>3. \A y \in D : y \in Below(v) <=> f[y] <= f[w]
      BY <2>4, <2>5, <3>1, <3>2
    <3>4. QED BY <3>3 DEF AtMost
  <2>7. w \in E
    BY <2>1, <2>5, <2>6
  <2>8. f[x] <= f[w] /\ f[x] \in Nat
    BY <1>5, <1>6, <2>7
  <2>9. QED BY <2>5, <2>8
<1>10. f[x] \in Nat /\ x \in D
  BY <1>5
<1> HIDE DEF E, A
<1>11. QED BY <1>7, <1>8, <1>9, <1>10

-----------------------------------------------------------------------------
(***************************************************************************)
(* Rows that have one project each, counted by the projects they are of.   *)
(***************************************************************************)

RowsOf(Z, owner, Q) == {z \in Z : owner[z] \in Q}

LEMMA CountAdditive ==
  ASSUME NEW P, NEW Z, IsFiniteSet(Z), NEW owner
  PROVE  Additive([Q \in SUBSET P |-> Cardinality(RowsOf(Z, owner, Q))], P)
<1> DEFINE c == [Q \in SUBSET P |-> Cardinality(RowsOf(Z, owner, Q))]
<1>1. \A Q : /\ RowsOf(Z, owner, Q) \subseteq Z /\ IsFiniteSet(RowsOf(Z, owner, Q))
             /\ Cardinality(RowsOf(Z, owner, Q)) \in Nat
  <2>1. \A Q : RowsOf(Z, owner, Q) \subseteq Z
    BY DEF RowsOf
  <2>2. QED BY <2>1, Cardinals
<1>2. c \in [SUBSET P -> Int]
  BY <1>1
<1>3. c[{}] = 0
  <2>1. RowsOf(Z, owner, {}) = {}
    BY DEF RowsOf
  <2>2. {} \in SUBSET P
    OBVIOUS
  <2>3. QED BY <2>1, <2>2, FS_EmptySet
<1>4. ASSUME NEW Q \in SUBSET P, NEW p \in Q PROVE c[Q] = c[Q \ {p}] + c[{p}]
  <2> DEFINE a == RowsOf(Z, owner, Q \ {p})
             b == RowsOf(Z, owner, {p})
  <2>1. a \cup b = RowsOf(Z, owner, Q) /\ a \cap b = {}
    BY DEF RowsOf
  <2>2. IsFiniteSet(a) /\ IsFiniteSet(b) /\ Cardinality(a) \in Nat /\ Cardinality(b) \in Nat
    BY <1>1
  <2>3. /\ c[Q] = Cardinality(RowsOf(Z, owner, Q))
        /\ c[Q \ {p}] = Cardinality(a) /\ c[{p}] = Cardinality(b)
    OBVIOUS
  <2> HIDE DEF a, b, c
  <2>4. Cardinality(a \cup b) = Cardinality(a) + Cardinality(b) - Cardinality({})
    BY <2>1, <2>2, FS_Union
  <2>5. Cardinality({}) = 0
    BY FS_EmptySet
  <2>6. Cardinality(a \cup b) = Cardinality(a) + Cardinality(b)
    BY <2>2, <2>4, <2>5
  <2>7. QED BY <2>1, <2>3, <2>6
<1> HIDE DEF c
<1>5. Additive(c, P)
  BY <1>2, <1>3, <1>4 DEF Additive
<1>6. QED BY <1>5 DEF c

LEMMA ScaledAdditive ==
  ASSUME NEW P, NEW a, Additive(a, P), NEW i \in Int,
         NEW c, c = [Q \in SUBSET P |-> i * a[Q]]
  PROVE  Additive(c, P)
<1>1. /\ \A Q \in SUBSET P : a[Q] \in Int
      /\ a[{}] = 0
  BY DEF Additive
<1>2. \A x \in Int : i * x \in Int
  OBVIOUS
<1>3. \A Q \in SUBSET P : c[Q] = i * a[Q] /\ c[Q] \in Int
  BY <1>1, <1>2
<1>4. c \in [SUBSET P -> Int]
  BY <1>3
<1>5. c[{}] = 0
  <2>1. {} \in SUBSET P /\ i * 0 = 0
    OBVIOUS
  <2>2. QED BY <1>1, <1>3, <2>1
<1>6. ASSUME NEW Q \in SUBSET P, NEW p \in Q PROVE c[Q] = c[Q \ {p}] + c[{p}]
  <2>1. Q \ {p} \in SUBSET P /\ {p} \in SUBSET P
    OBVIOUS
  <2>2. a[Q] = a[Q \ {p}] + a[{p}]
    BY DEF Additive
  <2>3. a[Q \ {p}] \in Int /\ a[{p}] \in Int
    BY <1>1, <2>1
  <2>4. \A x \in Int, y \in Int : i * (x + y) = i * x + i * y
    OBVIOUS
  <2>5. i * a[Q] = i * a[Q \ {p}] + i * a[{p}]
    BY <2>2, <2>3, <2>4
  <2>6. QED BY <1>3, <2>1, <2>5
<1>7. QED BY <1>4, <1>5, <1>6 DEF Additive

LEMMA DifferenceAdditive ==
  ASSUME NEW P, NEW a, Additive(a, P), NEW b, Additive(b, P),
         NEW c, c = [Q \in SUBSET P |-> a[Q] - b[Q]]
  PROVE  Additive(c, P)
<1>1. /\ \A Q \in SUBSET P : a[Q] \in Int /\ b[Q] \in Int
      /\ a[{}] = 0 /\ b[{}] = 0
  BY DEF Additive
<1>2. \A Q \in SUBSET P : c[Q] = a[Q] - b[Q] /\ c[Q] \in Int
  BY <1>1
<1>3. c \in [SUBSET P -> Int]
  BY <1>2
<1>4. c[{}] = 0
  <2>1. {} \in SUBSET P
    OBVIOUS
  <2>2. QED BY <1>1, <1>2, <2>1
<1>5. ASSUME NEW Q \in SUBSET P, NEW p \in Q PROVE c[Q] = c[Q \ {p}] + c[{p}]
  <2>1. Q \ {p} \in SUBSET P /\ {p} \in SUBSET P
    OBVIOUS
  <2>2. a[Q] = a[Q \ {p}] + a[{p}] /\ b[Q] = b[Q \ {p}] + b[{p}]
    BY DEF Additive
  <2>3. a[Q \ {p}] \in Int /\ a[{p}] \in Int /\ b[Q \ {p}] \in Int /\ b[{p}] \in Int
    BY <1>1, <2>1
  <2>4. QED BY <1>2, <2>1, <2>2, <2>3
<1>6. QED BY <1>3, <1>4, <1>5 DEF Additive

LEMMA SomePartPositive ==
  ASSUME NEW P, IsFiniteSet(P), NEW n, Additive(n, P), n[P] > 0
  PROVE  \E p \in P : n[{p}] > 0
<1> DEFINE zero == [Q \in SUBSET P |-> 0]
           d == [Q \in SUBSET P |-> zero[Q] - n[Q]]
<1>1. P \in SUBSET P /\ {} \in SUBSET P /\ \A Q \in SUBSET P : \A p \in Q : {p} \in SUBSET P
  OBVIOUS
<1>2. Additive(zero, P)
  BY <1>1 DEF Additive
<1>3. \A Q \in SUBSET P : zero[Q] = 0
  OBVIOUS
<1> HIDE DEF zero
<1>4. Additive(d, P)
  BY <1>2, DifferenceAdditive
<1>5. \A Q \in SUBSET P : d[Q] = 0 - n[Q] /\ n[Q] \in Int
  BY <1>3 DEF Additive
<1> HIDE DEF d
<1>6. d[P] < 0
  BY <1>1, <1>5
<1>7. PICK p \in P : d[{p}] < 0
  BY <1>4, <1>6, SomePartNegative
<1>8. {p} \in SUBSET P
  OBVIOUS
<1>9. d[{p}] = 0 - n[{p}] /\ n[{p}] \in Int
  BY <1>5, <1>8
<1>10. n[{p}] > 0
  BY <1>7, <1>9
<1>11. QED BY <1>10

\* If the total of one is reached by the total of another, so it is in some part.
LEMMA SomePartReaches ==
  ASSUME NEW P, IsFiniteSet(P), NEW a, Additive(a, P), NEW b, Additive(b, P), a[P] <= b[P],
         NEW n, Additive(n, P), n[P] > 0,
         \A p \in P : n[{p}] >= 0 /\ a[{p}] >= 0 /\ (n[{p}] = 0 => b[{p}] = 0)
  PROVE  \E p \in P : n[{p}] > 0 /\ a[{p}] <= b[{p}]
<1> DEFINE c == [Q \in SUBSET P |-> a[Q] - b[Q]]
<1>1. Additive(c, P)
  BY DifferenceAdditive
<1>2. P \in SUBSET P
  OBVIOUS
<1>3. \A Q \in SUBSET P : a[Q] \in Int /\ b[Q] \in Int /\ n[Q] \in Int /\ c[Q] = a[Q] - b[Q]
  BY DEF Additive
<1> HIDE DEF c
<1>4. c[P] <= 0
  BY <1>2, <1>3
<1>5. ASSUME NEW p \in P
      PROVE  /\ c[{p}] = a[{p}] - b[{p}] /\ c[{p}] \in Int
             /\ a[{p}] \in Int /\ b[{p}] \in Int /\ n[{p}] \in Int
  <2>1. {p} \in SUBSET P
    OBVIOUS
  <2>2. QED BY <1>3, <2>1
<1>6. ASSUME NEW p \in P, ~ (c[{p}] >= 0) PROVE n[{p}] > 0 /\ a[{p}] <= b[{p}]
  <2>1. n[{p}] >= 0 /\ a[{p}] >= 0 /\ (n[{p}] = 0 => b[{p}] = 0)
    OBVIOUS
  <2>2. /\ c[{p}] = a[{p}] - b[{p}]
        /\ a[{p}] \in Int /\ b[{p}] \in Int /\ n[{p}] \in Int
    BY <1>5
  <2>3. a[{p}] < b[{p}]
    BY <1>6, <2>2
  <2>4. b[{p}] # 0
    BY <2>1, <2>2, <2>3
  <2>5. n[{p}] # 0
    BY <2>1, <2>4
  <2>6. QED BY <2>1, <2>2, <2>3, <2>5
<1>7. CASE \A p \in P : c[{p}] >= 0
  <2>1. \A p \in P : c[{p}] = 0
    BY <1>1, <1>4, <1>7, SomePart
  <2>2. PICK p \in P : n[{p}] > 0
    BY SomePartPositive
  <2>3. /\ c[{p}] = a[{p}] - b[{p}] /\ c[{p}] = 0
        /\ a[{p}] \in Int /\ b[{p}] \in Int
    BY <1>5, <2>1
  <2>4. a[{p}] <= b[{p}]
    BY <2>3
  <2>5. QED BY <2>2, <2>4
<1>8. QED BY <1>6, <1>7

\* The rows of some project have both rows in the middle at least as large as
\* those of all rows together, or at least as large as their upper one.
LEMMA SomeMedian ==
  ASSUME NEW P, IsFiniteSet(P), NEW Z, IsFiniteSet(Z), Z # {},
         NEW owner, \A z \in Z : owner[z] \in P, NEW f, \A z \in Z : f[z] \in Nat
  PROVE  \E p \in P : /\ RowsOf(Z, owner, {p}) # {}
                      /\ LowerOf(Z, f) + UpperOf(Z, f)
                           <= LowerOf(RowsOf(Z, owner, {p}), f) + UpperOf(RowsOf(Z, owner, {p}), f)
<1>1. PICK l \in Nat : l = LowerOf(Z, f)
  BY LowerIs
<1>2. PICK u \in Nat : u = UpperOf(Z, f)
  BY UpperIs
<1> DEFINE Of(p) == RowsOf(Z, owner, {p})
           large == From(Z, f, u)
           n == [Q \in SUBSET P |-> Cardinality(RowsOf(Z, owner, Q))]
           g == [Q \in SUBSET P |-> Cardinality(RowsOf(large, owner, Q))]
           h == [Q \in SUBSET P |-> 2 * g[Q]]
           c == [Q \in SUBSET P |-> n[Q] - h[Q]]
<1>3. large \subseteq Z /\ IsFiniteSet(large)
  <2>1. large \subseteq Z
    BY DEF From
  <2>2. QED BY <2>1, Cardinals
<1>4. Additive(c, P)
  <2>1. Additive(n, P) /\ Additive(g, P)
    BY <1>3, CountAdditive
  <2>2. Additive(h, P)
    <3> HIDE DEF n, g
    <3>1. QED BY <2>1, ScaledAdditive
  <2> HIDE DEF n, h
  <2>3. QED BY <2>1, <2>2, DifferenceAdditive
<1>5. \A Q \in SUBSET P :
        c[Q] = Cardinality(RowsOf(Z, owner, Q)) - 2 * Cardinality(RowsOf(large, owner, Q))
  OBVIOUS
<1> HIDE DEF n, g, h, c
<1>6. P \in SUBSET P
  OBVIOUS
<1>7. RowsOf(Z, owner, P) = Z /\ RowsOf(large, owner, P) = large
  BY <1>3 DEF RowsOf
<1>8. /\ Cardinality(Z) \in Nat /\ Cardinality(large) \in Nat
      /\ c[P] = Cardinality(Z) - 2 * Cardinality(large)
  <2>1. Cardinality(Z) \in Nat /\ Cardinality(large) \in Nat
    BY <1>3, Cardinals
  <2>2. c[P] = Cardinality(RowsOf(Z, owner, P)) - 2 * Cardinality(RowsOf(large, owner, P))
    BY <1>5, <1>6
  <2>3. QED BY <1>7, <2>1, <2>2
<1>9. c[P] <= 0
  <2>1. 2 * Cardinality(large) >= Cardinality(Z)
    BY <1>2, UpperIs
  <2>2. QED BY <1>8, <2>1
<1>10. ASSUME NEW p \in P
       PROVE  /\ Of(p) \subseteq Z /\ IsFiniteSet(Of(p)) /\ \A z \in Of(p) : f[z] \in Nat
              /\ Cardinality(Of(p)) \in Nat
              /\ RowsOf(large, owner, {p}) = From(Of(p), f, u)
              /\ \A v : /\ From(Of(p), f, v) \subseteq Of(p)
                        /\ IsFiniteSet(From(Of(p), f, v)) /\ Cardinality(From(Of(p), f, v)) \in Nat
              /\ c[{p}] = Cardinality(Of(p)) - 2 * Cardinality(From(Of(p), f, u))
  <2>1. Of(p) \subseteq Z
    BY DEF RowsOf
  <2>2. IsFiniteSet(Of(p)) /\ Cardinality(Of(p)) \in Nat
    BY <2>1, Cardinals
  <2>3. RowsOf(large, owner, {p}) = From(Of(p), f, u)
    BY DEF RowsOf, From
  <2>4. \A v : From(Of(p), f, v) \subseteq Of(p)
    BY DEF From
  <2>5. \A v : IsFiniteSet(From(Of(p), f, v)) /\ Cardinality(From(Of(p), f, v)) \in Nat
    BY <2>2, <2>4, Cardinals
  <2>6. c[{p}] = Cardinality(Of(p)) - 2 * Cardinality(From(Of(p), f, u))
    <3>1. {p} \in SUBSET P
      OBVIOUS
    <3>2. c[{p}] = Cardinality(RowsOf(Z, owner, {p})) - 2 * Cardinality(RowsOf(large, owner, {p}))
      BY <1>5, <3>1
    <3>3. QED BY <2>3, <3>2
  <2>7. QED BY <2>1, <2>2, <2>3, <2>4, <2>5, <2>6
<1>11. l <= u
  <2>1. 2 * Cardinality(From(Z, f, l)) > Cardinality(Z)
    BY <1>1, LowerIs
  <2>2. From(Z, f, l) \subseteq Z
    BY DEF From
  <2>3. Cardinality(From(Z, f, l)) \in Nat
    BY <2>2, Cardinals
  <2>4. 2 * Cardinality(From(Z, f, l)) >= Cardinality(Z)
    BY <1>8, <2>1, <2>3
  <2>5. u >= l
    BY <1>2, <2>4, UpperIs
  <2>6. QED BY <2>5
\* What is left to show of a project.
<1>12. ASSUME NEW p \in P, Of(p) # {}, NEW v \in Nat, l <= v,
              2 * Cardinality(From(Of(p), f, v)) > Cardinality(Of(p)),
              2 * Cardinality(From(Of(p), f, u)) >= Cardinality(Of(p))
       PROVE  LowerOf(Z, f) + UpperOf(Z, f) <= LowerOf(Of(p), f) + UpperOf(Of(p), f)
  <2>1. IsFiniteSet(Of(p)) /\ \A z \in Of(p) : f[z] \in Nat
    BY <1>10
  <2> HIDE DEF Of
  <2>2. LowerOf(Of(p), f) \in Nat /\ LowerOf(Of(p), f) >= v
    BY <1>12, <2>1, LowerIs
  <2>3. UpperOf(Of(p), f) \in Nat /\ UpperOf(Of(p), f) >= u
    BY <1>12, <2>1, UpperIs
  <2>4. l + u <= LowerOf(Of(p), f) + UpperOf(Of(p), f)
    BY <1>12, <2>2, <2>3
  <2>5. QED BY <1>1, <1>2, <2>4
<1>13. CASE \E p \in P : ~ (c[{p}] >= 0)
  <2>1. PICK p \in P : ~ (c[{p}] >= 0)
    BY <1>13
  <2>2. /\ c[{p}] = Cardinality(Of(p)) - 2 * Cardinality(From(Of(p), f, u))
        /\ Cardinality(Of(p)) \in Nat /\ Cardinality(From(Of(p), f, u)) \in Nat
        /\ From(Of(p), f, u) \subseteq Of(p)
    BY <1>10
  <2>3. 2 * Cardinality(From(Of(p), f, u)) > Cardinality(Of(p))
    BY <2>1, <2>2
  <2>4. Of(p) # {}
    <3>1. Cardinality(From(Of(p), f, u)) # 0
      BY <2>2, <2>3
    <3>2. From(Of(p), f, u) # {}
      BY <3>1, FS_EmptySet
    <3>3. QED BY <2>2, <3>2
  <2>5. 2 * Cardinality(From(Of(p), f, u)) >= Cardinality(Of(p))
    BY <2>2, <2>3
  <2>6. LowerOf(Z, f) + UpperOf(Z, f) <= LowerOf(Of(p), f) + UpperOf(Of(p), f)
    BY <1>11, <1>12, <2>3, <2>4, <2>5
  <2>7. QED BY <2>4, <2>6
<1>14. CASE \A p \in P : c[{p}] >= 0
  <2>1. \A p \in P : c[{p}] = 0
    BY <1>4, <1>9, <1>14, SomePart
  <2>2. c[P] >= 0
    BY <1>4, <1>6, <1>14, AdditiveNat
  <2>3. Cardinality(Z) = 2 * Cardinality(large)
    BY <1>8, <1>9, <2>2
  <2>4. l < u
    <3>1. l # u
      <4>1. 2 * Cardinality(From(Z, f, l)) > Cardinality(Z)
        BY <1>1, LowerIs
      <4>2. ~ (2 * Cardinality(large) > Cardinality(Z))
        BY <1>8, <2>3
      <4>3. QED BY <4>1, <4>2
    <3>2. QED BY <1>11, <3>1
  <2>5. PICK x \in Z : f[x] = l
    BY <1>1, LowerIs
  <2>6. PICK p \in P : owner[x] = p
    OBVIOUS
  <2>7. x \in Of(p)
    BY <2>6 DEF RowsOf
  <2>8. /\ c[{p}] = Cardinality(Of(p)) - 2 * Cardinality(From(Of(p), f, u)) /\ c[{p}] = 0
        /\ Cardinality(Of(p)) \in Nat /\ Cardinality(From(Of(p), f, u)) \in Nat
        /\ IsFiniteSet(From(Of(p), f, l)) /\ Cardinality(From(Of(p), f, l)) \in Nat
    BY <1>10, <2>1
  <2>9. From(Of(p), f, u) \subseteq From(Of(p), f, l) /\ x \in From(Of(p), f, l) \ From(Of(p), f, u)
    <3>1. \A z \in Of(p) : f[z] \in Nat
      BY <1>10
    <3> HIDE DEF Of
    <3>2. QED BY <2>4, <2>5, <2>7, <3>1 DEF From
  <2>10. Cardinality(From(Of(p), f, u)) < Cardinality(From(Of(p), f, l))
    <3> DEFINE s == From(Of(p), f, u)
               t == From(Of(p), f, l)
    <3>1. /\ s \subseteq t /\ s # t /\ IsFiniteSet(t)
          /\ Cardinality(s) \in Nat /\ Cardinality(t) \in Nat
      BY <2>8, <2>9
    <3> HIDE DEF s, t
    <3>2. Cardinality(s) <= Cardinality(t) /\ Cardinality(s) # Cardinality(t)
      BY <3>1, Cardinals
    <3>3. Cardinality(s) < Cardinality(t)
      BY <3>1, <3>2
    <3>4. QED BY <3>3 DEF s, t
  <2>11. /\ 2 * Cardinality(From(Of(p), f, l)) > Cardinality(Of(p))
         /\ 2 * Cardinality(From(Of(p), f, u)) >= Cardinality(Of(p))
    BY <2>8, <2>10
  <2>12. l <= l
    OBVIOUS
  <2>13. LowerOf(Z, f) + UpperOf(Z, f) <= LowerOf(Of(p), f) + UpperOf(Of(p), f)
    BY <1>12, <2>7, <2>11, <2>12
  <2>14. QED BY <2>7, <2>13
<1>15. QED BY <1>13, <1>14

-----------------------------------------------------------------------------
(* Arithmetic.                                                              *)

LEMMA Quotient ==
  ASSUME NEW s \in Nat, NEW n \in Nat, n > 0
  PROVE  s \div n \in Nat /\ (s \div n) * n <= s /\ s < ((s \div n) + 1) * n
  OBVIOUS

LEMMA Halves ==
  ASSUME NEW a \in Nat, NEW b \in Nat, a <= b
  PROVE  a \div 2 \in Nat /\ b \div 2 \in Nat /\ a \div 2 <= b \div 2
  OBVIOUS

LEMMA QuotientReaches ==
  ASSUME NEW s \in Nat, NEW n \in Nat, n > 0, NEW l \in Nat, l * n <= s
  PROVE  l <= s \div n
<1> SUFFICES ASSUME s \div n < l PROVE FALSE
  BY Quotient
<1>1. PICK q \in Nat : q = s \div n
  BY Quotient
<1>2. q + 1 \in Nat /\ q + 1 <= l
  BY <1>1
<1>3. (q + 1) * n <= l * n
  BY <1>2, ScaledMore
<1>4. s < (q + 1) * n
  BY <1>1, Quotient
<1>5. (q + 1) * n \in Nat /\ l * n \in Nat
  BY <1>2
<1>6. QED BY <1>3, <1>4, <1>5

LEMMA Cancelled ==
  ASSUME NEW n \in Nat, n > 0, NEW x \in Nat, NEW y \in Nat, x * n <= y * n
  PROVE  x <= y
<1> SUFFICES ASSUME y + 1 <= x PROVE FALSE
  OBVIOUS
<1>1. (y + 1) * n <= x * n
  BY ScaledMore
<1>2. (y + 1) * n = y * n + n /\ y * n \in Nat /\ x * n \in Nat
  OBVIOUS
<1>3. QED BY <1>1, <1>2

\* A failure rate not above another is not classified lower.
LEMMA LowerRateNotWorse ==
  ASSUME NEW f \in Nat, NEW n \in Nat, n > 0, NEW g \in Nat, NEW k \in Nat, k > 0,
         g * n <= k * f, NEW limit \in [Levels -> Ratio]
  PROVE  NotWorse(ClassifyChangeFailureRate(g, k, limit),
                  ClassifyChangeFailureRate(f, n, limit))
<1> DEFINE Within(x, y, level) == x * limit[level][2] <= limit[level][1] * y
<1>1. ASSUME NEW level \in Levels, Within(f, n, level) PROVE Within(g, k, level)
  <2>1. PICK p \in Nat, q \in Nat : limit[level][1] = p /\ limit[level][2] = q
    BY DEF Ratio
  <2>2. f * q <= p * n
    BY <1>1, <2>1
  <2>3. /\ f * q \in Nat /\ p * n \in Nat /\ g * n \in Nat
        /\ k * f \in Nat /\ g * q \in Nat /\ p * k \in Nat
    OBVIOUS
  <2>4. (f * q) * k <= (p * n) * k
    BY <2>2, <2>3, ScaledMore
  <2>5. (g * n) * q <= (k * f) * q
    BY <2>3, ScaledMore
  <2>6. (f * q) * k = (k * f) * q
    OBVIOUS
  <2>7. (g * q) * n = (g * n) * q
    OBVIOUS
  <2>8. (p * k) * n = (p * n) * k
    OBVIOUS
  <2>9. (k * f) * q \in Nat /\ (g * q) * n \in Nat /\ (p * k) * n \in Nat
    BY <2>3
  <2>10. (g * q) * n <= (p * k) * n
    BY <2>4, <2>5, <2>6, <2>7, <2>8, <2>9
  <2>11. g * q <= p * k
    BY <2>3, <2>10, Cancelled
  <2>12. QED BY <2>1, <2>11
<1>2. /\ ClassifyChangeFailureRate(f, n, limit)
           = FirstEarned(Within(f, n, "elite"), Within(f, n, "high"), Within(f, n, "medium"))
      /\ ClassifyChangeFailureRate(g, k, limit)
           = FirstEarned(Within(g, k, "elite"), Within(g, k, "high"), Within(g, k, "medium"))
  BY DEF ClassifyChangeFailureRate
<1>3. {"elite", "high", "medium"} \subseteq Levels
  BY DEF Levels
<1>4. /\ Within(f, n, "elite") => Within(g, k, "elite")
      /\ Within(f, n, "high") => Within(g, k, "high")
      /\ Within(f, n, "medium") => Within(g, k, "medium")
  BY <1>1, <1>3
<1> HIDE DEF Within
<1>5. QED BY <1>2, <1>4, TierOrderValues DEF FirstEarned, NotWorse, KnownTier

-----------------------------------------------------------------------------
(***************************************************************************)
(* The worst tier of several projects and that of all of them together,    *)
(* given that each metric of the whole is known when it is of a project,   *)
(* and then is not below that of every project.                            *)
(***************************************************************************)

WorstMetric(t) == WorstOf({t[i] : i \in 1..4})

KnownOf(u, M) == {WorstMetric(u[p]) : p \in M} \ {"insufficient_data"}

LEMMA WorstOfWhole ==
  ASSUME NEW M, NEW t \in [1..4 -> Tier], NEW u \in [M -> [1..4 -> Tier]],
         \A i \in 1..4 : t[i] \in KnownTier =>
           \E p \in M : u[p][i] \in KnownTier /\ TierOrder(t[i]) >= TierOrder(u[p][i]),
         \A i \in 1..4 : \A p \in M : u[p][i] \in KnownTier => t[i] \in KnownTier
  PROVE  IF KnownOf(u, M) = {} THEN WorstMetric(t) = "insufficient_data"
         ELSE TierOrder(WorstMetric(t)) >= TierOrder(WorstOf(KnownOf(u, M)))
<1> DEFINE T == {t[i] : i \in 1..4}
           U(p) == {u[p][i] : i \in 1..4}
           tiers == {WorstOf(U(p)) : p \in M} \ {"insufficient_data"}
<1> SUFFICES IF tiers = {} THEN WorstOf(T) = "insufficient_data"
             ELSE TierOrder(WorstOf(T)) >= TierOrder(WorstOf(tiers))
  BY DEF KnownOf, WorstMetric
<1>1. T \in SUBSET Tier /\ \A p \in M : U(p) \in SUBSET Tier
  OBVIOUS
<1>2. "insufficient_data" \notin KnownTier
  BY DEF KnownTier
<1>3. \A p \in M : WorstOf(U(p)) \in KnownTier \/ WorstOf(U(p)) = "insufficient_data"
  BY <1>1, WorstOfIsLeast
<1>4. tiers \in SUBSET KnownTier
  BY <1>3
<1>5. tiers \in SUBSET Tier /\ tiers \cap KnownTier = tiers
  BY <1>4 DEF Tier
<1>6. CASE T \cap KnownTier = {}
  <2>1. WorstOf(T) = "insufficient_data"
    BY <1>1, <1>6, WorstOfIsLeast
  <2>2. \A p \in M : U(p) \cap KnownTier = {}
    BY <1>6
  <2>3. \A p \in M : WorstOf(U(p)) = "insufficient_data"
    BY <1>1, <2>2, WorstOfIsLeast
  <2>4. tiers = {}
    BY <2>3
  <2>5. QED BY <2>1, <2>4
<1>7. CASE T \cap KnownTier # {}
  <2>1. WorstOf(T) \in T \cap KnownTier
    BY <1>1, <1>7, WorstOfIsLeast
  <2>2. PICK i \in 1..4 : WorstOf(T) = t[i]
    BY <2>1
  <2>3. PICK p \in M : u[p][i] \in KnownTier /\ TierOrder(t[i]) >= TierOrder(u[p][i])
    BY <2>1, <2>2
  <2>4. u[p][i] \in U(p) \cap KnownTier
    BY <2>3
  <2>5. /\ WorstOf(U(p)) \in KnownTier
        /\ TierOrder(WorstOf(U(p))) <= TierOrder(u[p][i])
    BY <1>1, <2>4, WorstOfIsLeast
  <2>6. WorstOf(U(p)) \in tiers
    BY <1>2, <2>5
  <2>7. /\ WorstOf(tiers) \in KnownTier
        /\ TierOrder(WorstOf(tiers)) <= TierOrder(WorstOf(U(p)))
    <3> HIDE DEF tiers
    <3>1. QED BY <1>5, <2>6, WorstOfIsLeast
  <2>8. /\ TierOrder(WorstOf(tiers)) \in Int /\ TierOrder(WorstOf(U(p))) \in Int
        /\ TierOrder(u[p][i]) \in Int /\ TierOrder(t[i]) \in Int
    BY <2>1, <2>2, <2>3, <2>5, <2>7, TierOrderType
  <2>9. TierOrder(WorstOf(T)) >= TierOrder(WorstOf(tiers))
    <3> HIDE DEF tiers, T, U
    <3>1. QED BY <2>2, <2>3, <2>5, <2>7, <2>8
  <2> HIDE DEF tiers
  <2>10. QED BY <2>6, <2>9
<1>8. QED BY <1>6, <1>7

-----------------------------------------------------------------------------
(* The state of the team, with the thresholds and the window of TierRating. *)

TeamStateOK == RatingTypeOK /\ TeamTypeOK

LEMMA TeamStateInit == TeamInit => TeamStateOK
<1> SUFFICES ASSUME TeamInit PROVE TeamStateOK
  OBVIOUS
<1>1. RatingTypeOK
  BY RatingTypeInit DEF TeamInit
<1>2. TeamTypeOK
  BY DEF TeamInit, TeamTypeOK, Shipped
<1>3. QED BY <1>1, <1>2 DEF TeamStateOK

LEMMA TeamStateNext == TeamStateOK /\ [TeamNext]_<<ratingVars, teamVars>> => TeamStateOK'
<1> SUFFICES ASSUME TeamStateOK, [TeamNext]_<<ratingVars, teamVars>> PROVE TeamStateOK'
  OBVIOUS
<1>1. RatingTypeOK /\ TeamTypeOK
  BY DEF TeamStateOK
<1>2. UNCHANGED ratingVars => RatingTypeOK'
  BY <1>1 DEF ratingVars, RatingTypeOK
<1>3. UNCHANGED teamVars => TeamTypeOK'
  BY <1>1 DEF teamVars, TeamTypeOK
<1>4. CASE Window
  <2>1. RatingTypeOK'
    BY <1>1, <1>4, RatingTypeNext DEF Window
  <2>2. QED BY <1>3, <1>4, <2>1 DEF Window, TeamStateOK
<1>5. ASSUME NEW s, NEW l, NEW r, Rows(s, l, r), s \in [Deployments -> Shipped],
             l \in [Links -> Times \cup {-1}], r \in [Incidents -> Times \cup {-1}]
      PROVE  TeamStateOK'
  BY <1>1, <1>2, <1>5 DEF Rows, ratingVars, TeamTypeOK, TeamStateOK
<1> DEFINE Seconds == Times \cup {-1}
<1>a. /\ shipped \in [Deployments -> Shipped]
      /\ lead \in [Links -> Seconds] /\ resolved \in [Incidents -> Seconds]
  BY <1>1 DEF TeamTypeOK
<1>b. -1 \in Seconds
  OBVIOUS
<1>6. ASSUME NEW d \in Deployments, Deploy(d) \/ DeployLeaves(d) \/ Blame(d)
      PROVE  TeamStateOK'
  <2>1. \A x \in Shipped : [shipped EXCEPT ![d] = x] \in [Deployments -> Shipped]
    BY <1>a
  <2>2. [l \in Links |-> IF l[1] = d THEN -1 ELSE lead[l]] \in [Links -> Seconds]
    <3> HIDE DEF Seconds
    <3>1. QED BY <1>a, <1>b
  <2>3. {"outside", "succeeded", "failed"} = Shipped
    BY DEF Shipped
  <2>4. CASE Deploy(d)
    BY <1>5, <1>a, <2>1, <2>3, <2>4 DEF Deploy
  <2>5. CASE DeployLeaves(d)
    BY <1>5, <1>a, <2>1, <2>2, <2>3, <2>5 DEF DeployLeaves
  <2>6. CASE Blame(d)
    BY <1>5, <1>a, <2>1, <2>3, <2>6 DEF Blame
  <2>7. QED BY <1>6, <2>4, <2>5, <2>6
<1>c. ASSUME NEW l \in Links, NEW s \in Seconds, Measure(l, s) PROVE TeamStateOK'
  <2>1. [lead EXCEPT ![l] = s] \in [Links -> Seconds]
    BY <1>a
  <2>2. QED BY <1>5, <1>a, <1>c, <2>1 DEF Measure
<1>7. ASSUME NEW i \in Incidents, ResolveLeaves(i) \/ \E s \in Times : Resolve(i, s)
      PROVE  TeamStateOK'
  <2>1. \A x \in Seconds : [resolved EXCEPT ![i] = x] \in [Incidents -> Seconds]
    BY <1>a
  <2>2. QED BY <1>5, <1>7, <1>a, <2>1 DEF ResolveLeaves, Resolve
<1>8. CASE handleCreateTeam
  BY <1>1, <1>2, <1>8 DEF handleCreateTeam, TeamTypeOK, TeamStateOK
<1>9. CASE handleDeleteTeam
  BY <1>1, <1>2, <1>9 DEF handleDeleteTeam, TeamTypeOK, TeamStateOK
<1>10. ASSUME NEW p \in Assignable, handleAssignProjectToTeam(p) \/ handleUnassignProjectFromTeam(p)
       PROVE  TeamStateOK'
  BY <1>1, <1>2, <1>10
     DEF handleAssignProjectToTeam, handleUnassignProjectFromTeam, TeamTypeOK, TeamStateOK
<1>11. ASSUME NEW config \in Configs, thresholdsSet(config) PROVE TeamStateOK'
  <2>1. FromJSON(config) \in Limits
    BY RatingAssumption
  <2>2. RatingTypeOK'
    BY <1>1, <1>11, <2>1 DEF thresholdsSet, RatingTypeOK
  <2>3. QED BY <1>3, <1>11, <2>2 DEF thresholdsSet, TeamStateOK
<1>12. CASE UNCHANGED <<ratingVars, teamVars>>
  BY <1>2, <1>3, <1>12 DEF TeamStateOK
<1>13. QED BY <1>4, <1>6, <1>c, <1>7, <1>8, <1>9, <1>10, <1>11, <1>12 DEF TeamNext

\* A team that is not there has no project: deleting it takes them all from it.
THEOREM TeamTypeCorrect == TeamSpec => []TeamTypeOK
<1>1. TeamStateOK => TeamTypeOK
  BY DEF TeamStateOK
<1>2. QED BY <1>1, TeamStateInit, TeamStateNext, PTL DEF TeamSpec

-----------------------------------------------------------------------------
(* The rows of one project among those of several.                          *)

LeadOwner(P) == [l \in LeadsOf(P) |-> ProjectOf[l[1]]]

RecoveryOwner(P) == [r \in RecoveriesOf(P) |-> r[1]]

\* The successful deployments, and those that failed.
LEMMA RowsOfDeployments ==
  ASSUME TeamTypeOK, NEW P \in SUBSET Assignable
  PROVE  /\ IsFiniteSet(P)
         /\ IsFiniteSet(DeploysOf(P)) /\ FailedOf(P) \subseteq DeploysOf(P)
         /\ \A d \in DeploysOf(P) : ProjectOf[d] \in P
         /\ \A p \in P : /\ DeploysOf({p}) = RowsOf(DeploysOf(P), ProjectOf, {p})
                         /\ FailedOf({p}) = RowsOf(FailedOf(P), ProjectOf, {p})
<1>1. IsFiniteSet(P)
  BY FS_Subset, TeamAssumption
<1>2. DeploysOf(P) \subseteq Deployments /\ \A d \in DeploysOf(P) : ProjectOf[d] \in P
  BY DEF DeploysOf
<1>3. IsFiniteSet(DeploysOf(P))
  BY <1>2, FS_Subset, TeamAssumption
<1>4. FailedOf(P) \subseteq DeploysOf(P)
  BY DEF FailedOf
<1>5. \A p \in P : DeploysOf({p}) = RowsOf(DeploysOf(P), ProjectOf, {p})
  BY DEF DeploysOf, RowsOf
<1>6. \A p \in P : FailedOf({p}) = RowsOf(FailedOf(P), ProjectOf, {p})
  BY DEF DeploysOf, FailedOf, RowsOf
<1>7. QED BY <1>1, <1>2, <1>3, <1>4, <1>5, <1>6

\* The links of the deployments with a lead time.
LEMMA RowsOfLeads ==
  ASSUME TeamTypeOK, NEW P \in SUBSET Assignable
  PROVE  /\ IsFiniteSet(LeadsOf(P))
         /\ \A l \in LeadsOf(P) : LeadOwner(P)[l] \in P /\ lead[l] \in Nat
         /\ \A p \in P : LeadsOf({p}) = RowsOf(LeadsOf(P), LeadOwner(P), {p})
<1>1. LeadsOf(P) \subseteq Links
  BY DEF LeadsOf
<1>2. IsFiniteSet(LeadsOf(P))
  BY <1>1, FS_Subset, TeamAssumption
<1>3. ASSUME NEW l \in LeadsOf(P) PROVE LeadOwner(P)[l] \in P /\ lead[l] \in Nat
  <2>1. l \in Links /\ l[1] \in DeploysOf(P) /\ lead[l] >= 0
    BY DEF LeadsOf
  <2>2. lead[l] \in Times \cup {-1}
    BY <2>1 DEF TeamTypeOK
  <2>3. \A x \in Times \cup {-1} : x >= 0 => x \in Nat
    BY TeamAssumption
  <2>4. ProjectOf[l[1]] \in P
    BY <2>1 DEF DeploysOf
  <2>5. QED BY <2>1, <2>2, <2>3, <2>4 DEF LeadOwner
<1>4. ASSUME NEW p \in P PROVE LeadsOf({p}) = RowsOf(LeadsOf(P), LeadOwner(P), {p})
  <2>1. \A d : d \in DeploysOf({p}) <=> d \in DeploysOf(P) /\ ProjectOf[d] = p
    BY DEF DeploysOf
  <2>2. \A l : l \in LeadsOf({p}) <=> l \in LeadsOf(P) /\ ProjectOf[l[1]] = p
    BY <2>1 DEF LeadsOf
  <2>3. \A l \in LeadsOf(P) : LeadOwner(P)[l] = ProjectOf[l[1]]
    BY DEF LeadOwner
  <2>4. QED BY <2>2, <2>3 DEF RowsOf
<1>5. QED BY <1>2, <1>3, <1>4

\* The incidents joined with the projects that have their key.
LEMMA RowsOfIncidents ==
  ASSUME TeamTypeOK, NEW P \in SUBSET Assignable
  PROVE  /\ IsFiniteSet(RecoveriesOf(P))
         /\ \A r \in RecoveriesOf(P) : RecoveryOwner(P)[r] \in P /\ resolved[r[2]] \in Nat
         /\ \A p \in P : RecoveriesOf({p}) = RowsOf(RecoveriesOf(P), RecoveryOwner(P), {p})
<1>1. RecoveriesOf(P) \subseteq P \X Incidents
  BY DEF RecoveriesOf
<1>2. IsFiniteSet(P \X Incidents)
  BY FS_Subset, FS_Product, TeamAssumption
<1>3. IsFiniteSet(RecoveriesOf(P))
  BY <1>1, <1>2, FS_Subset
<1>4. ASSUME NEW r \in RecoveriesOf(P) PROVE RecoveryOwner(P)[r] \in P /\ resolved[r[2]] \in Nat
  <2>1. r[1] \in P /\ r[2] \in Incidents /\ resolved[r[2]] >= 0
    BY DEF RecoveriesOf
  <2>2. resolved[r[2]] \in Times \cup {-1}
    BY <2>1 DEF TeamTypeOK
  <2>3. \A x \in Times \cup {-1} : x >= 0 => x \in Nat
    BY TeamAssumption
  <2>4. resolved[r[2]] \in Nat
    BY <2>1, <2>2, <2>3
  <2>5. QED BY <2>1, <2>4 DEF RecoveryOwner
<1>5. ASSUME NEW p \in P
      PROVE  RecoveriesOf({p}) = RowsOf(RecoveriesOf(P), RecoveryOwner(P), {p})
  BY DEF RecoveriesOf, RowsOf, RecoveryOwner
<1>6. QED BY <1>3, <1>4, <1>5

-----------------------------------------------------------------------------
(***************************************************************************)
(* The four metrics of the projects P.  Each is known for them together as *)
(* soon as it is for one of them, and is then no worse than it is for some *)
(* one of them.                                                            *)
(***************************************************************************)

FrequencyOf(P) == ClassifyDeploymentFrequency(Cardinality(DeploysOf(P)), days, limits.df)

LeadTimeOf(P) ==
  ClassifyDuration(Cardinality(LeadsOf(P)),
                   IF LeadsOf(P) = {} THEN Nil ELSE Median(LeadsOf(P)), limits.lt)

FailureRateOf(P) ==
  ClassifyChangeFailureRate(Cardinality(FailedOf(P)), Cardinality(DeploysOf(P)), limits.cfr)

RecoveryTimeOf(P) ==
  ClassifyDuration(Cardinality(RecoveriesOf(P)),
                   IF RecoveriesOf(P) = {} THEN Nil ELSE Mean(RecoveriesOf(P)), limits.mttr)

MetricsOf(P) == <<FrequencyOf(P), LeadTimeOf(P), FailureRateOf(P), RecoveryTimeOf(P)>>

LEMMA KnownTiers ==
  ASSUME NEW n \in Nat, NEW x \in Int, NEW y \in Nat, NEW limit
  PROVE  /\ ClassifyDeploymentFrequency(n, x, limit) \in KnownTier <=> n > 0
         /\ ClassifyDuration(n, x, limit) \in KnownTier <=> n > 0
         /\ ClassifyChangeFailureRate(y, n, limit) \in KnownTier <=> n > 0
         /\ ClassifyDeploymentFrequency(n, x, limit) \in Tier
         /\ ClassifyDuration(n, x, limit) \in Tier
         /\ ClassifyChangeFailureRate(y, n, limit) \in Tier
  BY DEF ClassifyDeploymentFrequency, ClassifyDuration, ClassifyChangeFailureRate,
         FirstEarned, Tier, KnownTier

LEMMA MedianIs ==
  ASSUME TeamTypeOK, NEW P \in SUBSET Assignable, NEW D \in SUBSET LeadsOf(P), D # {},
         NEW f, f = [d \in LeadsOf(P) |-> lead[d]]
  PROVE  /\ Median(D) = (LowerOf(D, f) + UpperOf(D, f)) \div 2
         /\ LowerOf(D, f) \in Nat /\ UpperOf(D, f) \in Nat
         /\ Median(D) \in Nat
<1>1. \A d \in D : f[d] = lead[d] /\ f[d] \in Nat
  BY RowsOfLeads
<1>2. IsFiniteSet(D)
  BY RowsOfLeads, FS_Subset
<1>3. LowerOf(D, f) \in Nat /\ UpperOf(D, f) \in Nat
  BY <1>1, <1>2, LowerIs, UpperIs
<1> DEFINE atMost(x)  == {d \in D : lead[d] <= lead[x]}
           atLeast(x) == {d \in D : lead[d] >= lead[x]}
           L == {lead[x] : x \in {y \in D : 2 * Cardinality(atMost(y)) >= Cardinality(D)}}
           U == {lead[x] : x \in {y \in D : 2 * Cardinality(atLeast(y)) >= Cardinality(D)}}
<1>4. Median(D) = (Min(L) + Max(U)) \div 2
  BY DEF Median
<1>5. \A x \in D : atMost(x) = AtMost(D, f, x) /\ atLeast(x) = From(D, f, f[x])
  BY <1>1 DEF AtMost, From
<1> HIDE DEF atMost, atLeast
<1>6. L = {f[x] : x \in {y \in D : 2 * Cardinality(AtMost(D, f, y)) >= Cardinality(D)}}
  BY <1>1, <1>5
<1>7. U = {f[x] : x \in {y \in D : 2 * Cardinality(From(D, f, f[y])) >= Cardinality(D)}}
  BY <1>1, <1>5
<1> HIDE DEF L, U
<1>8. Median(D) = (LowerOf(D, f) + UpperOf(D, f)) \div 2
  BY <1>4, <1>6, <1>7 DEF LowerOf, UpperOf
<1>9. Median(D) \in Nat
  BY <1>3, <1>8, Halves
<1>10. QED BY <1>3, <1>8, <1>9

LEMMA NotWorseKnown ==
  ASSUME NEW new \in KnownTier, NEW old, NotWorse(new, old)
  PROVE  old \in KnownTier /\ TierOrder(new) >= TierOrder(old)
  BY DEF NotWorse, KnownTier

LEMMA FrequencyPooled ==
  ASSUME TeamStateOK, NEW P \in SUBSET Assignable
  PROVE  /\ FrequencyOf(P) \in Tier
         /\ \A p \in P : FrequencyOf({p}) \in KnownTier => FrequencyOf(P) \in KnownTier
         /\ FrequencyOf(P) \in KnownTier =>
              \E p \in P : /\ FrequencyOf({p}) \in KnownTier
                           /\ TierOrder(FrequencyOf(P)) >= TierOrder(FrequencyOf({p}))
<1>1. TeamTypeOK /\ days \in Nat /\ limits.df \in [Levels -> Ratio]
  BY RatingAssumption DEF TeamStateOK, RatingTypeOK, Limits
<1>2. IsFiniteSet(P) /\ IsFiniteSet(DeploysOf(P)) /\ \A d \in DeploysOf(P) : ProjectOf[d] \in P
  BY <1>1, RowsOfDeployments
<1> DEFINE n == [Q \in SUBSET P |-> Cardinality(RowsOf(DeploysOf(P), ProjectOf, Q))]
<1>3. Additive(n, P)
  BY <1>2, CountAdditive
<1>4. RowsOf(DeploysOf(P), ProjectOf, P) = DeploysOf(P)
  BY <1>2 DEF RowsOf
<1>5. n[P] = Cardinality(DeploysOf(P)) /\ n[P] \in Nat
  BY <1>2, <1>4, Cardinals
<1>6. ASSUME NEW p \in P
      PROVE  /\ n[{p}] = Cardinality(DeploysOf({p})) /\ n[{p}] \in Nat /\ n[{p}] <= n[P]
  <2>1. DeploysOf({p}) = RowsOf(DeploysOf(P), ProjectOf, {p})
    BY <1>1, RowsOfDeployments
  <2>2. {p} \in SUBSET P
    BY <1>6
  <2>3. n[{p}] = Cardinality(DeploysOf({p}))
    BY <2>1, <2>2
  <2>4. DeploysOf({p}) \subseteq DeploysOf(P)
    BY <2>1 DEF RowsOf
  <2>5. /\ Cardinality(DeploysOf({p})) \in Nat
        /\ Cardinality(DeploysOf({p})) <= Cardinality(DeploysOf(P))
    <3> DEFINE D == DeploysOf(P)
               E == DeploysOf({p})
    <3>1. IsFiniteSet(D) /\ E \subseteq D
      BY <1>2, <2>4
    <3> HIDE DEF D, E
    <3>2. Cardinality(E) \in Nat /\ Cardinality(E) <= Cardinality(D)
      BY <3>1, Cardinals
    <3>3. QED BY <3>2 DEF D, E
  <2>6. QED BY <1>5, <2>3, <2>5
<1> HIDE DEF n
<1>7. FrequencyOf(P) \in Tier /\ (FrequencyOf(P) \in KnownTier <=> n[P] > 0)
  <2>1. days \in Int
    BY <1>1
  <2>2. QED BY <1>5, <2>1, KnownTiers DEF FrequencyOf
<1>8. ASSUME NEW p \in P PROVE FrequencyOf({p}) \in KnownTier <=> n[{p}] > 0
  <2>1. days \in Int
    BY <1>1
  <2>2. QED BY <1>6, <1>8, <2>1, KnownTiers DEF FrequencyOf
<1>9. ASSUME FrequencyOf(P) \in KnownTier
      PROVE  \E p \in P : /\ FrequencyOf({p}) \in KnownTier
                          /\ TierOrder(FrequencyOf(P)) >= TierOrder(FrequencyOf({p}))
  <2>1. PICK p \in P : n[{p}] > 0
    BY <1>2, <1>3, <1>7, <1>9, SomePartPositive
  <2>2. n[{p}] \in Nat \ {0} /\ n[P] \in Nat /\ n[{p}] <= n[P]
    <3>1. n[{p}] \in Nat /\ n[{p}] <= n[P]
      BY <1>6
    <3>2. n[{p}] \in Nat \ {0}
      BY <2>1, <3>1
    <3>3. QED BY <1>5, <3>1, <3>2
  <2>3. NotWorse(FrequencyOf(P), FrequencyOf({p}))
    BY <1>1, <1>5, <1>6, <2>2, MoreDeploysNotWorse DEF FrequencyOf
  <2>4. QED BY <1>9, <2>3, NotWorseKnown
<1>10. \A p \in P : FrequencyOf({p}) \in KnownTier => FrequencyOf(P) \in KnownTier
  <2>1. \A p \in P : n[{p}] > 0 => n[P] > 0
    BY <1>5, <1>6
  <2>2. QED BY <1>7, <1>8, <2>1
<1>11. QED BY <1>7, <1>9, <1>10

LEMMA LeadTimePooled ==
  ASSUME TeamStateOK, NEW P \in SUBSET Assignable
  PROVE  /\ LeadTimeOf(P) \in Tier
         /\ \A p \in P : LeadTimeOf({p}) \in KnownTier => LeadTimeOf(P) \in KnownTier
         /\ LeadTimeOf(P) \in KnownTier =>
              \E p \in P : /\ LeadTimeOf({p}) \in KnownTier
                           /\ TierOrder(LeadTimeOf(P)) >= TierOrder(LeadTimeOf({p}))
<1>1. TeamTypeOK /\ limits.lt \in [Levels -> Int]
  BY DEF TeamStateOK, RatingTypeOK, Limits
<1> DEFINE Z == LeadsOf(P)
           f == [l \in LeadsOf(P) |-> lead[l]]
           owner == LeadOwner(P)
           Of(p) == RowsOf(Z, owner, {p})
<1>2. IsFiniteSet(P) /\ \A l \in Z : lead[l] \in Nat
  BY <1>1, RowsOfDeployments, RowsOfLeads
<1>3. IsFiniteSet(Z) /\ (\A l \in Z : owner[l] \in P) /\ \A l \in Z : f[l] \in Nat
  BY <1>1, <1>2, RowsOfLeads
<1>4. \A p \in P : LeadsOf({p}) = Of(p) /\ Of(p) \in SUBSET Z
  BY <1>1, RowsOfLeads DEF RowsOf
<1>5. ASSUME NEW D \in SUBSET Z
      PROVE  /\ Cardinality(D) \in Nat /\ (Cardinality(D) > 0 <=> D # {})
             /\ Cardinality(D) # 0 <=> D # {}
  <2> HIDE DEF Z
  <2>1. Cardinality(D) \in Nat /\ (Cardinality(D) = 0 <=> D = {})
    BY <1>3, Cardinals
  <2>2. QED BY <2>1
<1>6. \A D \in SUBSET Z : D # {} =>
         /\ Median(D) = (LowerOf(D, f) + UpperOf(D, f)) \div 2
         /\ LowerOf(D, f) \in Nat /\ UpperOf(D, f) \in Nat /\ Median(D) \in Nat
  BY <1>1, MedianIs
<1>7. ASSUME NEW D \in SUBSET Z PROVE (IF D = {} THEN Nil ELSE Median(D)) \in Int
  <2> HIDE DEF Z, f
  <2>1. Nil \in Int /\ (D # {} => Median(D) \in Int)
    BY <1>6 DEF Nil
  <2>2. QED BY <2>1
<1>8. ASSUME NEW D \in SUBSET Z
      PROVE  LET tier == ClassifyDuration(Cardinality(D), IF D = {} THEN Nil ELSE Median(D),
                                          limits.lt)
             IN  tier \in Tier /\ (tier \in KnownTier <=> D # {})
  <2> DEFINE x == IF D = {} THEN Nil ELSE Median(D)
  <2>1. Cardinality(D) \in Nat /\ x \in Int /\ (Cardinality(D) > 0 <=> D # {})
    BY <1>5, <1>7
  <2> HIDE DEF x
  <2>2. ClassifyDuration(Cardinality(D), x, limits.lt) \in Tier
    BY <2>1, KnownTiers
  <2>3. ClassifyDuration(Cardinality(D), x, limits.lt) \in KnownTier <=> D # {}
    BY <2>1, KnownTiers
  <2>4. QED BY <2>2, <2>3 DEF x
<1>9. LeadTimeOf(P) \in Tier /\ (LeadTimeOf(P) \in KnownTier <=> Z # {})
  BY <1>8 DEF LeadTimeOf
<1>10. ASSUME NEW p \in P PROVE LeadTimeOf({p}) \in KnownTier <=> Of(p) # {}
  <2>1. LeadsOf({p}) = Of(p) /\ Of(p) \in SUBSET Z
    BY <1>4
  <2> HIDE DEF Of, Z
  <2>2. QED BY <1>8, <2>1 DEF LeadTimeOf
<1>11. ASSUME LeadTimeOf(P) \in KnownTier
       PROVE  \E p \in P : /\ LeadTimeOf({p}) \in KnownTier
                           /\ TierOrder(LeadTimeOf(P)) >= TierOrder(LeadTimeOf({p}))
  <2>1. Z # {}
    BY <1>9, <1>11
  <2>2. PICK p \in P : /\ Of(p) # {}
                       /\ LowerOf(Z, f) + UpperOf(Z, f) <= LowerOf(Of(p), f) + UpperOf(Of(p), f)
    <3> HIDE DEF Z, f, owner
    <3>1. QED BY <1>2, <1>3, <2>1, SomeMedian
  <2>3. Of(p) \in SUBSET Z /\ LeadsOf({p}) = Of(p)
    BY <1>4
  <2> HIDE DEF Of, f
  <2>4. /\ LowerOf(Z, f) + UpperOf(Z, f) \in Nat
        /\ LowerOf(Of(p), f) + UpperOf(Of(p), f) \in Nat
        /\ Median(Z) = (LowerOf(Z, f) + UpperOf(Z, f)) \div 2
        /\ Median(Of(p)) = (LowerOf(Of(p), f) + UpperOf(Of(p), f)) \div 2
    BY <1>6, <2>1, <2>2, <2>3
  <2>5. Median(Z) \in Int /\ Median(Of(p)) \in Int /\ Median(Z) <= Median(Of(p))
    <3> HIDE DEF Z
    <3>1. Median(Z) \in Nat /\ Median(Of(p)) \in Nat /\ Median(Z) <= Median(Of(p))
      BY <2>2, <2>4, Halves
    <3>2. QED BY <3>1
  <2>6. Cardinality(Z) \in Nat /\ Cardinality(Of(p)) \in Nat /\ Cardinality(Of(p)) # 0
    BY <1>5, <2>2, <2>3
  <2>7. NotWorse(ClassifyDuration(Cardinality(Z), Median(Z), limits.lt),
                 ClassifyDuration(Cardinality(Of(p)), Median(Of(p)), limits.lt))
    <3> HIDE DEF Z
    <3>1. QED BY <1>1, <2>5, <2>6, FasterNotWorse
  <2>8. /\ LeadTimeOf(P) = ClassifyDuration(Cardinality(Z), Median(Z), limits.lt)
        /\ LeadTimeOf({p}) = ClassifyDuration(Cardinality(Of(p)), Median(Of(p)), limits.lt)
    BY <2>1, <2>2, <2>3 DEF LeadTimeOf
  <2>9. QED BY <1>11, <2>7, <2>8, NotWorseKnown
<1>12. \A p \in P : LeadTimeOf({p}) \in KnownTier => LeadTimeOf(P) \in KnownTier
  <2>1. \A p \in P : Of(p) # {} => Z # {}
    BY <1>4
  <2> HIDE DEF Of, Z
  <2>2. QED BY <1>9, <1>10, <2>1
<1>13. QED BY <1>9, <1>11, <1>12

LEMMA FailureRatePooled ==
  ASSUME TeamStateOK, NEW P \in SUBSET Assignable
  PROVE  /\ FailureRateOf(P) \in Tier
         /\ \A p \in P : FailureRateOf({p}) \in KnownTier => FailureRateOf(P) \in KnownTier
         /\ FailureRateOf(P) \in KnownTier =>
              \E p \in P : /\ FailureRateOf({p}) \in KnownTier
                           /\ TierOrder(FailureRateOf(P)) >= TierOrder(FailureRateOf({p}))
<1> DEFINE D == DeploysOf(P)
           F == FailedOf(P)
           n == [Q \in SUBSET P |-> Cardinality(RowsOf(D, ProjectOf, Q))]
           failures == [Q \in SUBSET P |-> Cardinality(RowsOf(F, ProjectOf, Q))]
<1>1. TeamTypeOK /\ limits.cfr \in [Levels -> Ratio]
  BY DEF TeamStateOK, RatingTypeOK, Limits
<1>2. /\ IsFiniteSet(P) /\ IsFiniteSet(D) /\ F \subseteq D
      /\ \A d \in D : ProjectOf[d] \in P
      /\ \A p \in P : /\ DeploysOf({p}) = RowsOf(D, ProjectOf, {p})
                      /\ FailedOf({p}) = RowsOf(F, ProjectOf, {p})
  BY <1>1, RowsOfDeployments
<1> HIDE DEF D, F
<1>3. IsFiniteSet(F) /\ Additive(n, P) /\ Additive(failures, P)
  BY <1>2, FS_Subset, CountAdditive
<1>4. RowsOf(D, ProjectOf, P) = D /\ RowsOf(F, ProjectOf, P) = F
  BY <1>2 DEF RowsOf
<1>5. /\ n[P] = Cardinality(D) /\ n[P] \in Nat
      /\ failures[P] = Cardinality(F) /\ failures[P] \in Nat
  BY <1>2, <1>3, <1>4, Cardinals
<1>6. ASSUME NEW p \in P
      PROVE  /\ n[{p}] = Cardinality(DeploysOf({p})) /\ n[{p}] \in Nat
             /\ failures[{p}] = Cardinality(FailedOf({p})) /\ failures[{p}] \in Nat
             /\ n[{p}] <= n[P] /\ failures[{p}] <= n[{p}]
  <2> DEFINE E == RowsOf(D, ProjectOf, {p})
             G == RowsOf(F, ProjectOf, {p})
  <2>1. {p} \in SUBSET P
    BY <1>6
  <2>2. n[{p}] = Cardinality(E) /\ failures[{p}] = Cardinality(G)
    BY <2>1
  <2>3. DeploysOf({p}) = E /\ FailedOf({p}) = G
    BY <1>2, <1>6
  <2>4. E \subseteq D /\ G \subseteq E
    BY <1>2 DEF RowsOf
  <2> HIDE DEF E, G, n, failures
  <2>5. IsFiniteSet(E)
    BY <1>2, <2>4, FS_Subset
  <2>6. Cardinality(E) \in Nat /\ Cardinality(E) <= Cardinality(D)
    BY <1>2, <2>4, Cardinals
  <2>7. Cardinality(G) \in Nat /\ Cardinality(G) <= Cardinality(E)
    BY <2>4, <2>5, Cardinals
  <2>8. QED BY <1>5, <2>2, <2>3, <2>6, <2>7
<1> HIDE DEF n, failures
<1>7. FailureRateOf(P) = ClassifyChangeFailureRate(failures[P], n[P], limits.cfr)
  BY <1>5 DEF FailureRateOf, D, F
<1>8. FailureRateOf(P) \in Tier /\ (FailureRateOf(P) \in KnownTier <=> n[P] > 0)
  BY <1>5, <1>7, KnownTiers
<1>9. ASSUME NEW p \in P
      PROVE  /\ FailureRateOf({p}) = ClassifyChangeFailureRate(failures[{p}], n[{p}], limits.cfr)
             /\ FailureRateOf({p}) \in KnownTier <=> n[{p}] > 0
  <2>1. FailureRateOf({p}) = ClassifyChangeFailureRate(failures[{p}], n[{p}], limits.cfr)
    BY <1>6, <1>9 DEF FailureRateOf
  <2>2. n[{p}] \in Nat /\ failures[{p}] \in Nat
    BY <1>6, <1>9
  <2>3. FailureRateOf({p}) \in KnownTier <=> n[{p}] > 0
    BY <2>1, <2>2, KnownTiers
  <2>4. QED BY <2>1, <2>3
<1>10. ASSUME FailureRateOf(P) \in KnownTier
       PROVE  \E p \in P : /\ FailureRateOf({p}) \in KnownTier
                           /\ TierOrder(FailureRateOf(P)) >= TierOrder(FailureRateOf({p}))
  <2> DEFINE N == n[P]
             G == failures[P]
             a == [Q \in SUBSET P |-> G * n[Q]]
             b == [Q \in SUBSET P |-> N * failures[Q]]
  <2>1. N \in Nat /\ G \in Nat /\ N > 0 /\ N \in Int /\ G \in Int
    BY <1>5, <1>8, <1>10
  <2>2. a[P] = G * N /\ b[P] = N * G
    OBVIOUS
  <2>3. \A p \in P : a[{p}] = G * n[{p}] /\ b[{p}] = N * failures[{p}]
    <3>1. \A p \in P : {p} \in SUBSET P
      OBVIOUS
    <3>2. QED BY <3>1
  <2> HIDE DEF N, G
  <2>4. Additive(a, P) /\ Additive(b, P)
    BY <1>3, <2>1, ScaledAdditive
  <2> HIDE DEF a, b
  <2>5. a[P] <= b[P]
    BY <2>1, <2>2
  <2>6. ASSUME NEW p \in P
        PROVE  n[{p}] >= 0 /\ a[{p}] >= 0 /\ (n[{p}] = 0 => b[{p}] = 0)
    <3>1. n[{p}] \in Nat /\ failures[{p}] \in Nat /\ failures[{p}] <= n[{p}]
      BY <1>6, <2>6
    <3>2. n[{p}] = 0 => failures[{p}] = 0
      BY <3>1
    <3>3. G * n[{p}] \in Nat /\ N * 0 = 0
      BY <2>1, <3>1
    <3>4. a[{p}] = G * n[{p}] /\ b[{p}] = N * failures[{p}]
      BY <2>3
    <3>5. a[{p}] >= 0
      BY <3>3, <3>4
    <3>6. n[{p}] = 0 => b[{p}] = 0
      BY <3>2, <3>3, <3>4
    <3>7. QED BY <3>1, <3>5, <3>6
  <2>7. n[P] > 0
    BY <2>1 DEF N
  <2>8. PICK p \in P : n[{p}] > 0 /\ a[{p}] <= b[{p}]
    BY <1>2, <1>3, <2>4, <2>5, <2>6, <2>7, SomePartReaches
  <2>9. /\ failures[{p}] \in Nat /\ n[{p}] \in Nat /\ n[{p}] > 0
        /\ G * n[{p}] <= N * failures[{p}]
    BY <1>6, <2>3, <2>8
  <2>10. NotWorse(ClassifyChangeFailureRate(G, N, limits.cfr),
                  ClassifyChangeFailureRate(failures[{p}], n[{p}], limits.cfr))
    BY <1>1, <2>1, <2>9, LowerRateNotWorse
  <2>11. NotWorse(FailureRateOf(P), FailureRateOf({p}))
    BY <1>7, <1>9, <2>10 DEF N, G
  <2>12. QED BY <1>10, <2>11, NotWorseKnown
<1>11. \A p \in P : FailureRateOf({p}) \in KnownTier => FailureRateOf(P) \in KnownTier
  <2>1. \A p \in P : n[{p}] > 0 => n[P] > 0
    BY <1>5, <1>6
  <2>2. QED BY <1>8, <1>9, <2>1
<1>12. QED BY <1>8, <1>10, <1>11

\* The mean of the joined rows, by the sum of them that is of each project.
LEMMA MeanIs ==
  ASSUME TeamTypeOK, NEW P \in SUBSET Assignable,
         NEW v \in [RecoveriesOf(P) -> Nat],
         \A r \in RecoveriesOf(P) : v[r] = resolved[r[2]],
         NEW g, IsSum(g, v, RecoveriesOf(P)),
         NEW R \in SUBSET RecoveriesOf(P), R # {}
  PROVE  /\ Mean(R) = g[R] \div Cardinality(R)
         /\ g[R] \in Nat /\ Cardinality(R) \in Nat /\ Cardinality(R) > 0
         /\ Mean(R) \in Nat
<1> DEFINE w == [r \in R |-> resolved[r[2]]]
           Z == RecoveriesOf(P)
<1>1. IsFiniteSet(Z) /\ v \in [Z -> Nat] /\ IsSum(g, v, Z) /\ R \in SUBSET Z
  BY RowsOfIncidents
<1>2. w = [r \in R |-> v[r]]
  OBVIOUS
<1>3. Mean(R) = SumFunction(w) \div Cardinality(R)
  BY DEF Mean
<1> HIDE DEF w, Z
<1>4. SumFunction(w) = g[R]
  BY <1>1, <1>2, SumOfPart
<1>5. g[R] \in Nat
  <2>1. g \in [SUBSET Z -> Nat]
    BY <1>1, SumType
  <2>2. QED BY <1>1, <2>1
<1>6. IsFiniteSet(R)
  BY <1>1, FS_Subset
<1>7. Cardinality(R) \in Nat /\ Cardinality(R) > 0
  <2>1. R \subseteq R
    OBVIOUS
  <2>2. Cardinality(R) \in Nat /\ (Cardinality(R) = 0 <=> R = {})
    BY <1>6, <2>1, Cardinals
  <2>3. QED BY <2>2
<1>8. Mean(R) = g[R] \div Cardinality(R)
  BY <1>3, <1>4
<1>9. Mean(R) \in Nat
  BY <1>5, <1>7, <1>8, Quotient
<1>10. QED BY <1>5, <1>7, <1>8, <1>9

\* So is the sum that each mean is taken of.
LEMMA SumAdditive ==
  ASSUME NEW P, NEW Z, IsFiniteSet(Z), NEW owner, NEW v \in [Z -> Nat], NEW g, IsSum(g, v, Z),
         NEW c, c = [Q \in SUBSET P |-> g[RowsOf(Z, owner, Q)]]
  PROVE  Additive(c, P)
<1>1. \A Q \in SUBSET P : RowsOf(Z, owner, Q) \in SUBSET Z
  BY DEF RowsOf
<1>2. g \in [SUBSET Z -> Nat] /\ g[{}] = 0
  BY SumType
<1>3. c \in [SUBSET P -> Int]
  BY <1>1, <1>2
<1>4. c[{}] = 0
  <2>1. RowsOf(Z, owner, {}) = {}
    BY DEF RowsOf
  <2>2. QED BY <1>2, <2>1
<1>5. ASSUME NEW Q \in SUBSET P, NEW p \in Q
      PROVE  c[Q] = c[Q \ {p}] + c[{p}]
  <2> DEFINE a == RowsOf(Z, owner, Q \ {p})
             b == RowsOf(Z, owner, {p})
  <2>1. RowsOf(Z, owner, Q) = a \cup b /\ a \cap b = {} /\ a \in SUBSET Z /\ b \in SUBSET Z
    BY DEF RowsOf
  <2>2. {p} \in SUBSET P /\ Q \ {p} \in SUBSET P
    OBVIOUS
  <2>3. c[Q] = g[RowsOf(Z, owner, Q)] /\ c[Q \ {p}] = g[a] /\ c[{p}] = g[b]
    BY <2>2
  <2> HIDE DEF a, b
  <2>4. g[a \cup b] = g[a] + g[b]
    BY <2>1, SumUnion
  <2>5. QED BY <2>1, <2>3, <2>4
<1>6. QED BY <1>3, <1>4, <1>5 DEF Additive

LEMMA RecoveryTimePooled ==
  ASSUME TeamStateOK, NEW P \in SUBSET Assignable
  PROVE  /\ RecoveryTimeOf(P) \in Tier
         /\ \A p \in P : RecoveryTimeOf({p}) \in KnownTier => RecoveryTimeOf(P) \in KnownTier
         /\ RecoveryTimeOf(P) \in KnownTier =>
              \E p \in P : /\ RecoveryTimeOf({p}) \in KnownTier
                           /\ TierOrder(RecoveryTimeOf(P)) >= TierOrder(RecoveryTimeOf({p}))
<1> DEFINE Z == RecoveriesOf(P)
           owner == RecoveryOwner(P)
           v == [r \in Z |-> resolved[r[2]]]
           Of(p) == RowsOf(Z, owner, {p})
<1>1. TeamTypeOK /\ limits.mttr \in [Levels -> Int]
  BY DEF TeamStateOK, RatingTypeOK, Limits
<1>2. /\ IsFiniteSet(Z) /\ (\A r \in Z : owner[r] \in P) /\ v \in [Z -> Nat]
      /\ \A p \in P : RecoveriesOf({p}) = Of(p)
  BY <1>1, RowsOfIncidents
<1>3. PICK g : IsSum(g, v, Z)
  <2> HIDE DEF Z, v
  <2>1. QED BY <1>2, SumExists
<1>4. ASSUME NEW R \in SUBSET Z, R # {}
      PROVE  /\ Mean(R) = g[R] \div Cardinality(R)
             /\ g[R] \in Nat /\ Cardinality(R) \in Nat /\ Cardinality(R) > 0
             /\ Mean(R) \in Nat
  <2>1. \A r \in Z : v[r] = resolved[r[2]]
    OBVIOUS
  <2>2. IsSum(g, v, RecoveriesOf(P)) /\ v \in [RecoveriesOf(P) -> Nat]
    BY <1>2, <1>3
  <2> HIDE DEF v
  <2>3. QED BY <1>1, <1>4, <2>1, <2>2, MeanIs
<1>5. \A p \in P : Of(p) \in SUBSET Z
  BY DEF RowsOf
<1>6. IsFiniteSet(P)
  BY <1>1, RowsOfDeployments
<1> HIDE DEF owner, v
<1>7. ASSUME NEW R \in SUBSET Z
      PROVE  LET tier == ClassifyDuration(Cardinality(R), IF R = {} THEN Nil ELSE Mean(R),
                                          limits.mttr)
             IN  tier \in Tier /\ (tier \in KnownTier <=> R # {})
  <2> DEFINE x == IF R = {} THEN Nil ELSE Mean(R)
             n == Cardinality(R)
  <2>1. x \in Int
    <3>1. Nil \in Int /\ (R # {} => Mean(R) \in Int)
      BY <1>4 DEF Nil
    <3>2. QED BY <3>1
  <2>2. n \in Nat /\ (n > 0 <=> R # {})
    <3> HIDE DEF Z
    <3>1. n \in Nat /\ (n = 0 <=> R = {})
      BY <1>2, Cardinals
    <3>2. QED BY <3>1
  <2> HIDE DEF x, n
  <2>3. ClassifyDuration(n, x, limits.mttr) \in Tier
    BY <2>1, <2>2, KnownTiers
  <2>4. ClassifyDuration(n, x, limits.mttr) \in KnownTier <=> R # {}
    BY <2>1, <2>2, KnownTiers
  <2>5. QED BY <2>3, <2>4 DEF x, n
<1>8. RecoveryTimeOf(P) \in Tier /\ (RecoveryTimeOf(P) \in KnownTier <=> Z # {})
  BY <1>7 DEF RecoveryTimeOf
<1>9. ASSUME NEW p \in P PROVE RecoveryTimeOf({p}) \in KnownTier <=> Of(p) # {}
  <2>1. RecoveriesOf({p}) = Of(p) /\ Of(p) \in SUBSET Z
    BY <1>2, <1>5
  <2> HIDE DEF Of, Z
  <2>2. QED BY <1>7, <2>1 DEF RecoveryTimeOf
<1>10. ASSUME RecoveryTimeOf(P) \in KnownTier
       PROVE  \E p \in P : /\ RecoveryTimeOf({p}) \in KnownTier
                           /\ TierOrder(RecoveryTimeOf(P)) >= TierOrder(RecoveryTimeOf({p}))
  <2> DEFINE L == Mean(Z)
             n == [Q \in SUBSET P |-> Cardinality(RowsOf(Z, owner, Q))]
             a == [Q \in SUBSET P |-> L * n[Q]]
             b == [Q \in SUBSET P |-> g[RowsOf(Z, owner, Q)]]
  <2>1. Z # {} /\ Z \in SUBSET Z
    BY <1>8, <1>10
  <2>2. /\ L = g[Z] \div Cardinality(Z) /\ g[Z] \in Nat
        /\ Cardinality(Z) \in Nat /\ Cardinality(Z) > 0 /\ L \in Nat /\ L \in Int
    <3>1. /\ L = g[Z] \div Cardinality(Z) /\ g[Z] \in Nat
          /\ Cardinality(Z) \in Nat /\ Cardinality(Z) > 0 /\ L \in Nat
      BY <1>4, <2>1
    <3>2. QED BY <3>1
  <2> HIDE DEF L, Z
  <2>3. Additive(n, P)
    BY <1>2, CountAdditive
  <2>4. Additive(b, P)
    BY <1>2, <1>3, SumAdditive
  <2>5. Additive(a, P)
    <3> HIDE DEF n
    <3>1. QED BY <2>2, <2>3, ScaledAdditive
  <2>6. RowsOf(Z, owner, P) = Z
    BY <1>2 DEF RowsOf
  <2>7. n[P] = Cardinality(Z) /\ a[P] = L * Cardinality(Z) /\ b[P] = g[Z]
    BY <2>6
  <2>8. ASSUME NEW p \in P
        PROVE  n[{p}] = Cardinality(Of(p)) /\ a[{p}] = L * n[{p}] /\ b[{p}] = g[Of(p)]
    <3>1. {p} \in SUBSET P
      BY <2>8
    <3>2. QED BY <3>1
  <2> HIDE DEF n, a, b, Of
  <2>9. n[P] > 0
    BY <2>2, <2>7
  <2>10. a[P] <= b[P]
    <3>1. L * Cardinality(Z) <= g[Z]
      BY <2>2, Quotient
    <3>2. QED BY <2>7, <3>1
  <2>11. g[{}] = 0
    BY <1>2, <1>3, SumType
  <2>12. ASSUME NEW p \in P
         PROVE  /\ n[{p}] \in Nat /\ (n[{p}] = 0 <=> Of(p) = {})
                /\ n[{p}] >= 0 /\ a[{p}] >= 0 /\ (n[{p}] = 0 => b[{p}] = 0)
    <3>1. Of(p) \subseteq Z
      BY <1>5, <2>12
    <3>2. Cardinality(Of(p)) \in Nat /\ (Cardinality(Of(p)) = 0 <=> Of(p) = {})
      <4> DEFINE E == Of(p)
      <4>1. IsFiniteSet(Z) /\ E \subseteq Z
        BY <1>2, <3>1
      <4> HIDE DEF E
      <4>2. Cardinality(E) \in Nat /\ (Cardinality(E) = 0 <=> E = {})
        BY <4>1, Cardinals
      <4>3. QED BY <4>2 DEF E
    <3>3. n[{p}] = Cardinality(Of(p)) /\ a[{p}] = L * n[{p}] /\ b[{p}] = g[Of(p)]
      BY <2>8
    <3>4. n[{p}] \in Nat /\ (n[{p}] = 0 <=> Of(p) = {})
      BY <3>2, <3>3
    <3>5. L * n[{p}] \in Nat
      BY <2>2, <3>4
    <3>6. a[{p}] >= 0
      BY <3>3, <3>5
    <3>7. n[{p}] = 0 => b[{p}] = 0
      BY <2>11, <3>3, <3>4
    <3>8. QED BY <3>4, <3>6, <3>7
  <2>13. PICK p \in P : n[{p}] > 0 /\ a[{p}] <= b[{p}]
    BY <1>6, <2>3, <2>4, <2>5, <2>9, <2>10, <2>12, SomePartReaches
  <2>14. Of(p) # {} /\ Of(p) \in SUBSET Z /\ RecoveriesOf({p}) = Of(p)
    <3>1. n[{p}] \in Nat /\ (n[{p}] = 0 <=> Of(p) = {}) /\ n[{p}] > 0
      BY <2>12, <2>13
    <3>2. Of(p) # {}
      BY <3>1
    <3>3. Of(p) \in SUBSET Z
      BY <1>5
    <3>4. RecoveriesOf({p}) = Of(p)
      BY <1>2
    <3>5. QED BY <3>2, <3>3, <3>4
  <2>15. /\ Mean(Of(p)) = g[Of(p)] \div Cardinality(Of(p)) /\ g[Of(p)] \in Nat
         /\ Cardinality(Of(p)) \in Nat /\ Cardinality(Of(p)) > 0 /\ Mean(Of(p)) \in Nat
    BY <1>4, <2>14
  <2>16. L * Cardinality(Of(p)) <= g[Of(p)]
    BY <2>8, <2>13
  <2>17. L <= Mean(Of(p))
    BY <2>2, <2>15, <2>16, QuotientReaches
  <2>18. NotWorse(ClassifyDuration(Cardinality(Z), L, limits.mttr),
                  ClassifyDuration(Cardinality(Of(p)), Mean(Of(p)), limits.mttr))
    <3>1. /\ Mean(Of(p)) \in Int /\ L \in Int /\ Cardinality(Of(p)) # 0
          /\ Cardinality(Of(p)) \in Nat /\ Cardinality(Z) \in Nat
      BY <2>2, <2>15
    <3>2. QED BY <1>1, <2>17, <3>1, FasterNotWorse
  <2>19. /\ RecoveryTimeOf(P) = ClassifyDuration(Cardinality(Z), L, limits.mttr)
         /\ RecoveryTimeOf({p}) = ClassifyDuration(Cardinality(Of(p)), Mean(Of(p)), limits.mttr)
    <3>1. RecoveryTimeOf(P) = ClassifyDuration(Cardinality(Z), L, limits.mttr)
      BY <2>1 DEF RecoveryTimeOf, Z, L
    <3>2. QED BY <2>14, <3>1 DEF RecoveryTimeOf
  <2>20. QED BY <1>10, <2>18, <2>19, NotWorseKnown
<1>11. \A p \in P : RecoveryTimeOf({p}) \in KnownTier => RecoveryTimeOf(P) \in KnownTier
  <2>1. \A p \in P : Of(p) # {} => Z # {}
    BY <1>5
  <2> HIDE DEF Of, Z
  <2>2. QED BY <1>8, <1>9, <2>1
<1>12. QED BY <1>8, <1>10, <1>11

-----------------------------------------------------------------------------
(* The tier of the team.                                                    *)

LEMMA TierIsWorstMetric ==
  ASSUME NEW P
  PROVE  TierOf(P) = WorstMetric(MetricsOf(P))
<1>1. TierOf(P) = WorstOf({FrequencyOf(P), LeadTimeOf(P), FailureRateOf(P), RecoveryTimeOf(P)})
  BY DEF TierOf, FrequencyOf, LeadTimeOf, FailureRateOf, RecoveryTimeOf
<1>2. {MetricsOf(P)[i] : i \in 1..4}
        = {FrequencyOf(P), LeadTimeOf(P), FailureRateOf(P), RecoveryTimeOf(P)}
  BY DEF MetricsOf
<1>3. QED BY <1>1, <1>2 DEF WorstMetric

LEMMA TeamNotBelow == TeamStateOK => NotBelowWorstMember
<1> SUFFICES ASSUME TeamStateOK PROVE NotBelowWorstMember
  OBVIOUS
<1> DEFINE t == MetricsOf(member)
           u == [p \in member |-> MetricsOf({p})]
<1>1. member \in SUBSET Assignable
  BY DEF TeamStateOK, TeamTypeOK
<1>2. t \in [1..4 -> Tier]
  BY <1>1, FrequencyPooled, LeadTimePooled, FailureRatePooled, RecoveryTimePooled DEF MetricsOf
<1>3. u \in [member -> [1..4 -> Tier]]
  <2>1. ASSUME NEW p \in member PROVE MetricsOf({p}) \in [1..4 -> Tier]
    <3>1. {p} \in SUBSET Assignable
      BY <1>1, <2>1
    <3>2. QED BY <3>1, FrequencyPooled, LeadTimePooled, FailureRatePooled, RecoveryTimePooled
             DEF MetricsOf
  <2>2. QED BY <2>1
<1>4. /\ t[1] = FrequencyOf(member) /\ t[2] = LeadTimeOf(member)
      /\ t[3] = FailureRateOf(member) /\ t[4] = RecoveryTimeOf(member)
  BY DEF MetricsOf
<1>5. \A p \in member : /\ u[p][1] = FrequencyOf({p}) /\ u[p][2] = LeadTimeOf({p})
                        /\ u[p][3] = FailureRateOf({p}) /\ u[p][4] = RecoveryTimeOf({p})
  BY DEF MetricsOf
<1>6. TeamTier = WorstMetric(t)
  BY TierIsWorstMetric DEF TeamTier
<1>7. {TierOf({p}) : p \in member} \ {"insufficient_data"} = KnownOf(u, member)
  <2>1. \A p \in member : TierOf({p}) = WorstMetric(u[p])
    BY TierIsWorstMetric
  <2> HIDE DEF u
  <2>2. {TierOf({p}) : p \in member} = {WorstMetric(u[p]) : p \in member}
    BY <2>1
  <2>3. QED BY <2>2 DEF KnownOf
<1> HIDE DEF t, u
<1>8. \A i \in 1..4 : t[i] \in KnownTier =>
        \E p \in member : u[p][i] \in KnownTier /\ TierOrder(t[i]) >= TierOrder(u[p][i])
  <2>1. t[1] \in KnownTier =>
          \E p \in member : u[p][1] \in KnownTier /\ TierOrder(t[1]) >= TierOrder(u[p][1])
    BY <1>1, <1>4, <1>5, FrequencyPooled
  <2>2. t[2] \in KnownTier =>
          \E p \in member : u[p][2] \in KnownTier /\ TierOrder(t[2]) >= TierOrder(u[p][2])
    BY <1>1, <1>4, <1>5, LeadTimePooled
  <2>3. t[3] \in KnownTier =>
          \E p \in member : u[p][3] \in KnownTier /\ TierOrder(t[3]) >= TierOrder(u[p][3])
    BY <1>1, <1>4, <1>5, FailureRatePooled
  <2>4. t[4] \in KnownTier =>
          \E p \in member : u[p][4] \in KnownTier /\ TierOrder(t[4]) >= TierOrder(u[p][4])
    BY <1>1, <1>4, <1>5, RecoveryTimePooled
  <2>5. 1..4 = {1, 2, 3, 4}
    OBVIOUS
  <2>6. QED BY <2>1, <2>2, <2>3, <2>4, <2>5
<1>9. \A i \in 1..4 : \A p \in member : u[p][i] \in KnownTier => t[i] \in KnownTier
  <2>1. \A p \in member : u[p][1] \in KnownTier => t[1] \in KnownTier
    BY <1>1, <1>4, <1>5, FrequencyPooled
  <2>2. \A p \in member : u[p][2] \in KnownTier => t[2] \in KnownTier
    BY <1>1, <1>4, <1>5, LeadTimePooled
  <2>3. \A p \in member : u[p][3] \in KnownTier => t[3] \in KnownTier
    BY <1>1, <1>4, <1>5, FailureRatePooled
  <2>4. \A p \in member : u[p][4] \in KnownTier => t[4] \in KnownTier
    BY <1>1, <1>4, <1>5, RecoveryTimePooled
  <2>5. 1..4 = {1, 2, 3, 4}
    OBVIOUS
  <2>6. QED BY <2>1, <2>2, <2>3, <2>4, <2>5
<1>10. IF KnownOf(u, member) = {} THEN WorstMetric(t) = "insufficient_data"
       ELSE TierOrder(WorstMetric(t)) >= TierOrder(WorstOf(KnownOf(u, member)))
  BY <1>2, <1>3, <1>8, <1>9, WorstOfWhole
<1>11. QED BY <1>6, <1>7, <1>10 DEF NotBelowWorstMember

\* The same of a project's own window where `cli thresholds set` may change the
\* limits between two steps: what lowers a tier then is the change of the limits.
THEOREM ImprovementIsSafeInTeam == TeamSpec => ImprovementNeverDemotes
<1>1. TeamStateOK => RatingTypeOK
  BY DEF TeamStateOK
<1>2. TeamSpec => []RatingTypeOK
  BY <1>1, TeamStateInit, TeamStateNext, PTL DEF TeamSpec
<1>3. QED BY <1>2, StepNeverDemotes, PTL DEF ImprovementNeverDemotes

\* However the rows of the window, the projects of the team and the thresholds
\* change, and for every tenant's thresholds, handleTeamMetrics never gives a
\* team a tier below that of its worst project, and gives it one as soon as a
\* project has one.
THEOREM TeamNeverBelowWorst == TeamSpec => []NotBelowWorstMember
BY TeamStateInit, TeamStateNext, TeamNotBelow, PTL DEF TeamSpec
=============================================================================
