--------------------------- MODULE AlertPipeline ----------------------------
(***************************************************************************)
(* From a computed window to a called destination: AlertDetection with the *)
(* delivery of AlertDispatch beside it.  They share the table alert_event, *)
(* of which detection keeps the content and dispatch the delivery columns, *)
(* the queue that carries dispatch:alert tasks, and the workers: one asynq *)
(* server runs the tasks of every queue in one pool (cmd/worker/main.go).  *)
(*                                                                         *)
(* An insert, an enqueue and a deletion are single calls that both         *)
(* components see; everything else is a step of one of them.  Init, Next,  *)
(* Spec and vars are those of AlertDetection; what both do together has    *)
(* Pipeline in its name.                                                   *)
(***************************************************************************)
EXTENDS AlertDetection

CONSTANTS
  DispatchRetry,      \* MaxRetry of dispatch:alert
  MaxEvents           \* bound: events ever inserted

VARIABLES
  status, deliveredAt, lastError, task, attempt, answer, log,
  dispatchFaults      \* failures on the side of the delivery

EventIds == 1..MaxEvents

Dispatch == INSTANCE AlertDispatch
              WITH MaxRetry <- DispatchRetry, faults <- dispatchFaults

ASSUME PipelineAssumption == Dispatch!DispatchAssumption /\ MaxEvents \in Nat

dispatchVars == <<status, deliveredAt, lastError, task, attempt, answer, log, dispatchFaults>>
pipelineVars == <<vars, dispatchVars>>

PipelineInit == Init /\ Dispatch!Init

-----------------------------------------------------------------------------
(* The pool.                                                                *)

\* A definition marked "Wrong variant" belongs to no behaviour: put in the place
\* of the one after it, it breaks a property.

\* Wrong variant: deliveries take no worker.
BusyComputing == Cardinality(Active)

Busy == Cardinality(Active) + Cardinality({e \in EventIds : task[e].state = "active"})

\* A queued task starts when one of the workers is free.
Free == Busy < workers

-----------------------------------------------------------------------------
(* The calls both components see.                                           *)

\* The row gets its identifier and delivery_status 'pending' in one INSERT.
StoreEvent(j, m) ==
  /\ nextEvent <= MaxEvents
  /\ InsertEvent(j, m)
  /\ Dispatch!Create(nextEvent)

\* Wrong variant: the task never reaches the queue.
SubmitNowhere(j) == EnqueueDispatch(j) /\ UNCHANGED dispatchVars

SubmitTask(j) == EnqueueDispatch(j) /\ Dispatch!Submit(jobs[j].event)

\* The call failed: the task is in the queue all the same, or it is not.
SubmitTaskFails(j) ==
  /\ EnqueueDispatchFails(j)
  /\ IF dispatched' = dispatched THEN UNCHANGED dispatchVars
     ELSE Dispatch!Submit(jobs[j].event)

RemoveRule(r) ==
  /\ DeleteRule(r)
  /\ Dispatch!Remove({ev.id : ev \in {ev \in events : ev.rule = r}})

-----------------------------------------------------------------------------
(* The steps of one component.                                              *)

Compute(j) ==
  \/ Free /\ (SkipMissingProject(j) \/ ReadPrevious(j))
  \/ \E tier \in Outcomes : RecordWindow(j, tier)
  \/ MatchRules(j)
  \/ \E m \in jobs[j].todo : InsertEventFails(j, m)

ComputeFaulty(j) ==
  \/ CrashCompute(j) \/ MatchRulesFails(j)
  \/ (jobs[j].pc = "queued" => Free) /\ (MissPrevious(j) \/ ComputeFails(j))

Request ==
  \/ \E r \in RuleIds, v \in RuleValues : CreateRule(r, v) \/ UpdateRule(r, v)
  \/ \E p \in Projects : RemoveProject(p)

Deliver(e) == (task[e].state = "queued" => Free) /\ Dispatch!Work(e)

DeliverFaulty(e) == (task[e].state = "queued" => Free) /\ Dispatch!Faulty(e)

-----------------------------------------------------------------------------
\* What the worker does for a compute task when nothing goes wrong.
WorkOn(j) ==
  \/ Compute(j) /\ UNCHANGED dispatchVars
  \/ \E m \in jobs[j].todo : StoreEvent(j, m)
  \/ SubmitTask(j)

PipelineNext ==
  \/ \E j \in Jobs :
       \/ WorkOn(j)
       \/ (EnqueueCompute(j) \/ ComputeFaulty(j)) /\ UNCHANGED dispatchVars
       \/ SubmitTaskFails(j)
  \/ Request /\ UNCHANGED dispatchVars
  \/ \E r \in RuleIds : RemoveRule(r)
  \/ \E e \in EventIds : (Deliver(e) \/ DeliverFaulty(e)) /\ UNCHANGED vars

\* MaxFaults bounds the failures of both components together.
PipelineSpec ==
  PipelineInit /\ [][PipelineNext /\ faults' + dispatchFaults' <= MaxFaults]_pipelineVars

\* asynq does not leave a worker idle while tasks wait, and handlers run on.
\* Nothing is assumed of which task goes first: the queues have weights.
PipelineFairness ==
  WF_pipelineVars(\/ \E j \in Jobs : WorkOn(j)
                  \/ \E e \in EventIds : Deliver(e) /\ UNCHANGED vars)

FairPipelineSpec == PipelineSpec /\ PipelineFairness

-----------------------------------------------------------------------------
(* Properties.                                                              *)

PipelineTypeOK == TypeOK /\ Dispatch!TypeOK

\* Deleting rules leaves at most as many calls in their name as there are
\* workers: one pool runs the deliveries of all events, and none starts later.
LateCallsBounded ==
  Cardinality({e \in EventIds : log[e].late > 0}) <= workers * Cardinality(retired)

Quiet ==
  /\ \A j \in Jobs : jobs[j].pc \in {"new", "done", "archived"}
  /\ \A e \in EventIds : task[e].state \in {"none", "done", "archived"}

\* When the queues are empty and nothing failed on the way, the history shows
\* no alert as pending, whichever computations, deliveries and edits of rules
\* overlapped.
QuietMeansSettled ==
  Quiet /\ faults = 0 /\ dispatchFaults = 0 =>
    \A e \in EventIds : status[e] # "pending"

\* A failure leaves at most one alert pending for good: a worker that dies or an
\* enqueue that fails between two inserts, an UPDATE that is lost after an answer,
\* a delivery that dies with its last attempt.
OnePendingPerFailure ==
  Quiet => Cardinality({e \in EventIds : status[e] = "pending"}) <= faults + dispatchFaults

\* With one worker and no rule edited, a quiet system without failures has made
\* each transition of the stored series known: for every rule that covers it
\* there is an event whose destination took it in, or that shows as failed.
TransitionsMadeKnown ==
  Quiet /\ faults = 0 /\ dispatchFaults = 0 /\ ruleOps = 0 /\ workers = 1 =>
    \A i \in 1..Len(rows) : IsTransition(i) =>
      \A r \in Matching(rows[i].project, rows[i].window, rows[Before(i)].tier, rows[i].tier) :
        \E ev \in events :
          /\ ev.row = i /\ ev.rule = r
          /\ \/ status[ev.id] = "delivered" /\ log[ev.id].taken > 0
             \/ status[ev.id] = "failed"

\* Whatever is queued, the system falls quiet again: computations and deliveries
\* share the workers, and none keeps the other from ending.  By
\* QuietMeansSettled no alert stays pending then, if nothing failed.
FallsQuiet == ~Quiet ~> Quiet
=============================================================================
