--------------------------- MODULE AlertDispatch ----------------------------
(***************************************************************************)
(* Delivery of alert events: the dispatch:alert task (HandleDispatchAlert  *)
(* and adaptRequest in internal/collector), the delivery columns of        *)
(* alert_event, and the task's life in the asynq queue.                    *)
(*                                                                         *)
(* asynq (external) runs a task at least once: an attempt ends when the    *)
(* handler returns and the outcome is written to Redis.  If the worker     *)
(* dies, or that write is lost, the lease expires and the task counts one  *)
(* more retry; a worker that shuts down puts its task back without         *)
(* counting.  The POST, the UPDATE of the event and the outcome are        *)
(* separate actions, so all of that may fall between them.                 *)
(***************************************************************************)
EXTENDS Integers, FiniteSets

CONSTANTS
  EventIds,
  MaxRetry,      \* asynq.MaxRetry of the task
  MaxFaults      \* bound: crashes, shutdowns and failed calls in a behaviour

ASSUME DispatchAssumption == MaxRetry \in Nat /\ MaxFaults \in Nat

VARIABLES
  status,       \* alert_event.delivery_status; "none" before, "removed" after
  deliveredAt,  \* alert_event.delivered_at is set
  lastError,    \* alert_event.last_error is set
  task,         \* the event's task: where it is, and asynq's retry counter
  attempt,      \* where the running attempt of the task is
  answer,       \* what the running attempt knows of its POST
  log,          \* history: POSTs sent, sent after removal, and taken in; attempts put back
  faults        \* counter for the bound

rowVars == <<status, deliveredAt, lastError>>
vars == <<status, deliveredAt, lastError, task, attempt, answer, log, faults>>

-----------------------------------------------------------------------------
Stored == {"pending", "delivered", "failed"}

\* What the POST comes to.  accepted: 2xx.  rejected: a 4xx other than 408 and
\* 429.  refused: any other status.  lost: no answer in time, although the
\* destination may have taken the alert in.  malformed: the request could not
\* even be built (no routing key for PagerDuty, an unusable URL).
Answers == {"accepted", "rejected", "refused", "lost", "malformed"}

\* A definition marked "Wrong variant" belongs to no behaviour: put in the place
\* of the one after it, it breaks a property.

\* Wrong variant: a POST without an answer counts as done.
VerdictOfLost(a) == CASE a \in {"accepted", "lost"}        -> "success"
                      [] a \in {"rejected", "malformed"} -> "skip"
                      [] OTHER                         -> "retry"

\* What the handler returns for it: nil, an error, or an error with SkipRetry.
Verdict(a) == CASE a = "accepted"                -> "success"
                [] a \in {"rejected", "malformed"} -> "skip"
                [] OTHER                         -> "retry"

Fault == faults < MaxFaults /\ faults' = faults + 1

Init ==
  /\ status      = [e \in EventIds |-> "none"]
  /\ deliveredAt = [e \in EventIds |-> FALSE]
  /\ lastError   = [e \in EventIds |-> FALSE]
  /\ task    = [e \in EventIds |-> [state |-> "none", retried |-> 0]]
  /\ attempt = [e \in EventIds |-> "idle"]
  /\ answer  = [e \in EventIds |-> "none"]
  /\ log     = [e \in EventIds |-> [posts |-> 0, late |-> 0, taken |-> 0, putBack |-> 0]]
  /\ faults  = 0

-----------------------------------------------------------------------------
(* The detector's and the API's side.                                       *)

\* InsertAlertEvent: delivery_status has the default 'pending'.
Create(e) ==
  /\ status[e] = "none"
  /\ status' = [status EXCEPT ![e] = "pending"]
  /\ UNCHANGED <<deliveredAt, lastError, task, attempt, answer, log, faults>>

\* EnqueueContext of the event's task; the event may be gone again by then.
Submit(e) ==
  /\ status[e] # "none" /\ task[e].state = "none"
  /\ task' = [task EXCEPT ![e].state = "queued"]
  /\ UNCHANGED <<rowVars, attempt, answer, log, faults>>

\* The rule is deleted and the cascade takes its events.
Remove(E) ==
  /\ \A e \in E : status[e] \in Stored
  /\ status' = [e \in EventIds |-> IF e \in E THEN "removed" ELSE status[e]]
  /\ UNCHANGED <<deliveredAt, lastError, task, attempt, answer, log, faults>>

-----------------------------------------------------------------------------
(* The attempt.                                                             *)

Finish(e, state, retried) ==
  /\ task'    = [task EXCEPT ![e] = [state |-> state, retried |-> retried]]
  /\ attempt' = [attempt EXCEPT ![e] = "idle"]
  /\ answer'  = [answer EXCEPT ![e] = "none"]

\* Wrong variant: the counter stands still.
RetryUncounted(e) == Finish(e, "queued", task[e].retried)

\* asynq after an attempt that failed, or whose lease expired.
Retry(e) ==
  IF task[e].retried < MaxRetry
  THEN Finish(e, "queued", task[e].retried + 1)
  ELSE Finish(e, "archived", task[e].retried)

\* Wrong variant: the task goes back to wait for its event.
DropRemovedLater(e) ==
  /\ task[e].state = "queued" /\ status[e] = "removed"
  /\ Finish(e, "queued", task[e].retried)
  /\ UNCHANGED <<rowVars, log, faults>>

\* GetAlertEvent finds nothing: the handler returns nil.  The same comes of a
\* deletion between GetAlertEvent and GetAlertRule, whose UPDATE meets no row.
DropRemoved(e) ==
  /\ task[e].state = "queued" /\ status[e] = "removed"
  /\ Finish(e, "done", task[e].retried)
  /\ UNCHANGED <<rowVars, log, faults>>

\* Wrong variant: a copy of the event is used, whether it still exists or not.
LoadCopy(e) ==
  /\ task[e].state = "queued"
  /\ task'    = [task EXCEPT ![e].state = "active"]
  /\ attempt' = [attempt EXCEPT ![e] = "loaded"]
  /\ UNCHANGED <<rowVars, answer, log, faults>>

\* Event and rule are read; from here on the attempt works on these copies.
Load(e) ==
  /\ task[e].state = "queued" /\ status[e] \in Stored
  /\ task'    = [task EXCEPT ![e].state = "active"]
  /\ attempt' = [attempt EXCEPT ![e] = "loaded"]
  /\ UNCHANGED <<rowVars, answer, log, faults>>

LoadFails(e) ==
  /\ task[e].state = "queued" /\ Fault
  /\ Retry(e)
  /\ UNCHANGED <<rowVars, log>>

\* http.DefaultClient.Do, and what the destination made of it.
Post(e, a) ==
  /\ attempt[e] = "loaded"
  /\ attempt' = [attempt EXCEPT ![e] = "posted"]
  /\ answer'  = [answer EXCEPT ![e] = a]
  /\ \E taken \in {0, 1} :
       /\ a = "accepted" => taken = 1
       /\ taken = 1 => a \in {"accepted", "lost"}
       /\ LET sent == IF a = "malformed" THEN 0 ELSE 1 IN
          log' = [log EXCEPT ![e].posts = @ + sent,
                             ![e].late = @ + IF status[e] = "removed" THEN sent ELSE 0,
                             ![e].taken = @ + taken]
  /\ UNCHANGED <<rowVars, task, faults>>

\* Wrong variant: any answer that is not a 4xx is a delivery.
MarkHopeful(e) ==
  /\ attempt[e] = "posted"
  /\ attempt' = [attempt EXCEPT ![e] = "marked"]
  /\ IF status[e] = "removed" THEN UNCHANGED rowVars
     ELSE LET ok == answer[e] # "rejected" IN
          /\ status'      = [status EXCEPT ![e] = IF ok THEN "delivered" ELSE "failed"]
          /\ deliveredAt' = [deliveredAt EXCEPT ![e] = ok \/ @]
          /\ lastError'   = [lastError EXCEPT ![e] = ~ok]
  /\ UNCHANGED <<task, answer, log, faults>>

\* Wrong variant: an answer that lets the task be retried leaves the row alone.
MarkLast(e) ==
  /\ attempt[e] = "posted"
  /\ attempt' = [attempt EXCEPT ![e] = "marked"]
  /\ IF status[e] = "removed" \/ Verdict(answer[e]) = "retry" THEN UNCHANGED rowVars
     ELSE LET ok == answer[e] = "accepted" IN
          /\ status'      = [status EXCEPT ![e] = IF ok THEN "delivered" ELSE "failed"]
          /\ deliveredAt' = [deliveredAt EXCEPT ![e] = ok \/ @]
          /\ lastError'   = [lastError EXCEPT ![e] = ~ok]
  /\ UNCHANGED <<task, answer, log, faults>>

\* MarkAlertEventDelivered or MarkAlertEventFailed: an UPDATE by id, which
\* meets no row when the event is gone.
Mark(e) ==
  /\ attempt[e] = "posted"
  /\ attempt' = [attempt EXCEPT ![e] = "marked"]
  /\ IF status[e] = "removed" THEN UNCHANGED rowVars
     ELSE LET ok == answer[e] = "accepted" IN
          /\ status'      = [status EXCEPT ![e] = IF ok THEN "delivered" ELSE "failed"]
          /\ deliveredAt' = [deliveredAt EXCEPT ![e] = ok \/ @]
          /\ lastError'   = [lastError EXCEPT ![e] = ~ok]
  /\ UNCHANGED <<task, answer, log, faults>>

\* That UPDATE fails.  After a 2xx the error is returned and the task retried;
\* otherwise it is dropped and the POST's own error decides.
MarkFails(e) ==
  /\ attempt[e] = "posted"
  /\ Fault
  /\ IF answer[e] = "accepted"
     THEN Retry(e)
     ELSE attempt' = [attempt EXCEPT ![e] = "marked"] /\ UNCHANGED <<task, answer>>
  /\ UNCHANGED <<rowVars, log>>

\* The handler has returned and asynq writes the outcome.
Settle(e) ==
  /\ attempt[e] = "marked"
  /\ CASE Verdict(answer[e]) = "success" -> Finish(e, "done", task[e].retried)
       [] Verdict(answer[e]) = "skip"    -> Finish(e, "archived", task[e].retried)
       [] OTHER                          -> Retry(e)
  /\ UNCHANGED <<rowVars, log, faults>>

\* The worker dies; the recoverer finds the expired lease.
Crash(e) ==
  /\ task[e].state = "active"
  /\ Fault
  /\ Retry(e)
  /\ UNCHANGED <<rowVars, log>>

\* The worker shuts down before the handler returned: the task is put back.
PutBack(e) ==
  /\ task[e].state = "active"
  /\ Fault
  /\ Finish(e, "queued", task[e].retried)
  /\ log' = [log EXCEPT ![e].putBack = @ + 1]
  /\ UNCHANGED rowVars

-----------------------------------------------------------------------------
Work(e) ==
  DropRemoved(e) \/ Load(e) \/ (\E a \in Answers : Post(e, a)) \/ Mark(e) \/ Settle(e)

Faulty(e) == LoadFails(e) \/ MarkFails(e) \/ Crash(e) \/ PutBack(e)

Worker(e) == Work(e) \/ Faulty(e)

Next ==
  \/ \E e \in EventIds : Create(e) \/ Submit(e) \/ Worker(e)
  \/ \E E \in (SUBSET EventIds) \ {{}} : Remove(E)

Spec == Init /\ [][Next]_vars

\* asynq hands every queued task to a worker and every handler runs on.
Fairness == \A e \in EventIds : WF_vars(Work(e))

FairSpec == Spec /\ Fairness

-----------------------------------------------------------------------------
(* Properties.                                                              *)

TypeOK ==
  /\ status      \in [EventIds -> Stored \cup {"none", "removed"}]
  /\ deliveredAt \in [EventIds -> BOOLEAN]
  /\ lastError   \in [EventIds -> BOOLEAN]
  /\ task        \in [EventIds -> [state : {"none", "queued", "active", "done", "archived"},
                                   retried : 0..MaxRetry]]
  /\ attempt     \in [EventIds -> {"idle", "loaded", "posted", "marked"}]
  /\ answer      \in [EventIds -> Answers \cup {"none"}]
  /\ log         \in [EventIds -> [posts : Nat, late : Nat, taken : Nat, putBack : Nat]]
  /\ faults      \in 0..MaxFaults

\* An event says it was delivered only if its destination took it in, however
\* many attempts, crashes and failed updates came before.
DeliveredWasTaken ==
  \A e \in EventIds :
    /\ status[e] = "delivered" => deliveredAt[e] /\ ~lastError[e]
    /\ deliveredAt[e] => log[e].taken > 0

\* A destination is called at most once per retry asynq counted, plus once for
\* each attempt a shutdown put back: the budget of alerts.go's MaxRetry holds
\* through crashes and failed updates.
CallBudget ==
  \A e \in EventIds : log[e].posts <= task[e].retried + log[e].putBack + 1

\* Once a rule and its events are deleted, at most the one call that was being
\* prepared still goes out for an event; no retry of it does.
SilentAfterRemoval == \A e \in EventIds : log[e].late <= 1

\* When nothing failed, the outcome of the task and the status shown agree: a
\* finished task left the event delivered (or found it deleted), an archived
\* one left it failed.
StatusTellsOutcome ==
  faults = 0 =>
    \A e \in EventIds :
      /\ task[e].state = "done" => status[e] \in {"delivered", "removed"}
      /\ task[e].state = "archived" => status[e] \in {"failed", "removed"}

\* Every task put in the queue ends, in success or in the archive, although
\* destinations may refuse every call and shutdowns put attempts back.
TasksEnd ==
  \A e \in EventIds :
    task[e].state = "queued" ~> task[e].state \in {"done", "archived"}

\* The tasks, their retries and the kinds of answer and failure implement the
\* plain delivery of AlertDelivery: a delivery is open while an attempt holds
\* the event it read, and has ended once the POST was answered or given up.
PhaseOf(a) == CASE a = "loaded" -> "open" [] a = "posted" -> "ended" [] OTHER -> "idle"

Phase == [e \in EventIds |-> PhaseOf(attempt[e])]

Taken == [e \in EventIds |-> log[e].taken]

Delivery == INSTANCE AlertDelivery WITH phase <- Phase, taken <- Taken

ImplementsDelivery == Delivery!Spec
=============================================================================
