----------------------- MODULE AlertDispatch_proofs -------------------------
(***************************************************************************)
(* Proofs about AlertDispatch, for every set of events and every value of  *)
(* the retry limit and the bound on faults.                                *)
(***************************************************************************)
EXTENDS AlertDispatch, TLAPS

-----------------------------------------------------------------------------
(* Type correctness.                                                        *)

TaskRec == [state : {"none", "queued", "active", "done", "archived"}, retried : 0..MaxRetry]

LogRec == [posts : Nat, late : Nat, taken : Nat, putBack : Nat]

\* How an attempt ends, in the queue's three variables.
LEMMA FinishType ==
  ASSUME TypeOK, NEW e \in EventIds, NEW s \in {"queued", "done", "archived"},
         NEW n \in 0..MaxRetry, Finish(e, s, n)
  PROVE  /\ task' \in [EventIds -> TaskRec]
         /\ attempt' \in [EventIds -> {"idle", "loaded", "posted", "marked"}]
         /\ answer' \in [EventIds -> Answers \cup {"none"}]
  BY DEF TypeOK, Finish, TaskRec

LEMMA RetryType ==
  ASSUME TypeOK, NEW e \in EventIds, Retry(e)
  PROVE  /\ task' \in [EventIds -> TaskRec]
         /\ attempt' \in [EventIds -> {"idle", "loaded", "posted", "marked"}]
         /\ answer' \in [EventIds -> Answers \cup {"none"}]
<1>1. task[e].retried \in 0..MaxRetry
  BY DEF TypeOK
<1>2. task[e].retried < MaxRetry => task[e].retried + 1 \in 0..MaxRetry
  BY <1>1, DispatchAssumption
<1>3. QED BY <1>1, <1>2, FinishType DEF Retry

LEMMA FaultType == TypeOK /\ Fault => faults' \in 0..MaxFaults
  BY DispatchAssumption DEF TypeOK, Fault

\* What a POST adds to the history.
LEMMA PostLog ==
  ASSUME TypeOK, NEW e \in EventIds, NEW a \in Answers, Post(e, a)
  PROVE  /\ log' \in [EventIds -> LogRec]
         /\ \A d \in EventIds \ {e} : log'[d] = log[d]
         /\ log'[e].posts \in {log[e].posts, log[e].posts + 1}
         /\ log'[e].late \in {log[e].late, log[e].late + 1}
         /\ status[e] # "removed" => log'[e].late = log[e].late
         /\ log'[e].taken \in {log[e].taken, log[e].taken + 1}
         /\ a = "accepted" => log'[e].taken = log[e].taken + 1
         /\ log'[e].putBack = log[e].putBack
<1>1. PICK taken \in {0, 1} :
        /\ a = "accepted" => taken = 1
        /\ LET sent == IF a = "malformed" THEN 0 ELSE 1 IN
           log' = [log EXCEPT ![e].posts = @ + sent,
                              ![e].late = @ + IF status[e] = "removed" THEN sent ELSE 0,
                              ![e].taken = @ + taken]
  BY DEF Post
<1>2. PICK sent \in {0, 1} : sent = IF a = "malformed" THEN 0 ELSE 1
  OBVIOUS
<1>3. PICK late \in {0, 1} : late = IF status[e] = "removed" THEN sent ELSE 0
  OBVIOUS
<1>4. PICK old \in LogRec : old = log[e]
  BY DEF TypeOK, LogRec
<1>5. PICK new \in LogRec : /\ new.posts = old.posts + sent /\ new.late = old.late + late
                           /\ new.taken = old.taken + taken /\ new.putBack = old.putBack
  <2>1. [posts |-> old.posts + sent, late |-> old.late + late,
         taken |-> old.taken + taken, putBack |-> old.putBack] \in LogRec
    BY <1>4 DEF LogRec
  <2>2. QED BY <2>1
<1>6. log \in [EventIds -> LogRec]
  BY DEF TypeOK, LogRec
<1>7. new = [old EXCEPT !.posts = @ + sent, !.late = @ + late, !.taken = @ + taken]
  BY <1>4, <1>5 DEF LogRec
<1>8. log' = [log EXCEPT ![e] = new]
  BY <1>1, <1>2, <1>3, <1>4, <1>6, <1>7
<1>9. /\ log'[e] = new /\ log' \in [EventIds -> LogRec]
      /\ \A d \in EventIds \ {e} : log'[d] = log[d]
  BY <1>5, <1>6, <1>8
<1>10. old.posts \in Nat /\ old.late \in Nat /\ old.taken \in Nat
  BY <1>4 DEF LogRec
<1>11. QED BY <1>1, <1>3, <1>4, <1>5, <1>9, <1>10

LEMMA InitType == Init => TypeOK
  BY DispatchAssumption DEF Init, TypeOK

LEMMA NextType == TypeOK /\ [Next]_vars => TypeOK'
<1> SUFFICES ASSUME TypeOK, [Next]_vars PROVE TypeOK'
  OBVIOUS
<1>1. ASSUME NEW e \in EventIds, Create(e) PROVE TypeOK'
  BY <1>1 DEF Create, TypeOK, Stored
<1>2. ASSUME NEW e \in EventIds, Submit(e) PROVE TypeOK'
  BY <1>2 DEF Submit, TypeOK, rowVars
<1>3. ASSUME NEW E \in SUBSET EventIds, Remove(E) PROVE TypeOK'
  BY <1>3 DEF Remove, TypeOK
<1>4. ASSUME NEW e \in EventIds, DropRemoved(e) PROVE TypeOK'
  <2>1. task[e].retried \in 0..MaxRetry
    BY DEF TypeOK
  <2>2. QED BY <1>4, <2>1, FinishType DEF DropRemoved, TypeOK, TaskRec, rowVars
<1>5. ASSUME NEW e \in EventIds, Load(e) PROVE TypeOK'
  BY <1>5 DEF Load, TypeOK, rowVars
<1>6. ASSUME NEW e \in EventIds, LoadFails(e) PROVE TypeOK'
  BY <1>6, RetryType, FaultType DEF LoadFails, TypeOK, TaskRec, rowVars
<1>7. ASSUME NEW e \in EventIds, NEW a \in Answers, Post(e, a) PROVE TypeOK'
  <2>1. log' \in [EventIds -> LogRec]
    BY <1>7, PostLog
  <2>2. QED BY <1>7, <2>1 DEF Post, TypeOK, LogRec, rowVars
<1>8. ASSUME NEW e \in EventIds, Mark(e) PROVE TypeOK'
  BY <1>8 DEF Mark, TypeOK, Stored, rowVars
<1>9. ASSUME NEW e \in EventIds, MarkFails(e) PROVE TypeOK'
  <2>1. CASE Retry(e)
    BY <1>9, <2>1, RetryType, FaultType DEF MarkFails, TypeOK, TaskRec, rowVars
  <2>2. CASE attempt' = [attempt EXCEPT ![e] = "marked"] /\ UNCHANGED <<task, answer>>
    BY <1>9, <2>2, FaultType DEF MarkFails, TypeOK, rowVars
  <2>3. QED BY <1>9, <2>1, <2>2 DEF MarkFails
<1>10. ASSUME NEW e \in EventIds, Settle(e) PROVE TypeOK'
  <2>1. task[e].retried \in 0..MaxRetry
    BY DEF TypeOK
  <2>2. \/ Finish(e, "done", task[e].retried)
        \/ Finish(e, "archived", task[e].retried)
        \/ Retry(e)
    BY <1>10 DEF Settle
  <2>3. QED BY <1>10, <2>1, <2>2, FinishType, RetryType DEF Settle, TypeOK, TaskRec, rowVars
<1>11. ASSUME NEW e \in EventIds, Crash(e) PROVE TypeOK'
  BY <1>11, RetryType, FaultType DEF Crash, TypeOK, TaskRec, rowVars
<1>12. ASSUME NEW e \in EventIds, PutBack(e) PROVE TypeOK'
  <2>1. task[e].retried \in 0..MaxRetry
    BY DEF TypeOK
  <2>2. log' \in [EventIds -> LogRec]
    BY <1>12 DEF PutBack, TypeOK, LogRec
  <2>3. QED BY <1>12, <2>1, <2>2, FinishType, FaultType
            DEF PutBack, TypeOK, TaskRec, LogRec, rowVars
<1>13. CASE UNCHANGED vars
  BY <1>13 DEF vars, TypeOK
<1>14. QED BY <1>1, <1>2, <1>3, <1>4, <1>5, <1>6, <1>7, <1>8, <1>9, <1>10, <1>11, <1>12, <1>13
           DEF Next, Worker, Work, Faulty

\* Every variable keeps its type, and asynq's counter its limit.
THEOREM TypeCorrect == Spec => []TypeOK
  BY InitType, NextType, PTL DEF Spec

-----------------------------------------------------------------------------
(* The safety properties.  Each is strengthened to an invariant of one      *)
(* event, which the steps of other events leave alone.                      *)

\* A task is active while an attempt of it runs, and only for an event that
\* was inserted.
Attempting(e) ==
  /\ task[e].state = "active" <=> attempt[e] # "idle"
  /\ task[e].state # "none" => status[e] # "none"

\* The attempt has an answer from its POST on, and "accepted" only if taken in.
Answered(e) ==
  /\ answer[e] # "none" <=> attempt[e] \in {"posted", "marked"}
  /\ answer[e] = "accepted" => log[e].taken > 0

Honest(e) ==
  /\ status[e] = "delivered" => deliveredAt[e] /\ ~lastError[e]
  /\ deliveredAt[e] => log[e].taken > 0

\* The call that the present attempt, or the last one, may have used up.
Used(e) ==
  IF attempt[e] \in {"posted", "marked"} \/ task[e].state \in {"done", "archived"} THEN 1 ELSE 0

Thrifty(e) == log[e].posts <= task[e].retried + log[e].putBack + Used(e)

\* After a late call no attempt of the event holds what it read before.
Silent(e) ==
  /\ log[e].late <= 1
  /\ log[e].late = 1 => status[e] = "removed" /\ attempt[e] # "loaded"

\* The status agrees with the answer from the UPDATE of the event on.
Agreeing(e) ==
  faults = 0 =>
    /\ attempt[e] = "marked" =>
         status[e] \in {"removed", IF answer[e] = "accepted" THEN "delivered" ELSE "failed"}
    /\ task[e].state = "done" => status[e] \in {"delivered", "removed"}
    /\ task[e].state = "archived" => status[e] \in {"failed", "removed"}

EventInv(e) ==
  /\ Attempting(e) /\ Answered(e) /\ Honest(e)
  /\ Thrifty(e) /\ Silent(e) /\ Agreeing(e)

Same(e) ==
  /\ status'[e] = status[e] /\ deliveredAt'[e] = deliveredAt[e] /\ lastError'[e] = lastError[e]
  /\ task'[e] = task[e] /\ attempt'[e] = attempt[e] /\ answer'[e] = answer[e]
  /\ log'[e] = log[e]

\* How an attempt ends, seen from its event and from the others.
LEMMA FinishEffect ==
  ASSUME TypeOK, NEW e \in EventIds, NEW s, NEW n, Finish(e, s, n)
  PROVE  /\ task'[e] = [state |-> s, retried |-> n]
         /\ attempt'[e] = "idle" /\ answer'[e] = "none"
         /\ \A d \in EventIds \ {e} :
              task'[d] = task[d] /\ attempt'[d] = attempt[d] /\ answer'[d] = answer[d]
  BY DEF TypeOK, Finish

LEMMA RetryEffect ==
  ASSUME TypeOK, NEW e \in EventIds, Retry(e)
  PROVE  /\ \/ /\ task'[e].state = "queued"
               /\ task'[e].retried = task[e].retried + 1
            \/ /\ task'[e].state = "archived"
               /\ task'[e].retried = task[e].retried
         /\ attempt'[e] = "idle" /\ answer'[e] = "none"
         /\ \A d \in EventIds \ {e} :
              task'[d] = task[d] /\ attempt'[d] = attempt[d] /\ answer'[d] = answer[d]
<1>1. CASE task[e].retried < MaxRetry
  <2>1. Finish(e, "queued", task[e].retried + 1)
    BY <1>1 DEF Retry
  <2>2. task'[e] = [state |-> "queued", retried |-> task[e].retried + 1]
    BY <2>1 DEF Finish, TypeOK
  <2>3. QED BY <2>1, <2>2 DEF Finish, TypeOK
<1>2. CASE ~(task[e].retried < MaxRetry)
  <2>1. Finish(e, "archived", task[e].retried)
    BY <1>2 DEF Retry
  <2>2. task'[e] = [state |-> "archived", retried |-> task[e].retried]
    BY <2>1 DEF Finish, TypeOK
  <2>3. QED BY <2>1, <2>2 DEF Finish, TypeOK
<1>3. QED BY <1>1, <1>2

\* A fault is counted.
LEMMA FaultCounted == TypeOK /\ Fault => faults' # 0
  BY DEF TypeOK, Fault

\* The steps of an event leave the others alone.
LEMMA Elsewhere ==
  ASSUME TypeOK, NEW e \in EventIds, Create(e) \/ Submit(e) \/ Worker(e),
         NEW d \in EventIds \ {e}
  PROVE  Same(d)
<1>1. CASE Create(e) \/ Submit(e) \/ Load(e) \/ Mark(e)
  BY <1>1 DEF Create, Submit, Load, Mark, Same, TypeOK, rowVars
<1>2. CASE DropRemoved(e)
  BY <1>2, FinishEffect DEF DropRemoved, Same, rowVars
<1>3. ASSUME NEW a \in Answers, Post(e, a) PROVE Same(d)
  BY <1>3, PostLog DEF Post, Same, rowVars, TypeOK
<1>4. CASE LoadFails(e) \/ Crash(e)
  BY <1>4, RetryEffect DEF LoadFails, Crash, Same, rowVars
<1>5. CASE MarkFails(e)
  <2>1. CASE Retry(e)
    BY <1>5, <2>1, RetryEffect DEF MarkFails, Same, rowVars
  <2>2. CASE attempt' = [attempt EXCEPT ![e] = "marked"] /\ UNCHANGED <<task, answer>>
    BY <1>5, <2>2 DEF MarkFails, Same, rowVars, TypeOK
  <2>3. QED BY <1>5, <2>1, <2>2 DEF MarkFails
<1>6. CASE Settle(e)
  <2>1. \/ Finish(e, "done", task[e].retried)
        \/ Finish(e, "archived", task[e].retried)
        \/ Retry(e)
    BY <1>6 DEF Settle
  <2>2. QED BY <1>6, <2>1, FinishEffect, RetryEffect DEF Settle, Same, rowVars
<1>7. CASE PutBack(e)
  <2>1. task'[d] = task[d] /\ attempt'[d] = attempt[d] /\ answer'[d] = answer[d]
    BY <1>7, FinishEffect DEF PutBack
  <2>2. log'[d] = log[d] /\ UNCHANGED rowVars
    BY <1>7 DEF PutBack, TypeOK
  <2>3. QED BY <2>1, <2>2 DEF Same, rowVars
<1>8. QED BY <1>1, <1>2, <1>3, <1>4, <1>5, <1>6, <1>7 DEF Worker, Work, Faulty

\* What the types say of one event.
LEMMA EventType ==
  ASSUME TypeOK, NEW e \in EventIds
  PROVE  /\ task[e].retried \in Nat /\ log[e].posts \in Nat /\ log[e].late \in Nat
         /\ log[e].taken \in Nat /\ log[e].putBack \in Nat
         /\ attempt[e] \in {"idle", "loaded", "posted", "marked"}
  BY DispatchAssumption DEF TypeOK

Inv == \A e \in EventIds : EventInv(e)

\* Elsewhere, only the count of faults can have changed, and it does not fall.
LEMMA SameKeeps ==
  ASSUME NEW d \in EventIds, EventInv(d), Same(d), faults' = 0 => faults = 0
  PROVE  EventInv(d)'
  BY DEF EventInv, Same, Attempting, Answered, Honest, Thrifty, Used, Silent, Agreeing

LEMMA InvInit == Init => Inv
  BY DEF Init, Inv, EventInv, Attempting, Answered, Honest, Thrifty, Used, Silent, Agreeing

\* Each step of an event keeps the invariant of that event.
LEMMA CreateKeeps ==
  ASSUME TypeOK, NEW e \in EventIds, EventInv(e), Create(e) \/ Submit(e)
  PROVE  EventInv(e)'
<1>1. CASE Create(e)
  BY <1>1, EventType DEF Create, EventInv, Attempting, Answered, Honest, Thrifty, Used, Silent, Agreeing,
     TypeOK
<1>2. CASE Submit(e)
  <2>1. /\ task'[e].state = "queued" /\ task'[e].retried = task[e].retried
        /\ task[e].state = "none" /\ status[e] # "none"
    BY <1>2 DEF Submit, TypeOK
  <2>2. UNCHANGED <<status, deliveredAt, lastError, attempt, answer, log, faults>>
    BY <1>2 DEF Submit, rowVars
  <2>3. QED BY <2>1, <2>2, EventType
            DEF EventInv, Attempting, Answered, Honest, Thrifty, Used, Silent, Agreeing
<1>3. QED BY <1>1, <1>2

LEMMA LoadKeeps ==
  ASSUME TypeOK, NEW e \in EventIds, EventInv(e), Load(e)
  PROVE  EventInv(e)'
<1>1. /\ task'[e].state = "active" /\ task'[e].retried = task[e].retried
      /\ task[e].state = "queued" /\ status[e] \in Stored /\ attempt'[e] = "loaded"
  BY DEF Load, TypeOK
<1>2. UNCHANGED <<status, deliveredAt, lastError, answer, log, faults>>
  BY DEF Load, rowVars
<1>3. QED BY <1>1, <1>2, EventType
          DEF EventInv, Attempting, Answered, Honest, Thrifty, Used, Silent, Agreeing, Stored

LEMMA PostKeeps ==
  ASSUME TypeOK, NEW e \in EventIds, EventInv(e), NEW a \in Answers, Post(e, a)
  PROVE  EventInv(e)'
<1>1. attempt[e] = "loaded" /\ attempt'[e] = "posted" /\ answer'[e] = a
  BY DEF Post, TypeOK
<1>2. UNCHANGED <<status, deliveredAt, lastError, task, faults>>
  BY DEF Post, rowVars
<1>3. /\ log'[e].posts \in {log[e].posts, log[e].posts + 1}
      /\ log'[e].late \in {log[e].late, log[e].late + 1}
      /\ status[e] # "removed" => log'[e].late = log[e].late
      /\ log'[e].taken \in {log[e].taken, log[e].taken + 1}
      /\ a = "accepted" => log'[e].taken = log[e].taken + 1
      /\ log'[e].putBack = log[e].putBack
  BY PostLog
<1>4. a # "none"
  BY DEF Answers
<1>5. Attempting(e)' /\ Answered(e)'
  BY <1>1, <1>2, <1>3, <1>4, EventType DEF EventInv, Attempting, Answered
<1>6. Honest(e)'
  BY <1>2, <1>3, EventType DEF EventInv, Honest
<1>7. Thrifty(e)'
  BY <1>1, <1>2, <1>3, EventType DEF EventInv, Attempting, Thrifty, Used
<1>8. Silent(e)'
  BY <1>1, <1>2, <1>3, EventType DEF EventInv, Silent
<1>9. Agreeing(e)'
  BY <1>1, <1>2 DEF EventInv, Agreeing
<1>10. QED BY <1>5, <1>6, <1>7, <1>8, <1>9 DEF EventInv

LEMMA MarkKeeps ==
  ASSUME TypeOK, NEW e \in EventIds, EventInv(e), Mark(e)
  PROVE  EventInv(e)'
<1>1. attempt[e] = "posted" /\ attempt'[e] = "marked" /\ task[e].state = "active"
  BY DEF Mark, TypeOK, EventInv, Attempting
<1>2. UNCHANGED <<task, answer, log, faults>>
  BY DEF Mark
<1>3. CASE status[e] = "removed"
  <2>1. UNCHANGED <<status, deliveredAt, lastError>>
    BY <1>3 DEF Mark, rowVars
  <2>2. QED BY <1>1, <1>2, <1>3, <2>1, EventType
            DEF EventInv, Attempting, Answered, Honest, Thrifty, Used, Silent, Agreeing
<1>4. CASE status[e] # "removed"
  <2>1. /\ status'[e] = IF answer[e] = "accepted" THEN "delivered" ELSE "failed"
        /\ deliveredAt'[e] = (answer[e] = "accepted" \/ deliveredAt[e])
        /\ lastError'[e] = (answer[e] # "accepted")
    BY <1>4 DEF Mark, TypeOK
  <2>2. Attempting(e)' /\ Answered(e)' /\ Thrifty(e)' /\ Silent(e)'
    BY <1>1, <1>2, <1>4, <2>1, EventType DEF EventInv, Attempting, Answered, Thrifty, Used, Silent
  <2>3. Honest(e)'
    BY <1>2, <2>1 DEF EventInv, Answered, Honest
  <2>4. Agreeing(e)'
    BY <1>1, <1>2, <2>1 DEF Agreeing
  <2>5. QED BY <2>2, <2>3, <2>4 DEF EventInv
<1>5. QED BY <1>3, <1>4

\* The end of an attempt, or of a task whose event is gone.  What it leaves of
\* Agreeing depends on why the attempt ended.
LEMMA EndKeeps ==
  ASSUME TypeOK, NEW e \in EventIds, EventInv(e), UNCHANGED <<rowVars, log>>,
         task[e].state \in {"queued", "active"},
         attempt'[e] = "idle", answer'[e] = "none", Agreeing(e)',
         \/ task'[e].state = "queued" /\ task'[e].retried = task[e].retried + 1
         \/ task'[e].state \in {"done", "archived"} /\ task'[e].retried = task[e].retried
  PROVE  EventInv(e)'
<1>1. UNCHANGED <<status, deliveredAt, lastError, log>>
  BY DEF rowVars
<1>2. Attempting(e)' /\ Answered(e)' /\ Honest(e)' /\ Silent(e)'
  BY <1>1 DEF EventInv, Attempting, Answered, Honest, Silent
<1>3. Thrifty(e)'
  BY <1>1, EventType DEF EventInv, Thrifty, Used
<1>4. QED BY <1>2, <1>3 DEF EventInv

LEMMA FaultyKeeps ==
  ASSUME TypeOK, NEW e \in EventIds, EventInv(e), Faulty(e)
  PROVE  EventInv(e)'
<1>1. Agreeing(e)'
  <2>1. Fault
    BY DEF Faulty, LoadFails, MarkFails, Crash, PutBack
  <2>2. QED BY <2>1, FaultCounted DEF Agreeing
<1>2. CASE LoadFails(e) \/ Crash(e)
  <2>1. /\ task[e].state \in {"queued", "active"} /\ Retry(e) /\ UNCHANGED <<rowVars, log>>
    BY <1>2 DEF LoadFails, Crash
  <2>2. QED BY <1>1, <2>1, RetryEffect, EndKeeps
<1>3. CASE MarkFails(e)
  <2>1. /\ attempt[e] = "posted" /\ task[e].state = "active" /\ UNCHANGED <<rowVars, log>>
    BY <1>3 DEF MarkFails, EventInv, Attempting
  <2>2. CASE Retry(e)
    BY <1>1, <2>1, <2>2, RetryEffect, EndKeeps
  <2>3. CASE attempt' = [attempt EXCEPT ![e] = "marked"] /\ UNCHANGED <<task, answer>>
    <3>1. attempt'[e] = "marked"
      BY <2>3 DEF TypeOK
    <3>2. UNCHANGED <<status, deliveredAt, lastError, task, answer, log>>
      BY <2>1, <2>3 DEF rowVars
    <3>3. QED BY <1>1, <2>1, <3>1, <3>2, EventType
              DEF EventInv, Attempting, Answered, Honest, Thrifty, Used, Silent
  <2>4. QED BY <1>3, <2>2, <2>3 DEF MarkFails
<1>4. CASE PutBack(e)
  <2>1. /\ task[e].state = "active" /\ task'[e] = [state |-> "queued", retried |-> task[e].retried]
        /\ attempt'[e] = "idle" /\ answer'[e] = "none"
    BY <1>4 DEF PutBack, Finish, TypeOK
  <2>2. /\ log'[e].posts = log[e].posts /\ log'[e].late = log[e].late
        /\ log'[e].taken = log[e].taken /\ log'[e].putBack = log[e].putBack + 1
    BY <1>4 DEF PutBack, TypeOK
  <2>3. UNCHANGED <<status, deliveredAt, lastError>>
    BY <1>4 DEF PutBack, rowVars
  <2>4. Attempting(e)' /\ Answered(e)' /\ Honest(e)' /\ Silent(e)'
    BY <2>1, <2>2, <2>3 DEF EventInv, Attempting, Answered, Honest, Silent
  <2>5. Thrifty(e)'
    BY <2>1, <2>2, EventType DEF EventInv, Thrifty, Used
  <2>6. QED BY <1>1, <2>4, <2>5 DEF EventInv
<1>5. QED BY <1>2, <1>3, <1>4 DEF Faulty

LEMMA SettleKeeps ==
  ASSUME TypeOK, NEW e \in EventIds, EventInv(e), DropRemoved(e) \/ Settle(e)
  PROVE  EventInv(e)'
<1>1. CASE DropRemoved(e)
  <2>1. /\ task[e].state = "queued" /\ status[e] = "removed" /\ UNCHANGED <<rowVars, log>>
        /\ task'[e] = [state |-> "done", retried |-> task[e].retried]
        /\ attempt'[e] = "idle" /\ answer'[e] = "none"
    BY <1>1 DEF DropRemoved, Finish, TypeOK
  <2>2. Agreeing(e)'
    BY <2>1 DEF Agreeing, rowVars
  <2>3. QED BY <2>1, <2>2, EndKeeps
<1>2. CASE Settle(e)
  <2>1. /\ attempt[e] = "marked" /\ task[e].state = "active"
        /\ UNCHANGED <<rowVars, log, faults>> /\ status' = status
    BY <1>2 DEF Settle, EventInv, Attempting, rowVars
  <2>2. CASE answer[e] = "accepted"
    <3>1. Finish(e, "done", task[e].retried)
      BY <1>2, <2>2 DEF Settle, Verdict
    <3>2. /\ task'[e] = [state |-> "done", retried |-> task[e].retried]
          /\ attempt'[e] = "idle" /\ answer'[e] = "none"
      BY <3>1, FinishEffect
    <3>3. Agreeing(e)'
      BY <2>1, <2>2, <3>2 DEF EventInv, Agreeing
    <3>4. QED BY <2>1, <3>2, <3>3, EndKeeps
  <2>3. CASE answer[e] # "accepted"
    <3>1. Finish(e, "archived", task[e].retried) \/ Retry(e)
      BY <1>2, <2>3 DEF Settle, Verdict
    <3>2. /\ attempt'[e] = "idle" /\ answer'[e] = "none"
          /\ \/ task'[e].state = "queued" /\ task'[e].retried = task[e].retried + 1
             \/ task'[e].state = "archived" /\ task'[e].retried = task[e].retried
      <4>1. CASE Retry(e)
        BY <4>1, RetryEffect
      <4>2. CASE Finish(e, "archived", task[e].retried)
        BY <4>2 DEF Finish, TypeOK
      <4>3. QED BY <3>1, <4>1, <4>2
    <3>3. Agreeing(e)'
      BY <2>1, <2>3, <3>2 DEF EventInv, Agreeing
    <3>4. QED BY <2>1, <3>2, <3>3, EndKeeps
  <2>4. QED BY <2>2, <2>3
<1>3. QED BY <1>1, <1>2

LEMMA RemoveKeeps ==
  ASSUME TypeOK, NEW E \in SUBSET EventIds, Remove(E), NEW e \in EventIds, EventInv(e)
  PROVE  EventInv(e)'
<1>1. UNCHANGED <<deliveredAt, lastError, task, attempt, answer, log, faults>>
  BY DEF Remove
<1>2. status'[e] = status[e] \/ (status'[e] = "removed" /\ status[e] \in Stored)
  BY DEF Remove
<1>3. QED BY <1>1, <1>2
          DEF EventInv, Attempting, Answered, Honest, Thrifty, Used, Silent, Agreeing, Stored

LEMMA InvNext == TypeOK /\ Inv /\ [Next]_vars => Inv'
<1> SUFFICES ASSUME TypeOK, Inv, [Next]_vars, NEW d \in EventIds PROVE EventInv(d)'
  BY DEF Inv
<1>1. ASSUME NEW e \in EventIds, Create(e) \/ Submit(e) \/ Worker(e) PROVE EventInv(d)'
  <2>1. EventInv(e)'
    <3>1. EventInv(e)
      BY DEF Inv
    <3>2. QED BY <1>1, <3>1, CreateKeeps, LoadKeeps, PostKeeps, MarkKeeps, SettleKeeps, FaultyKeeps
              DEF Worker, Work
  <2>2. CASE d # e
    <3>1. Same(d)
      BY <1>1, <2>2, Elsewhere
    <3>2. faults' = faults \/ Fault
      BY <1>1 DEF Create, Submit, Worker, Work, Faulty, DropRemoved, Load, Post, Mark, Settle,
         LoadFails, MarkFails, Crash, PutBack
    <3>3. faults' = 0 => faults = 0
      BY <3>2, FaultCounted
    <3>4. QED BY <3>1, <3>3, SameKeeps DEF Inv
  <2>3. QED BY <2>1, <2>2
<1>2. ASSUME NEW E \in SUBSET EventIds, Remove(E) PROVE EventInv(d)'
  BY <1>2, RemoveKeeps DEF Inv
<1>3. CASE UNCHANGED vars
  <2>1. Same(d) /\ faults' = faults
    BY <1>3 DEF vars, Same
  <2>2. QED BY <2>1, SameKeeps DEF Inv
<1>4. QED BY <1>1, <1>2, <1>3 DEF Next

LEMMA Invariance == Spec => []Inv
  BY TypeCorrect, InvInit, InvNext, PTL DEF Spec

\* A status of delivered, and a time of delivery, are true of the destination.
THEOREM DeliveredIsTrue == Spec => []DeliveredWasTaken
<1>1. Inv => DeliveredWasTaken
  BY DEF Inv, EventInv, Honest, DeliveredWasTaken
<1>2. QED BY <1>1, Invariance, PTL

\* The calls a destination gets are bounded by the attempts asynq grants.
THEOREM CallsWithinBudget == Spec => []CallBudget
<1>1. TypeOK /\ Inv => CallBudget
  <2> SUFFICES ASSUME TypeOK, Inv, NEW e \in EventIds
               PROVE  log[e].posts <= task[e].retried + log[e].putBack + 1
    BY DEF CallBudget
  <2>1. Thrifty(e) /\ Used(e) \in {0, 1}
    BY DEF Inv, EventInv, Used
  <2>2. QED BY <2>1, EventType DEF Thrifty
<1>2. QED BY <1>1, TypeCorrect, Invariance, PTL

\* A deleted rule falls silent after the one call in preparation.
THEOREM RemovedFallsSilent == Spec => []SilentAfterRemoval
<1>1. Inv => SilentAfterRemoval
  BY DEF Inv, EventInv, Silent, SilentAfterRemoval
<1>2. QED BY <1>1, Invariance, PTL

\* Without failures, what the history shows is what came of the task.
THEOREM StatusIsTrue == Spec => []StatusTellsOutcome
<1>1. Inv => StatusTellsOutcome
  BY DEF Inv, EventInv, Agreeing, StatusTellsOutcome
<1>2. QED BY <1>1, Invariance, PTL

-----------------------------------------------------------------------------
(* Every step is a step of AlertDelivery, or one it does not see.           *)

\* The phase and the history, when only one event's may have changed.
LEMMA PhaseStep ==
  ASSUME NEW e \in EventIds, \A d \in EventIds \ {e} : attempt'[d] = attempt[d]
  PROVE  Phase' = [Phase EXCEPT ![e] = PhaseOf(attempt'[e])]
  BY DEF Phase

LEMMA TakenSame ==
  ASSUME \A d \in EventIds : log'[d].taken = log[d].taken
  PROVE  Taken' = Taken
  BY DEF Taken

\* An attempt that stops before it reported comes to nothing.
LEMMA StopRefines ==
  ASSUME TypeOK, NEW e \in EventIds, UNCHANGED status, Taken' = Taken,
         attempt'[e] \in {"idle", "marked"},
         \A d \in EventIds \ {e} : attempt'[d] = attempt[d]
  PROVE  Delivery!Lose(e) \/ UNCHANGED Delivery!vars
<1>1. Phase' = [Phase EXCEPT ![e] = "idle"]
  BY PhaseStep DEF PhaseOf
<1>2. CASE Phase[e] # "idle"
  BY <1>1, <1>2 DEF Delivery!Lose
<1>3. CASE Phase[e] = "idle"
  <2>1. Phase' = Phase
    BY <1>1, <1>3 DEF Phase
  <2>2. QED BY <2>1 DEF Delivery!vars
<1>4. QED BY <1>2, <1>3

LEMMA InitRefines == Init => Delivery!Init
  BY DEF Init, Delivery!Init, Phase, PhaseOf, Taken

LEMMA StepRefines == TypeOK /\ Inv /\ [Next]_vars => [Delivery!Next]_Delivery!vars
<1> SUFFICES ASSUME TypeOK, Inv, [Next]_vars PROVE Delivery!Next \/ UNCHANGED Delivery!vars
  OBVIOUS
<1>1. ASSUME NEW e \in EventIds, Create(e) PROVE Delivery!Next
  <2>1. Phase' = Phase /\ Taken' = Taken
    BY <1>1 DEF Create, Phase, Taken
  <2>2. Delivery!Fire(e)
    BY <1>1, <2>1 DEF Create, Delivery!Fire
  <2>3. QED BY <2>2 DEF Delivery!Next
<1>2. ASSUME NEW e \in EventIds, Submit(e) PROVE UNCHANGED Delivery!vars
  BY <1>2 DEF Submit, Phase, Taken, Delivery!vars, rowVars
<1>3. ASSUME NEW e \in EventIds, Load(e) PROVE Delivery!Next
  <2>1. attempt[e] = "idle"
    BY <1>3 DEF Load, Inv, EventInv, Attempting
  <2>2. Phase' = [Phase EXCEPT ![e] = "open"] /\ Phase[e] = "idle"
    BY <1>3, <2>1, PhaseStep DEF Load, TypeOK, Phase, PhaseOf
  <2>3. Taken' = Taken /\ status' = status
    BY <1>3 DEF Load, Taken, rowVars
  <2>4. Delivery!Begin(e)
    BY <1>3, <2>2, <2>3 DEF Load, Delivery!Begin, Stored, Delivery!Shown
  <2>5. QED BY <2>4 DEF Delivery!Next
<1>4. ASSUME NEW e \in EventIds, NEW a \in Answers, Post(e, a) PROVE Delivery!Next
  <2>1. Phase' = [Phase EXCEPT ![e] = "ended"] /\ Phase[e] = "open"
    BY <1>4, PhaseStep DEF Post, TypeOK, Phase, PhaseOf
  <2>2. PICK n \in {0, 1} : log'[e].taken = log[e].taken + n
    <3>1. log'[e].taken \in {log[e].taken, log[e].taken + 1}
      BY <1>4, PostLog
    <3>2. QED BY <3>1, EventType
  <2>3. Taken' = [Taken EXCEPT ![e] = @ + n]
    BY <1>4, <2>2, PostLog DEF Taken
  <2>4. Delivery!End(e)
    BY <1>4, <2>1, <2>3 DEF Post, Delivery!End, rowVars
  <2>5. QED BY <2>4 DEF Delivery!Next
<1>5. ASSUME NEW e \in EventIds, Mark(e) PROVE Delivery!Next
  <2> DEFINE shown == IF answer[e] = "accepted" THEN "delivered" ELSE "failed"
  <2>1. Phase' = [Phase EXCEPT ![e] = "idle"] /\ Phase[e] = "ended"
    BY <1>5, PhaseStep DEF Mark, TypeOK, Phase, PhaseOf
  <2>2. Taken' = Taken
    BY <1>5 DEF Mark, Taken
  <2>3. shown = "delivered" => Taken[e] > 0
    BY DEF Inv, EventInv, Answered, Taken
  <2>4. status[e] \in Stored \cup {"removed"}
    BY <1>5 DEF Mark, Inv, EventInv, Attempting, TypeOK
  <2>5. status' = IF status[e] \in Delivery!Shown THEN [status EXCEPT ![e] = shown] ELSE status
    BY <1>5, <2>4 DEF Mark, Stored, Delivery!Shown, rowVars
  <2>6. Delivery!Report(e, shown)
    BY <2>1, <2>2, <2>3, <2>5 DEF Delivery!Report
  <2>7. QED BY <2>6 DEF Delivery!Next
<1>6. ASSUME NEW e \in EventIds,
             DropRemoved(e) \/ Settle(e) \/ LoadFails(e) \/ MarkFails(e) \/ Crash(e) \/ PutBack(e)
      PROVE  Delivery!Next \/ UNCHANGED Delivery!vars
  <2>1. \A d \in EventIds \ {e} : attempt'[d] = attempt[d]
    <3>1. Worker(e)
      BY <1>6 DEF Worker, Work, Faulty
    <3>2. QED BY <3>1, Elsewhere DEF Same
  <2>2. attempt'[e] \in {"idle", "marked"}
    BY <1>6 DEF DropRemoved, Settle, LoadFails, MarkFails, Crash, PutBack, Retry, Finish, TypeOK
  <2>3. Taken' = Taken
    <3>1. CASE PutBack(e)
      <4>1. \A d \in EventIds : log'[d].taken = log[d].taken
        BY <3>1 DEF PutBack, TypeOK
      <4>2. QED BY <4>1, TakenSame
    <3>2. CASE ~PutBack(e)
      BY <1>6, <3>2 DEF DropRemoved, Settle, LoadFails, MarkFails, Crash, Taken
    <3>3. QED BY <3>1, <3>2
  <2>4. status' = status
    BY <1>6 DEF DropRemoved, Settle, LoadFails, MarkFails, Crash, PutBack, rowVars
  <2>5. Delivery!Lose(e) \/ UNCHANGED Delivery!vars
    BY <2>1, <2>2, <2>3, <2>4, StopRefines
  <2>6. QED BY <2>5 DEF Delivery!Next
<1>7. ASSUME NEW E \in SUBSET EventIds, Remove(E) PROVE Delivery!Next
  <2>1. Phase' = Phase /\ Taken' = Taken
    BY <1>7 DEF Remove, Phase, Taken
  <2>2. Delivery!Withdraw(E)
    BY <1>7, <2>1 DEF Remove, Delivery!Withdraw, Stored, Delivery!Shown
  <2>3. QED BY <2>2 DEF Delivery!Next
<1>8. CASE UNCHANGED vars
  BY <1>8 DEF vars, Phase, Taken, Delivery!vars
<1>9. QED BY <1>1, <1>2, <1>3, <1>4, <1>5, <1>6, <1>7, <1>8 DEF Next, Worker, Work, Faulty

\* HandleDispatchAlert under asynq delivers as AlertDelivery promises.
THEOREM Implementation == Spec => ImplementsDelivery
<1>1. Spec => Delivery!Init /\ [][Delivery!Next]_Delivery!vars
  BY TypeCorrect, Invariance, InitRefines, StepRefines, PTL DEF Spec
<1>2. QED BY <1>1 DEF ImplementsDelivery, Delivery!Spec
=============================================================================
