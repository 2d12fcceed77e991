------------------------ MODULE AlertPipeline_proofs ------------------------
(***************************************************************************)
(* Proofs about AlertDetection, for every set of projects, rules and jobs  *)
(* and every value of the bounds, and on top of them about AlertPipeline:  *)
(* detection and delivery keep their promises when they share the queue,   *)
(* the workers and the table alert_event.                                  *)
(***************************************************************************)
EXTENDS AlertPipeline, FiniteSetTheorems, WellFoundedInduction, TLAPS

(***************************************************************************)
(*                     Part 1.  Detection by itself                         *)
(***************************************************************************)
-----------------------------------------------------------------------------
(* Facts about the operators the actions are built from.                    *)

\* A non-empty set of naturals up to n has a greatest element: what LatestRow
\* chooses exists.
LEMMA GreatestExists ==
  ASSUME NEW n \in Nat, NEW S \in SUBSET (0..n), S # {}
  PROVE  \E i \in S : \A k \in S : k <= i
<1> DEFINE T == {n - i : i \in S}
<1>1. \A i \in S : n - i \in Nat
  OBVIOUS
<1>2. T \in SUBSET Nat /\ T # {}
  BY <1>1
<1>3. \E x \in T : \A y \in T : <<y, x>> \notin OpToRel(<, Nat)
  <2> HIDE DEF T
  <2>1. QED BY <1>2, NatLessThanWellFounded, WFMin
<1>4. PICK x \in T : \A y \in T : <<y, x>> \notin OpToRel(<, Nat)
  BY <1>3
<1>5. \A y \in T : ~ (y < x)
  BY <1>2, <1>4 DEF OpToRel
<1>6. PICK i \in S : x = n - i
  OBVIOUS
<1>7. ASSUME NEW k \in S PROVE k <= i
  <2>1. n - k \in T
    OBVIOUS
  <2>2. ~ (n - k < n - i)
    BY <1>5, <1>6, <2>1
  <2>3. i \in Int /\ k \in Int
    OBVIOUS
  <2>4. QED BY <2>2, <2>3
<1>8. QED BY <1>7

\* LatestRow is 0 or one of the first n rows of the scope, and the newest.
LEMMA LatestRowIsNewest ==
  ASSUME NEW p \in Projects, NEW w \in Windows, NEW n \in Nat
  PROVE  LET l == LatestRow(p, w, n)
             of == {i \in 1..n : rows[i].project = p /\ rows[i].window = w}
         IN  /\ l \in 0..n
             /\ l = 0 => of = {}
             /\ l # 0 => l \in of /\ \A k \in of : k <= l
<1> DEFINE of == {i \in 1..n : rows[i].project = p /\ rows[i].window = w}
           l == CHOOSE i \in of : \A k \in of : k <= i
<1>1. CASE of = {}
  BY <1>1 DEF LatestRow
<1>2. CASE of # {}
  <2>1. \E i \in of : \A k \in of : k <= i
    <3>1. of \in SUBSET (0..n)
      OBVIOUS
    <3> HIDE DEF of
    <3>2. QED BY <1>2, <3>1, GreatestExists
  <2>2. l \in of /\ \A k \in of : k <= l
    <3> HIDE DEF of
    <3>1. QED BY <2>1
  <2>3. LatestRow(p, w, n) = l
    BY <1>2 DEF LatestRow
  <2>4. l \in 1..n
    BY <2>2
  <2> HIDE DEF l
  <2>5. QED BY <2>2, <2>3, <2>4
<1>3. QED BY <1>1, <1>2

\* What an attempt leaves of its locals when it ends.
LEMMA ForgetType ==
  ASSUME NEW j \in Jobs, NEW pc \in Pending \cup Running, NEW n \in 0..MaxRetry,
         jobs \in [Jobs -> JobRec], Forget(j, pc, n)
  PROVE  jobs' \in [Jobs -> JobRec]
  BY DEF Forget, JobRec

LEMMA SucceedType ==
  ASSUME NEW j \in Jobs, jobs \in [Jobs -> JobRec], Succeed(j)
  PROVE  jobs' \in [Jobs -> JobRec]
<1>1. jobs[j].retried \in 0..MaxRetry /\ "done" \in Pending \cup Running
  BY DEF JobRec, Pending
<1>2. QED BY <1>1, ForgetType DEF Succeed

LEMMA GiveBackType ==
  ASSUME NEW j \in Jobs, jobs \in [Jobs -> JobRec], GiveBack(j)
  PROVE  jobs' \in [Jobs -> JobRec]
<1>1. jobs[j].retried \in 0..MaxRetry /\ {"queued", "archived"} \subseteq Pending \cup Running
  BY DEF JobRec, Pending
<1>2. jobs[j].retried < MaxRetry => jobs[j].retried + 1 \in 0..MaxRetry
  BY <1>1, DetectionAssumption
<1>3. QED BY <1>1, <1>2, ForgetType DEF GiveBack

LEMMA ContinueType ==
  ASSUME NEW j \in Jobs, NEW todo \in SUBSET Matches, jobs \in [Jobs -> JobRec],
         Continue(j, todo)
  PROVE  jobs' \in [Jobs -> JobRec]
<1>1. CASE todo = {}
  BY <1>1, SucceedType DEF Continue
<1>2. CASE todo # {}
  BY <1>2 DEF Continue, JobRec, Running
<1>3. QED BY <1>1, <1>2

-----------------------------------------------------------------------------
(* Type correctness.                                                        *)

LEMMA InitType == Init => TypeOK
<1> SUFFICES ASSUME Init PROVE TypeOK
  OBVIOUS
<1>1. rules \in [RuleIds -> RuleRec \cup {NoRule}]
  BY DetectionAssumption DEF Init
<1>2. jobs \in [Jobs -> JobRec]
  BY DetectionAssumption DEF Init, JobRec, Pending
<1>3. rows \in Seq(Rows)
  BY DEF Init
<1>4. QED BY <1>1, <1>2, <1>3, DetectionAssumption DEF Init, TypeOK

\* The row GetLatestMetricWindow returns has the types of its columns.
LEMMA ReadType ==
  ASSUME TypeOK, NEW j \in Jobs, ReadPrevious(j)
  PROVE  jobs' \in [Jobs -> JobRec]
<1> DEFINE i == LatestRow(jobs[j].project, jobs[j].window, Len(rows))
           previous == IF i = 0 THEN NoTier ELSE rows[i].tier
<1>1. jobs[j].project \in Projects /\ jobs[j].window \in Windows /\ Len(rows) \in Nat
  BY DEF TypeOK, JobRec
<1>2. i \in 0..Len(rows)
  BY <1>1, LatestRowIsNewest
<1>3. previous \in Tier \cup {NoTier}
  <2> HIDE DEF i
  <2>1. CASE i = 0
    BY <2>1
  <2>2. CASE i # 0
    <3>1. rows[i] \in Rows
      BY <1>1, <1>2, <2>2 DEF TypeOK
    <3>2. QED BY <2>2, <3>1 DEF Rows
  <2>3. QED BY <2>1, <2>2
<1>4. i \in Nat /\ jobs \in [Jobs -> JobRec] /\ "read" \in Running
  BY <1>2 DEF TypeOK, Running
<1>5. jobs' = [jobs EXCEPT ![j].pc = "read", ![j].basis = i, ![j].prev = previous]
  BY DEF ReadPrevious
<1> HIDE DEF i, previous
<1> DEFINE locals == [jobs[j] EXCEPT !.pc = "read", !.basis = i, !.prev = previous]
<1>6. locals \in JobRec
  BY <1>3, <1>4 DEF JobRec
<1>7. jobs' = [jobs EXCEPT ![j] = locals]
  BY <1>5
<1> HIDE DEF locals
<1>8. QED BY <1>4, <1>6, <1>7

LEMMA RecordType ==
  ASSUME TypeOK, NEW j \in Jobs, NEW tier \in Outcomes, RecordWindow(j, tier)
  PROVE  jobs' \in [Jobs -> JobRec] /\ rows' \in Seq(Rows)
<1>1. tier \in Tier
  BY DetectionAssumption
<1>2. jobs[j] \in JobRec /\ jobs \in [Jobs -> JobRec] /\ rows \in Seq(Rows)
  BY DEF TypeOK
<1>3. rows' \in Seq(Rows)
  BY <1>1, <1>2 DEF RecordWindow, JobRec, Rows
<1>4. ASSUME IsChange(jobs[j].prev, tier) PROVE jobs' \in [Jobs -> JobRec]
  <2>1. jobs' = [jobs EXCEPT ![j].pc = "matching", ![j].row = Len(rows) + 1]
    BY <1>4 DEF RecordWindow
  <2>2. Len(rows) + 1 \in Nat
    BY <1>2
  <2>3. QED BY <1>2, <2>1, <2>2 DEF JobRec, Running
<1>5. ASSUME ~ IsChange(jobs[j].prev, tier) PROVE jobs' \in [Jobs -> JobRec]
  BY <1>2, <1>5, SucceedType DEF RecordWindow
<1>6. QED BY <1>3, <1>4, <1>5

\* The matches found are records of the loop's type.
LEMMA MatchType ==
  ASSUME TypeOK, NEW j \in Jobs, MatchRules(j)
  PROVE  jobs' \in [Jobs -> JobRec]
<1> DEFINE found == Matching(jobs[j].project, jobs[j].window, jobs[j].prev,
                             rows[jobs[j].row].tier)
           todo == {[rule |-> r, kind |-> rules[r].kind] : r \in found}
<1>1. \A r \in found : r \in RuleIds /\ rules[r] \in RuleRec
  BY DEF Matching, TypeOK
<1>2. todo \in SUBSET Matches
  <2> HIDE DEF found
  <2>1. QED BY <1>1 DEF Matches, RuleRec
<1>3. Continue(j, todo) /\ jobs \in [Jobs -> JobRec]
  BY DEF MatchRules, TypeOK
<1> HIDE DEF todo
<1>4. QED BY <1>2, <1>3, ContinueType

LEMMA InsertType ==
  ASSUME TypeOK, NEW j \in Jobs, NEW m \in jobs[j].todo, InsertEvent(j, m)
  PROVE  /\ jobs' \in [Jobs -> JobRec]
         /\ events' \subseteq Events
         /\ nextEvent' \in Nat \ {0}
<1>1. /\ jobs[j] \in JobRec /\ jobs \in [Jobs -> JobRec]
      /\ m \in Matches /\ nextEvent \in Nat \ {0}
  BY DEF TypeOK, JobRec
<1>2. jobs' \in [Jobs -> JobRec]
  <2>1. jobs' = [jobs EXCEPT ![j].pc = "enqueueing", ![j].event = nextEvent,
                             ![j].todo = @ \ {m}]
    BY DEF InsertEvent
  <2>2. QED BY <1>1, <2>1 DEF JobRec, Running
<1>3. jobs[j].prev \in Tier \cup {NoTier}
  BY <1>1 DEF InsertEvent, TypeOK, JobRec
<1>4. QED BY <1>1, <1>2, <1>3 DEF InsertEvent, TypeOK, JobRec, Events, Matches

LEMMA FaultType ==
  ASSUME TypeOK, Fault
  PROVE  faults' \in 0..MaxFaults
  BY DetectionAssumption DEF TypeOK, Fault

LEMMA RuleOpType ==
  ASSUME TypeOK, RuleOp
  PROVE  ruleOps' \in 0..MaxRuleOps
  BY DetectionAssumption DEF TypeOK, RuleOp

\* What the worker does for a task keeps the types.
LEMMA WorkType ==
  ASSUME TypeOK, NEW j \in Jobs, Work(j)
  PROVE  TypeOK'
<1> jobs \in [Jobs -> JobRec] /\ jobs[j] \in JobRec
  BY DEF TypeOK
<1>1. CASE SkipMissingProject(j)
  BY <1>1, SucceedType DEF SkipMissingProject, TypeOK, ruleVars
<1>2. CASE ReadPrevious(j)
  BY <1>2, ReadType DEF ReadPrevious, TypeOK, ruleVars
<1>3. ASSUME NEW tier \in Outcomes, RecordWindow(j, tier) PROVE TypeOK'
  BY <1>3, RecordType DEF RecordWindow, TypeOK, ruleVars
<1>4. CASE MatchRules(j)
  BY <1>4, MatchType DEF MatchRules, TypeOK, ruleVars
<1>5. ASSUME NEW m \in jobs[j].todo, InsertEvent(j, m) PROVE TypeOK'
  BY <1>5, InsertType DEF InsertEvent, TypeOK, ruleVars
<1>6. ASSUME NEW m \in jobs[j].todo, InsertEventFails(j, m) PROVE TypeOK'
  <2>1. jobs[j].todo \ {m} \in SUBSET Matches
    BY DEF JobRec
  <2>2. jobs' \in [Jobs -> JobRec]
    BY <1>6, <2>1, ContinueType DEF InsertEventFails
  <2>3. faults' \in 0..MaxFaults
    BY <1>6, FaultType DEF InsertEventFails, TypeOK
  <2>4. QED BY <1>6, <2>2, <2>3 DEF InsertEventFails, TypeOK, ruleVars
<1>7. CASE EnqueueDispatch(j)
  <2>1. jobs[j].todo \in SUBSET Matches /\ jobs[j].event \in Nat
    BY DEF JobRec
  <2>2. jobs' \in [Jobs -> JobRec]
    BY <1>7, <2>1, ContinueType DEF EnqueueDispatch
  <2>3. QED BY <1>7, <2>1, <2>2 DEF EnqueueDispatch, TypeOK, ruleVars
<1>8. QED BY <1>1, <1>2, <1>3, <1>4, <1>5, <1>6, <1>7 DEF Work

\* So do crashes and failed calls.
LEMMA FaultyType ==
  ASSUME TypeOK, NEW j \in Jobs, Faulty(j)
  PROVE  TypeOK'
<1> jobs \in [Jobs -> JobRec] /\ jobs[j] \in JobRec
  BY DEF TypeOK
<1>1. CASE CrashCompute(j)
  BY <1>1, GiveBackType, FaultType DEF CrashCompute, TypeOK, ruleVars
<1>2. CASE MissPrevious(j)
  <2>1. jobs' \in [Jobs -> JobRec]
    BY <1>2 DEF MissPrevious, JobRec, Running
  <2>2. QED BY <1>2, <2>1, FaultType DEF MissPrevious, TypeOK, ruleVars
<1>3. CASE ComputeFails(j)
  BY <1>3, GiveBackType, FaultType DEF ComputeFails, TypeOK, ruleVars
<1>4. CASE MatchRulesFails(j)
  BY <1>4, SucceedType, FaultType DEF MatchRulesFails, TypeOK, ruleVars
<1>5. CASE EnqueueDispatchFails(j)
  <2>1. jobs[j].todo \in SUBSET Matches /\ jobs[j].event \in Nat
    BY DEF JobRec
  <2>2. jobs' \in [Jobs -> JobRec]
    BY <1>5, <2>1, ContinueType DEF EnqueueDispatchFails
  <2>3. dispatched' \subseteq Nat
    BY <1>5, <2>1 DEF EnqueueDispatchFails, TypeOK
  <2>4. QED BY <1>5, <2>2, <2>3, FaultType DEF EnqueueDispatchFails, TypeOK, ruleVars
<1>6. QED BY <1>1, <1>2, <1>3, <1>4, <1>5 DEF Faulty

LEMMA NextType == TypeOK /\ [Next]_vars => TypeOK'
<1> SUFFICES ASSUME TypeOK, [Next]_vars PROVE TypeOK'
  OBVIOUS
<1>1. ASSUME NEW j \in Jobs, EnqueueCompute(j) PROVE TypeOK'
  <2>1. jobs' \in [Jobs -> JobRec]
    BY <1>1 DEF EnqueueCompute, TypeOK, JobRec, Pending
  <2>2. QED BY <1>1, <2>1 DEF EnqueueCompute, TypeOK, ruleVars
<1>2. ASSUME NEW j \in Jobs, Work(j) \/ Faulty(j) PROVE TypeOK'
  BY <1>2, WorkType, FaultyType
<1>3. ASSUME NEW r \in RuleIds, NEW v \in RuleValues, CreateRule(r, v) \/ UpdateRule(r, v)
      PROVE  TypeOK'
  <2>1. v \in RuleRec
    BY DetectionAssumption
  <2>2. rules' \in [RuleIds -> RuleRec \cup {NoRule}] /\ ruleOps' \in 0..MaxRuleOps
    BY <1>3, <2>1, RuleOpType DEF CreateRule, UpdateRule, TypeOK
  <2>3. QED BY <1>3, <2>2 DEF CreateRule, UpdateRule, TypeOK
<1>4. ASSUME NEW r \in RuleIds, DeleteRule(r) PROVE TypeOK'
  BY <1>4, RuleOpType DEF DeleteRule, TypeOK
<1>5. ASSUME NEW p \in Projects, RemoveProject(p) PROVE TypeOK'
  BY <1>5, RuleOpType DEF RemoveProject, TypeOK
<1>6. CASE UNCHANGED vars
  BY <1>6 DEF vars, TypeOK
<1>7. QED BY <1>1, <1>2, <1>3, <1>4, <1>5, <1>6 DEF Next, Requests

\* Every variable keeps its type: the tables, the rules and the tasks' locals
\* hold what HandleComputeMetricWindow and the API put there, and the bounds of
\* the model are respected.
THEOREM TypeCorrect == Spec => []TypeOK
  BY InitType, NextType, PTL DEF Spec

-----------------------------------------------------------------------------
(***************************************************************************)
(* What an action does to the tasks.  Only the acting task's record        *)
(* changes, and an attempt that ends leaves no local behind.               *)
(***************************************************************************)

Kept(j) == \A k \in Jobs \ {j} : jobs'[k] = jobs[k]

Ended(j) ==
  /\ jobs'[j].pc \in Pending /\ jobs'[j].prev = NoTier /\ jobs'[j].basis = 0
  /\ jobs'[j].row = 0 /\ jobs'[j].todo = {} /\ jobs'[j].event = 0

SameTarget(j) ==
  jobs'[j].project = jobs[j].project /\ jobs'[j].window = jobs[j].window

\* The loop goes on: the reading and the row are what they were.
GoesOn(j, pc, todo) ==
  /\ jobs'[j].pc = pc /\ jobs'[j].todo = todo
  /\ jobs'[j].prev = jobs[j].prev /\ jobs'[j].basis = jobs[j].basis
  /\ jobs'[j].row = jobs[j].row

LEMMA ForgetEffect ==
  ASSUME NEW j \in Jobs, NEW pc \in Pending, NEW n \in Nat,
         jobs \in [Jobs -> JobRec], Forget(j, pc, n)
  PROVE  Kept(j) /\ Ended(j) /\ SameTarget(j)
<1> DEFINE locals == [jobs[j] EXCEPT !.pc = pc, !.prev = NoTier, !.basis = 0, !.row = 0,
                                     !.todo = {}, !.event = 0, !.retried = n]
<1>1. jobs' = [jobs EXCEPT ![j] = locals]
  BY DEF Forget
<1>2. /\ locals.pc = pc /\ locals.prev = NoTier /\ locals.basis = 0 /\ locals.row = 0
      /\ locals.todo = {} /\ locals.event = 0
      /\ locals.project = jobs[j].project /\ locals.window = jobs[j].window
  BY DEF JobRec
<1> HIDE DEF locals
<1>3. QED BY <1>1, <1>2 DEF Kept, Ended, SameTarget

LEMMA EndEffect ==
  ASSUME NEW j \in Jobs, jobs \in [Jobs -> JobRec], Succeed(j) \/ GiveBack(j)
  PROVE  Kept(j) /\ Ended(j) /\ SameTarget(j)
<1>1. jobs[j].retried \in 0..MaxRetry /\ {"done", "queued", "archived"} \subseteq Pending
  BY DEF JobRec, Pending
<1>2. jobs[j].retried \in Nat /\ jobs[j].retried + 1 \in Nat
  BY <1>1, DetectionAssumption
<1>3. QED BY <1>1, <1>2, ForgetEffect DEF Succeed, GiveBack

LEMMA ContinueEffect ==
  ASSUME NEW j \in Jobs, NEW todo, jobs \in [Jobs -> JobRec], Continue(j, todo)
  PROVE  /\ Kept(j) /\ SameTarget(j)
         /\ Ended(j) \/ GoesOn(j, "inserting", todo)
<1>1. CASE todo = {}
  BY <1>1, EndEffect DEF Continue
<1>2. CASE todo # {}
  <2>1. jobs' = [jobs EXCEPT ![j].pc = "inserting", ![j].todo = todo, ![j].event = 0]
    BY <1>2 DEF Continue
  <2>2. jobs[j] \in JobRec
    OBVIOUS
  <2>3. QED BY <2>1, <2>2 DEF Kept, GoesOn, SameTarget, JobRec
<1>3. QED BY <1>1, <1>2

-----------------------------------------------------------------------------
(***************************************************************************)
(* Every event is witnessed by two rows.  The invariant follows the pair   *)
(* of rows from the read of the previous tier, through the task's locals,  *)
(* to the event.                                                           *)
(***************************************************************************)

LinkedRow(i) ==
  rows[i].basis # 0 => rows[i].basis \in 1..(i - 1) /\ SameScope(rows[i].basis, i)

RowsLinked == \A i \in 1..Len(rows) : LinkedRow(i)

\* What the task read is a row of its scope.
LinkedBasis(j) ==
  IF jobs[j].basis = 0 THEN jobs[j].prev = NoTier
  ELSE LET b == jobs[j].basis IN
       /\ b \in 1..Len(rows)
       /\ rows[b].project = jobs[j].project /\ rows[b].window = jobs[j].window
       /\ rows[b].tier = jobs[j].prev

FanningOut == {"matching", "inserting", "enqueueing"}

\* What the task wrote follows what it read, and is a change.
LinkedWrite(j) ==
  IF jobs[j].row = 0 THEN jobs[j].pc \notin FanningOut /\ jobs[j].todo = {}
  ELSE LET i == jobs[j].row IN
       /\ jobs[j].pc \in FanningOut
       /\ i \in 1..Len(rows)
       /\ rows[i].project = jobs[j].project /\ rows[i].window = jobs[j].window
       /\ rows[i].basis = jobs[j].basis
       /\ IsChange(jobs[j].prev, rows[i].tier)
       /\ \A m \in jobs[j].todo : RuleMatchesChange(m.kind, jobs[j].prev, rows[i].tier)

Linked(j) == LinkedBasis(j) /\ LinkedWrite(j)

Witnessed(ev) ==
  /\ ev.row \in 1..Len(rows)
  /\ LET b == rows[ev.row].basis IN
     /\ b \in 1..(ev.row - 1)
     /\ SameScope(b, ev.row)
     /\ rows[b].tier = ev.prev
     /\ RuleMatchesChange(ev.kind, ev.prev, rows[ev.row].tier)

WitnessInv ==
  RowsLinked /\ (\A j \in Jobs : Linked(j)) /\ (\A ev \in events : Witnessed(ev))

\* metric_window only grows, at its end.
Grows ==
  /\ Len(rows') \in Nat /\ Len(rows) <= Len(rows')
  /\ \A i \in 1..Len(rows) : rows'[i] = rows[i]

LEMMA RowsGrow == ASSUME TypeOK, [Next]_vars PROVE Grows
<1>1. rows \in Seq(Rows)
  BY DEF TypeOK
<1>2. ASSUME NEW j \in Jobs, NEW tier, RecordWindow(j, tier) PROVE Grows
  BY <1>1, <1>2 DEF RecordWindow, Grows
<1>3. CASE UNCHANGED rows
  BY <1>1, <1>3 DEF Grows
<1>4. UNCHANGED rows \/ \E j \in Jobs, tier \in Outcomes : RecordWindow(j, tier)
  BY DEF Next, Requests, Work, Faulty, vars, EnqueueCompute, CrashCompute,
         SkipMissingProject, ReadPrevious, MissPrevious, ComputeFails, MatchRules,
         MatchRulesFails, InsertEvent, InsertEventFails, EnqueueDispatch,
         EnqueueDispatchFails, CreateRule, UpdateRule, DeleteRule, RemoveProject
<1>5. QED BY <1>2, <1>3, <1>4

\* Growing disturbs neither an event nor a task that does not move.
LEMMA GrowKeeps ==
  ASSUME TypeOK, Grows
  PROVE  /\ \A ev \in events : Witnessed(ev) => Witnessed(ev)'
         /\ \A k \in Jobs : Linked(k) /\ jobs'[k] = jobs[k] => Linked(k)'
         /\ \A i \in 1..Len(rows) : LinkedRow(i) => LinkedRow(i)'
<1>0. Len(rows) \in Nat
  BY DEF TypeOK
<1>1. ASSUME NEW ev \in events, Witnessed(ev) PROVE Witnessed(ev)'
  <2>1. ev.row \in 1..Len(rows) /\ ev.row \in 1..Len(rows') /\ rows'[ev.row] = rows[ev.row]
    BY <1>0, <1>1 DEF Witnessed, Grows
  <2> DEFINE b == rows[ev.row].basis
  <2>2. b \in 1..Len(rows) /\ rows'[b] = rows[b] /\ b \in 1..(ev.row - 1)
    BY <1>0, <1>1, <2>1 DEF Witnessed, Grows
  <2>3. QED BY <1>1, <2>1, <2>2 DEF Witnessed, SameScope
<1>2. ASSUME NEW k \in Jobs, Linked(k), jobs'[k] = jobs[k] PROVE Linked(k)'
  <2>1. LinkedBasis(k)'
    BY <1>0, <1>2 DEF Linked, LinkedBasis, Grows
  <2>2. LinkedWrite(k)'
    BY <1>0, <1>2 DEF Linked, LinkedWrite, Grows
  <2>3. QED BY <2>1, <2>2 DEF Linked
<1>3. ASSUME NEW i \in 1..Len(rows), LinkedRow(i) PROVE LinkedRow(i)'
  BY <1>0, <1>3 DEF LinkedRow, SameScope, Grows
<1>4. QED BY <1>1, <1>2, <1>3

\* A task whose attempt ended is linked to nothing.
LEMMA EndedLinked ==
  ASSUME NEW j \in Jobs, Ended(j)
  PROVE  Linked(j)'
  BY DEF Ended, Linked, LinkedBasis, LinkedWrite, FanningOut, Pending

\* A step of task j that adds neither row nor event needs care for j only.
LEMMA QuietStep ==
  ASSUME TypeOK, WitnessInv, NEW j \in Jobs, Kept(j), Linked(j)',
         UNCHANGED rows, events' \subseteq events
  PROVE  WitnessInv'
<1>1. Grows
  BY DEF TypeOK, Grows
<1>2. \A k \in Jobs : Linked(k)'
  BY <1>1, GrowKeeps DEF WitnessInv, Kept
<1>3. \A ev \in events' : Witnessed(ev)'
  BY <1>1, GrowKeeps DEF WitnessInv
<1>4. RowsLinked'
  BY DEF WitnessInv, RowsLinked, LinkedRow, SameScope
<1>5. QED BY <1>2, <1>3, <1>4 DEF WitnessInv

\* The end of an attempt, and the loop going on, keep the task linked.
LEMMA QuietEnd ==
  ASSUME TypeOK, WitnessInv, NEW j \in Jobs, Succeed(j) \/ GiveBack(j),
         UNCHANGED rows, events' \subseteq events
  PROVE  WitnessInv'
  BY EndEffect, EndedLinked, QuietStep DEF TypeOK

LEMMA QuietLoop ==
  ASSUME TypeOK, WitnessInv, NEW j \in Jobs, NEW todo, Continue(j, todo),
         jobs[j].row # 0,
         \A m \in todo : RuleMatchesChange(m.kind, jobs[j].prev, rows[jobs[j].row].tier),
         UNCHANGED rows, events' \subseteq events
  PROVE  WitnessInv'
<1>1. Kept(j) /\ SameTarget(j) /\ (Ended(j) \/ GoesOn(j, "inserting", todo))
  BY ContinueEffect DEF TypeOK
<1>2. Linked(j)
  BY DEF WitnessInv
<1>3. CASE Ended(j)
  BY <1>1, <1>3, EndedLinked, QuietStep
<1>4. CASE GoesOn(j, "inserting", todo)
  <2>1. LinkedBasis(j)'
    BY <1>1, <1>2, <1>4 DEF Linked, LinkedBasis, GoesOn, SameTarget
  <2>2. LinkedWrite(j)'
    BY <1>1, <1>2, <1>4 DEF Linked, LinkedWrite, GoesOn, SameTarget, FanningOut
  <2>3. QED BY <1>1, <2>1, <2>2, QuietStep DEF Linked
<1>5. QED BY <1>1, <1>3, <1>4

\* With no previous tier there is no change.
LEMMA NoTierNoChange ==
  ASSUME NEW tier PROVE ~ IsChange(NoTier, tier)
<1>1. TierOrder(NoTier) = -1
  BY DEF TierOrder, NoTier
<1>2. QED BY <1>1 DEF IsChange, BothKnown

LEMMA WitnessRead ==
  ASSUME TypeOK, WitnessInv, NEW j \in Jobs, ReadPrevious(j)
  PROVE  WitnessInv'
<1> DEFINE i == LatestRow(jobs[j].project, jobs[j].window, Len(rows))
           previous == IF i = 0 THEN NoTier ELSE rows[i].tier
<1>1. jobs[j].project \in Projects /\ jobs[j].window \in Windows /\ Len(rows) \in Nat
  BY DEF TypeOK, JobRec
<1>2. /\ i \in 0..Len(rows)
      /\ i # 0 => rows[i].project = jobs[j].project /\ rows[i].window = jobs[j].window
  <2>1. LET of == {k \in 1..Len(rows) : rows[k].project = jobs[j].project
                                         /\ rows[k].window = jobs[j].window}
        IN  i \in 0..Len(rows) /\ (i # 0 => i \in of)
    BY <1>1, LatestRowIsNewest
  <2>2. QED BY <2>1
<1>3. i # 0 => i \in 1..Len(rows)
  BY <1>1, <1>2
<1>4. jobs' = [jobs EXCEPT ![j].pc = "read", ![j].basis = i, ![j].prev = previous]
  BY DEF ReadPrevious
<1>5. jobs[j].pc = "queued" /\ jobs \in [Jobs -> JobRec] /\ jobs[j] \in JobRec
  BY DEF ReadPrevious, MayStart, TypeOK
<1>6. jobs[j].row = 0 /\ jobs[j].todo = {}
  BY <1>5 DEF WitnessInv, Linked, LinkedWrite, FanningOut
<1>7. UNCHANGED <<rows, events>>
  BY DEF ReadPrevious
<1>8. previous = IF i = 0 THEN NoTier ELSE rows[i].tier
  OBVIOUS
<1> HIDE DEF i, previous
<1>9. /\ Kept(j) /\ SameTarget(j)
      /\ jobs'[j].pc = "read" /\ jobs'[j].basis = i /\ jobs'[j].prev = previous
      /\ jobs'[j].row = 0 /\ jobs'[j].todo = {}
  BY <1>4, <1>5, <1>6 DEF Kept, SameTarget, JobRec
<1>10. LinkedBasis(j)'
  BY <1>2, <1>3, <1>7, <1>8, <1>9 DEF LinkedBasis, SameTarget
<1>11. LinkedWrite(j)'
  BY <1>9 DEF LinkedWrite, FanningOut
<1>12. QED BY <1>7, <1>9, <1>10, <1>11, QuietStep DEF Linked

LEMMA WitnessRecord ==
  ASSUME TypeOK, WitnessInv, NEW j \in Jobs, NEW tier \in Outcomes,
         RecordWindow(j, tier), Grows
  PROVE  WitnessInv'
<1> SUFFICES ASSUME NEW n, n = Len(rows) + 1 PROVE WitnessInv'
  OBVIOUS
<1>0. rows \in Seq(Rows) /\ Len(rows) \in Nat /\ jobs \in [Jobs -> JobRec] /\ jobs[j] \in JobRec
  BY DEF TypeOK
<1>1. /\ Len(rows') = n
      /\ rows'[n] = [project |-> jobs[j].project, window |-> jobs[j].window,
                     tier |-> tier, basis |-> jobs[j].basis]
  BY <1>0 DEF RecordWindow
<1>2. Linked(j) /\ jobs[j].pc = "read" /\ UNCHANGED events
  BY DEF WitnessInv, RecordWindow
<1>3. LinkedRow(n)'
  BY <1>0, <1>1, <1>2 DEF LinkedRow, SameScope, Linked, LinkedBasis, Grows
<1>4. RowsLinked'
  <2>1. \A i \in 1..Len(rows') : i \in 1..Len(rows) \/ i = n
    BY <1>0, <1>1
  <2>2. \A i \in 1..Len(rows) : LinkedRow(i)'
    BY GrowKeeps DEF WitnessInv, RowsLinked
  <2>3. QED BY <1>3, <2>1, <2>2 DEF RowsLinked
<1>5. Kept(j) /\ Linked(j)'
  <2>1. CASE IsChange(jobs[j].prev, tier)
    <3>1. jobs' = [jobs EXCEPT ![j].pc = "matching", ![j].row = n]
      BY <2>1 DEF RecordWindow
    <3>2. /\ Kept(j) /\ SameTarget(j) /\ jobs'[j].pc = "matching" /\ jobs'[j].row = n
          /\ jobs'[j].prev = jobs[j].prev /\ jobs'[j].basis = jobs[j].basis
          /\ jobs'[j].todo = jobs[j].todo
      BY <1>0, <3>1 DEF Kept, SameTarget, JobRec
    <3>3. jobs[j].todo = {}
      BY <1>2 DEF Linked, LinkedWrite, FanningOut
    <3>4. LinkedBasis(j)'
      BY <1>0, <1>2, <3>2 DEF Linked, LinkedBasis, SameTarget, Grows
    <3>5. LinkedWrite(j)'
      BY <1>0, <1>1, <2>1, <3>2, <3>3 DEF LinkedWrite, SameTarget, FanningOut
    <3>6. QED BY <3>2, <3>4, <3>5 DEF Linked
  <2>2. CASE ~ IsChange(jobs[j].prev, tier)
    <3>1. Succeed(j)
      BY <2>2 DEF RecordWindow
    <3>2. QED BY <1>0, <3>1, EndEffect, EndedLinked
  <2>3. QED BY <2>1, <2>2
<1>6. \A k \in Jobs : Linked(k)'
  BY <1>5, GrowKeeps DEF WitnessInv, Kept
<1>7. \A ev \in events' : Witnessed(ev)'
  BY <1>2, GrowKeeps DEF WitnessInv
<1>8. QED BY <1>4, <1>6, <1>7 DEF WitnessInv

LEMMA WitnessMatch ==
  ASSUME TypeOK, WitnessInv, NEW j \in Jobs, MatchRules(j)
  PROVE  WitnessInv'
<1> DEFINE found == Matching(jobs[j].project, jobs[j].window, jobs[j].prev,
                             rows[jobs[j].row].tier)
           todo == {[rule |-> r, kind |-> rules[r].kind] : r \in found}
<1>1. jobs[j].row # 0
  BY DEF MatchRules, WitnessInv, Linked, LinkedWrite, FanningOut
<1>2. \A m \in todo : RuleMatchesChange(m.kind, jobs[j].prev, rows[jobs[j].row].tier)
  BY DEF Matching
<1>3. Continue(j, todo) /\ UNCHANGED <<rows, events>>
  BY DEF MatchRules
<1> HIDE DEF todo
<1>4. QED BY <1>1, <1>2, <1>3, QuietLoop

LEMMA WitnessInsert ==
  ASSUME TypeOK, WitnessInv, NEW j \in Jobs, NEW m \in jobs[j].todo, InsertEvent(j, m)
  PROVE  WitnessInv'
<1> DEFINE i == jobs[j].row
<1>0. PICK ev : ev = [id |-> nextEvent, rule |-> m.rule, row |-> i,
                      kind |-> m.kind, prev |-> jobs[j].prev]
  OBVIOUS
<1>1. Linked(j) /\ jobs[j].pc = "inserting" /\ UNCHANGED rows /\ i # 0
  BY DEF WitnessInv, InsertEvent, Linked, LinkedWrite, FanningOut
<1>2. /\ i \in 1..Len(rows) /\ rows[i].basis = jobs[j].basis
      /\ RuleMatchesChange(m.kind, jobs[j].prev, rows[i].tier)
      /\ IsChange(jobs[j].prev, rows[i].tier)
  BY <1>1 DEF Linked, LinkedWrite
<1>3. jobs[j].basis # 0
  BY <1>1, <1>2, NoTierNoChange DEF Linked, LinkedBasis
<1>4. LinkedRow(i)
  BY <1>2 DEF WitnessInv, RowsLinked
<1>5. Witnessed(ev)
  BY <1>0, <1>1, <1>2, <1>3, <1>4 DEF Witnessed, LinkedRow, Linked, LinkedBasis
<1>6. jobs \in [Jobs -> JobRec] /\ jobs[j] \in JobRec
  BY DEF TypeOK
<1>7. Kept(j) /\ SameTarget(j) /\ GoesOn(j, "enqueueing", jobs[j].todo \ {m})
  BY <1>6 DEF InsertEvent, Kept, SameTarget, GoesOn, JobRec
<1>8. Linked(j)'
  <2>1. LinkedBasis(j)'
    BY <1>1, <1>7 DEF Linked, LinkedBasis, GoesOn, SameTarget
  <2>2. LinkedWrite(j)'
    BY <1>1, <1>7 DEF Linked, LinkedWrite, GoesOn, SameTarget, FanningOut
  <2>3. QED BY <2>1, <2>2 DEF Linked
<1>9. Grows
  BY <1>1 DEF TypeOK, Grows
<1>10. \A e \in events' : Witnessed(e)'
  <2>1. events' = events \cup {ev}
    BY <1>0 DEF InsertEvent
  <2>2. Witnessed(ev)'
    BY <1>1, <1>5 DEF Witnessed, SameScope
  <2>3. QED BY <1>9, <2>1, <2>2, GrowKeeps DEF WitnessInv
<1>11. \A k \in Jobs : Linked(k)'
  BY <1>7, <1>8, <1>9, GrowKeeps DEF WitnessInv, Kept
<1>12. RowsLinked'
  BY <1>1 DEF WitnessInv, RowsLinked, LinkedRow, SameScope
<1>13. QED BY <1>10, <1>11, <1>12 DEF WitnessInv

\* Leaving out a rule, or none, from what is still to do.
LEMMA WitnessLoop ==
  ASSUME TypeOK, WitnessInv, NEW j \in Jobs, NEW todo \in SUBSET jobs[j].todo,
         jobs[j].pc \in FanningOut, Continue(j, todo), UNCHANGED rows, events' \subseteq events
  PROVE  WitnessInv'
<1>1. Linked(j)
  BY DEF WitnessInv
<1>2. jobs[j].row # 0
  BY <1>1 DEF Linked, LinkedWrite
<1>3. \A m \in todo : RuleMatchesChange(m.kind, jobs[j].prev, rows[jobs[j].row].tier)
  BY <1>1, <1>2 DEF Linked, LinkedWrite
<1>4. QED BY <1>2, <1>3, QuietLoop

LEMMA WitnessInit == Init => WitnessInv
  BY DEF Init, WitnessInv, RowsLinked, Linked, LinkedBasis, LinkedWrite, FanningOut

LEMMA WitnessNext == TypeOK /\ WitnessInv /\ [Next]_vars => WitnessInv'
<1> SUFFICES ASSUME TypeOK, WitnessInv, [Next]_vars PROVE WitnessInv'
  OBVIOUS
<1>0. Grows
  BY RowsGrow
<1> jobs \in [Jobs -> JobRec]
  BY DEF TypeOK
<1>1. ASSUME NEW j \in Jobs, EnqueueCompute(j) PROVE WitnessInv'
  <2>1. /\ Kept(j) /\ SameTarget(j) /\ jobs'[j].pc = "queued"
        /\ jobs'[j].prev = jobs[j].prev /\ jobs'[j].basis = jobs[j].basis
        /\ jobs'[j].row = jobs[j].row /\ jobs'[j].todo = jobs[j].todo
        /\ jobs[j].pc = "new" /\ UNCHANGED <<rows, events>>
    BY <1>1 DEF EnqueueCompute, Kept, SameTarget, JobRec
  <2>2. Linked(j)'
    BY <2>1 DEF WitnessInv, Linked, LinkedBasis, LinkedWrite, FanningOut, SameTarget
  <2>3. QED BY <2>1, <2>2, QuietStep
<1>2. ASSUME NEW j \in Jobs, MissPrevious(j) PROVE WitnessInv'
  <2>1. /\ Kept(j) /\ SameTarget(j) /\ jobs'[j].pc = "read"
        /\ jobs'[j].prev = jobs[j].prev /\ jobs'[j].basis = jobs[j].basis
        /\ jobs'[j].row = jobs[j].row /\ jobs'[j].todo = jobs[j].todo
        /\ jobs[j].pc = "queued" /\ UNCHANGED <<rows, events>>
    BY <1>2 DEF MissPrevious, MayStart, Kept, SameTarget, JobRec
  <2>2. Linked(j)'
    BY <2>1 DEF WitnessInv, Linked, LinkedBasis, LinkedWrite, FanningOut, SameTarget
  <2>3. QED BY <2>1, <2>2, QuietStep
<1>3. ASSUME NEW j \in Jobs,
             SkipMissingProject(j) \/ CrashCompute(j) \/ ComputeFails(j) \/ MatchRulesFails(j)
      PROVE  WitnessInv'
  BY <1>3, QuietEnd DEF SkipMissingProject, CrashCompute, ComputeFails, MatchRulesFails
<1>4. ASSUME NEW j \in Jobs, NEW m \in jobs[j].todo, InsertEventFails(j, m) PROVE WitnessInv'
  BY <1>4, WitnessLoop DEF InsertEventFails, FanningOut
<1>5. ASSUME NEW j \in Jobs, EnqueueDispatch(j) \/ EnqueueDispatchFails(j) PROVE WitnessInv'
  BY <1>5, WitnessLoop DEF EnqueueDispatch, EnqueueDispatchFails, FanningOut
<1>6. ASSUME NEW j \in Jobs, Work(j) PROVE WitnessInv'
  BY <1>0, <1>3, <1>4, <1>5, <1>6, WitnessRead, WitnessRecord, WitnessMatch, WitnessInsert
     DEF Work
<1>7. CASE UNCHANGED <<rows, jobs>> /\ events' \subseteq events
  <2>1. \A k \in Jobs : Linked(k)'
    BY <1>0, <1>7, GrowKeeps DEF WitnessInv
  <2>2. \A ev \in events' : Witnessed(ev)'
    BY <1>0, <1>7, GrowKeeps DEF WitnessInv
  <2>3. RowsLinked'
    BY <1>7 DEF WitnessInv, RowsLinked, LinkedRow, SameScope
  <2>4. QED BY <2>1, <2>2, <2>3 DEF WitnessInv
<1>8. Requests \/ (\E p \in Projects : RemoveProject(p)) \/ UNCHANGED vars
        => UNCHANGED <<rows, jobs>> /\ events' \subseteq events
  BY DEF Requests, CreateRule, UpdateRule, DeleteRule, RemoveProject, vars
<1>9. QED BY <1>1, <1>2, <1>3, <1>5, <1>6, <1>7, <1>8 DEF Next, Faulty

\* However computations, retries, crashes and rule edits interleave, an event
\* written by fanOutAlertsForTierChange joins two rows that metric_window holds
\* in that order, of one scope, and carries a change its rule's kind asks for.
THEOREM AlertsAreWitnessed == Spec => []EventsWitnessed
<1>1. WitnessInv => EventsWitnessed
  BY DEF WitnessInv, Witnessed, EventsWitnessed
<1>2. QED BY <1>1, WitnessInit, WitnessNext, TypeCorrect, PTL DEF Spec

-----------------------------------------------------------------------------
(***************************************************************************)
(* A row alerts a rule at most once.  A row belongs to the one task that   *)
(* wrote it, while that task works on it; a rule leaves the list of that   *)
(* task before the row's event for it exists.                              *)
(***************************************************************************)

OneOwner ==
  \A j, k \in Jobs : jobs[j].row # 0 /\ jobs[j].row = jobs[k].row => j = k

OnceListed ==
  \A j \in Jobs : \A m1, m2 \in jobs[j].todo : m1.rule = m2.rule => m1 = m2

\* What the owner of a row has still to do for it has no event yet.
StillToDo ==
  \A j \in Jobs : \A ev \in events :
    jobs[j].row = ev.row =>
      jobs[j].pc # "matching" /\ \A m \in jobs[j].todo : m.rule # ev.rule

OnceInv == OneOwner /\ OnceListed /\ StillToDo /\ OneEventPerRowAndRule

\* A step of task j that adds no event and only shortens its list.
LEMMA OnceQuiet ==
  ASSUME OnceInv, NEW j \in Jobs, Kept(j), events' \subseteq events,
         jobs'[j].pc # "matching", jobs'[j].todo \subseteq jobs[j].todo,
         jobs'[j].row = jobs[j].row \/ (jobs'[j].row = 0 /\ jobs'[j].todo = {})
  PROVE  OnceInv'
<1>1. OneOwner'
  BY DEF OnceInv, OneOwner, Kept
<1>2. OnceListed'
  BY DEF OnceInv, OnceListed, Kept
<1>3. StillToDo'
  BY DEF OnceInv, StillToDo, Kept
<1>4. OneEventPerRowAndRule'
  BY DEF OnceInv, OneEventPerRowAndRule
<1>5. QED BY <1>1, <1>2, <1>3, <1>4 DEF OnceInv

LEMMA OnceEnd ==
  ASSUME TypeOK, OnceInv, NEW j \in Jobs, Succeed(j) \/ GiveBack(j), events' \subseteq events
  PROVE  OnceInv'
<1>1. Kept(j) /\ Ended(j)
  BY EndEffect DEF TypeOK
<1>2. QED BY <1>1, OnceQuiet DEF Ended, Pending

LEMMA OnceLoop ==
  ASSUME TypeOK, OnceInv, NEW j \in Jobs, NEW todo \in SUBSET jobs[j].todo,
         Continue(j, todo), events' \subseteq events
  PROVE  OnceInv'
<1>1. Kept(j) /\ (Ended(j) \/ GoesOn(j, "inserting", todo))
  BY ContinueEffect DEF TypeOK
<1>2. QED BY <1>1, OnceQuiet DEF Ended, Pending, GoesOn

LEMMA OnceRecord ==
  ASSUME TypeOK, WitnessInv, OnceInv, NEW j \in Jobs, NEW tier \in Outcomes,
         RecordWindow(j, tier)
  PROVE  OnceInv'
<1> SUFFICES ASSUME NEW n, n = Len(rows) + 1 PROVE OnceInv'
  OBVIOUS
<1>0. jobs \in [Jobs -> JobRec] /\ Len(rows) \in Nat /\ UNCHANGED events
  BY DEF TypeOK, RecordWindow
<1>1. CASE Succeed(j)
  BY <1>0, <1>1, OnceEnd
<1>2. CASE jobs' = [jobs EXCEPT ![j].pc = "matching", ![j].row = n]
  <2>1. Kept(j) /\ jobs'[j].row = n /\ jobs'[j].todo = jobs[j].todo
    BY <1>0, <1>2 DEF Kept, JobRec
  <2>2. jobs[j].todo = {}
    BY DEF RecordWindow, WitnessInv, Linked, LinkedWrite, FanningOut
  <2>3. \A k \in Jobs : jobs[k].row # n
    BY <1>0 DEF WitnessInv, Linked, LinkedWrite
  <2>4. \A ev \in events : ev.row # n
    BY <1>0 DEF WitnessInv, Witnessed
  <2>5. OneOwner'
    BY <2>1, <2>3 DEF OnceInv, OneOwner, Kept
  <2>6. OnceListed'
    BY <2>1, <2>2 DEF OnceInv, OnceListed, Kept
  <2>7. StillToDo'
    BY <1>0, <2>1, <2>4 DEF OnceInv, StillToDo, Kept
  <2>8. OneEventPerRowAndRule'
    BY <1>0 DEF OnceInv, OneEventPerRowAndRule
  <2>9. QED BY <2>5, <2>6, <2>7, <2>8 DEF OnceInv
<1>3. QED BY <1>1, <1>2 DEF RecordWindow

LEMMA OnceMatch ==
  ASSUME TypeOK, OnceInv, NEW j \in Jobs, MatchRules(j)
  PROVE  OnceInv'
<1> DEFINE found == Matching(jobs[j].project, jobs[j].window, jobs[j].prev,
                             rows[jobs[j].row].tier)
<1>0. PICK todo : todo = {[rule |-> r, kind |-> rules[r].kind] : r \in found}
  OBVIOUS
<1>1. \A m1, m2 \in todo : m1.rule = m2.rule => m1 = m2
  <2> HIDE DEF found
  <2>1. QED BY <1>0
<1>2. jobs \in [Jobs -> JobRec] /\ UNCHANGED events /\ jobs[j].pc = "matching"
  BY DEF TypeOK, MatchRules
<1>3. Continue(j, todo)
  BY <1>0 DEF MatchRules
<1>4. Kept(j) /\ (Ended(j) \/ GoesOn(j, "inserting", todo))
  BY <1>2, <1>3, ContinueEffect
<1>5. CASE Ended(j)
  BY <1>2, <1>4, <1>5, OnceQuiet DEF Ended, Pending
<1>6. CASE GoesOn(j, "inserting", todo)
  <2>1. OneOwner'
    BY <1>4, <1>6 DEF OnceInv, OneOwner, Kept, GoesOn
  <2>2. OnceListed'
    BY <1>1, <1>4, <1>6 DEF OnceInv, OnceListed, Kept, GoesOn
  <2>3. StillToDo'
    BY <1>2, <1>4, <1>6 DEF OnceInv, StillToDo, Kept, GoesOn
  <2>4. OneEventPerRowAndRule'
    BY <1>2 DEF OnceInv, OneEventPerRowAndRule
  <2>5. QED BY <2>1, <2>2, <2>3, <2>4 DEF OnceInv
<1>7. QED BY <1>4, <1>5, <1>6

LEMMA OnceInsert ==
  ASSUME TypeOK, WitnessInv, OnceInv, NEW j \in Jobs, NEW m \in jobs[j].todo,
         InsertEvent(j, m)
  PROVE  OnceInv'
<1>0. PICK ev : ev = [id |-> nextEvent, rule |-> m.rule, row |-> jobs[j].row,
                      kind |-> m.kind, prev |-> jobs[j].prev]
  OBVIOUS
<1>1. jobs[j].pc = "inserting" /\ events' = events \cup {ev} /\ jobs[j].row # 0
  BY <1>0 DEF InsertEvent, WitnessInv, Linked, LinkedWrite, FanningOut
<1>2. Kept(j) /\ GoesOn(j, "enqueueing", jobs[j].todo \ {m})
  BY DEF TypeOK, InsertEvent, Kept, GoesOn, JobRec
<1>3. \A e \in events : e.row = ev.row => e.rule # ev.rule
  BY <1>0 DEF OnceInv, StillToDo
<1>4. OneOwner'
  BY <1>2 DEF OnceInv, OneOwner, Kept, GoesOn
<1>5. OnceListed'
  BY <1>2 DEF OnceInv, OnceListed, Kept, GoesOn
<1>6. StillToDo'
  <2>1. \A k \in Jobs \ {j} : jobs'[k].row # ev.row
    BY <1>0, <1>1, <1>2 DEF OnceInv, OneOwner, Kept
  <2>2. jobs'[j].pc # "matching" /\ \A q \in jobs'[j].todo : q.rule # ev.rule
    BY <1>0, <1>2 DEF OnceInv, OnceListed, GoesOn
  <2>3. \A k \in Jobs : \A e \in events : jobs'[k].row = e.row =>
          jobs'[k].pc # "matching" /\ \A q \in jobs'[k].todo : q.rule # e.rule
    BY <1>2 DEF OnceInv, StillToDo, Kept, GoesOn
  <2>4. QED BY <1>1, <2>1, <2>2, <2>3 DEF StillToDo
<1>7. OneEventPerRowAndRule'
  BY <1>1, <1>3 DEF OnceInv, OneEventPerRowAndRule
<1>8. QED BY <1>4, <1>5, <1>6, <1>7 DEF OnceInv

LEMMA OnceInit == Init => OnceInv
  BY DEF Init, OnceInv, OneOwner, OnceListed, StillToDo, OneEventPerRowAndRule

LEMMA OnceNext == TypeOK /\ WitnessInv /\ OnceInv /\ [Next]_vars => OnceInv'
<1> SUFFICES ASSUME TypeOK, WitnessInv, OnceInv, [Next]_vars PROVE OnceInv'
  OBVIOUS
<1> jobs \in [Jobs -> JobRec]
  BY DEF TypeOK
<1>1. ASSUME NEW j \in Jobs, EnqueueCompute(j) \/ MissPrevious(j) PROVE OnceInv'
  <2>1. /\ Kept(j) /\ jobs'[j].pc \in {"queued", "read"} /\ jobs'[j].row = jobs[j].row
        /\ jobs'[j].todo = jobs[j].todo /\ UNCHANGED events
    BY <1>1 DEF EnqueueCompute, MissPrevious, Kept, JobRec
  <2>2. QED BY <2>1, OnceQuiet
<1>2. ASSUME NEW j \in Jobs, ReadPrevious(j) PROVE OnceInv'
  <2>1. /\ Kept(j) /\ jobs'[j].pc = "read" /\ jobs'[j].row = jobs[j].row
        /\ jobs'[j].todo = jobs[j].todo /\ UNCHANGED events
    BY <1>2 DEF ReadPrevious, Kept, JobRec
  <2>2. QED BY <2>1, OnceQuiet
<1>3. ASSUME NEW j \in Jobs,
             SkipMissingProject(j) \/ CrashCompute(j) \/ ComputeFails(j) \/ MatchRulesFails(j)
      PROVE  OnceInv'
  BY <1>3, OnceEnd DEF SkipMissingProject, CrashCompute, ComputeFails, MatchRulesFails
<1>4. ASSUME NEW j \in Jobs, NEW m \in jobs[j].todo, InsertEventFails(j, m) PROVE OnceInv'
  BY <1>4, OnceLoop DEF InsertEventFails
<1>5. ASSUME NEW j \in Jobs, EnqueueDispatch(j) \/ EnqueueDispatchFails(j) PROVE OnceInv'
  BY <1>5, OnceLoop DEF EnqueueDispatch, EnqueueDispatchFails
<1>6. ASSUME NEW j \in Jobs, Work(j) PROVE OnceInv'
  BY <1>2, <1>3, <1>4, <1>5, <1>6, OnceRecord, OnceMatch, OnceInsert DEF Work
<1>7. CASE UNCHANGED jobs /\ events' \subseteq events
  BY <1>7 DEF OnceInv, OneOwner, OnceListed, StillToDo, OneEventPerRowAndRule
<1>8. Requests \/ (\E p \in Projects : RemoveProject(p)) \/ UNCHANGED vars
        => UNCHANGED jobs /\ events' \subseteq events
  BY DEF Requests, CreateRule, UpdateRule, DeleteRule, RemoveProject, vars
<1>9. QED BY <1>1, <1>3, <1>5, <1>6, <1>7, <1>8 DEF Next, Faulty

\* A retried, redelivered or concurrent computation never alerts a rule a second
\* time for a row of metric_window: fanOutAlertsForTierChange runs over a row in
\* the attempt that inserted it and in no other.
THEOREM AlertsAtMostOnce == Spec => []OneEventPerRowAndRule
<1>1. OnceInv => OneEventPerRowAndRule
  BY DEF OnceInv
<1>2. QED BY <1>1, OnceInit, OnceNext, WitnessInit, WitnessNext, TypeCorrect, PTL DEF Spec

-----------------------------------------------------------------------------
(***************************************************************************)
(* Events belong to their project's tenant.  A rule on a task's list may   *)
(* have been edited or deleted since it was read; deleted, it stays so.    *)
(***************************************************************************)

OwnOrRetired(r, p) ==
  IF rules[r] = NoRule THEN r \in retired ELSE rules[r].tenant = TenantOf[p]

ListedOwned == \A j \in Jobs : \A m \in jobs[j].todo : OwnOrRetired(m.rule, jobs[j].project)

TenantInv == (\A r \in retired : rules[r] = NoRule) /\ ListedOwned /\ EventsOfOwnTenant

\* A step of task j that leaves the rules alone.
LEMMA TenantQuiet ==
  ASSUME WitnessInv, TenantInv, Grows, NEW j \in Jobs, Kept(j), SameTarget(j),
         UNCHANGED <<rules, retired>>, events' \subseteq events,
         \A m \in jobs'[j].todo : OwnOrRetired(m.rule, jobs[j].project)
  PROVE  TenantInv'
<1>1. \A ev \in events : rows'[ev.row] = rows[ev.row]
  BY DEF WitnessInv, Witnessed, Grows
<1>2. EventsOfOwnTenant'
  BY <1>1 DEF TenantInv, ListedOwned, EventsOfOwnTenant
<1>3. ListedOwned'
  BY DEF TenantInv, ListedOwned, OwnOrRetired, Kept, SameTarget
<1>4. QED BY <1>2, <1>3 DEF TenantInv, ListedOwned

LEMMA TenantEnd ==
  ASSUME TypeOK, WitnessInv, TenantInv, Grows, NEW j \in Jobs, Succeed(j) \/ GiveBack(j),
         UNCHANGED <<rules, retired>>, events' \subseteq events
  PROVE  TenantInv'
<1>1. Kept(j) /\ Ended(j) /\ SameTarget(j)
  BY EndEffect DEF TypeOK
<1>2. QED BY <1>1, TenantQuiet DEF Ended

LEMMA TenantLoop ==
  ASSUME TypeOK, WitnessInv, TenantInv, Grows, NEW j \in Jobs, NEW todo, Continue(j, todo),
         UNCHANGED <<rules, retired>>, events' \subseteq events,
         \A m \in todo : OwnOrRetired(m.rule, jobs[j].project)
  PROVE  TenantInv'
<1>1. Kept(j) /\ SameTarget(j) /\ (Ended(j) \/ GoesOn(j, "inserting", todo))
  BY ContinueEffect DEF TypeOK
<1>2. QED BY <1>1, TenantQuiet DEF Ended, GoesOn

LEMMA TenantInsert ==
  ASSUME TypeOK, WitnessInv, TenantInv, Grows, NEW j \in Jobs, NEW m \in jobs[j].todo,
         InsertEvent(j, m)
  PROVE  TenantInv'
<1>0. PICK ev : ev = [id |-> nextEvent, rule |-> m.rule, row |-> jobs[j].row,
                      kind |-> m.kind, prev |-> jobs[j].prev]
  OBVIOUS
<1>1. Kept(j) /\ SameTarget(j) /\ GoesOn(j, "enqueueing", jobs[j].todo \ {m})
  BY DEF TypeOK, InsertEvent, Kept, SameTarget, GoesOn, JobRec
<1>2. /\ UNCHANGED <<rules, retired, rows>> /\ events' = events \cup {ev}
      /\ rules[m.rule] # NoRule
  BY <1>0 DEF InsertEvent, ruleVars
<1>3. rows[jobs[j].row].project = jobs[j].project
  BY DEF WitnessInv, Linked, LinkedWrite
<1>4. rules[ev.rule] # NoRule /\ rules[ev.rule].tenant = TenantOf[rows[ev.row].project]
  BY <1>0, <1>2, <1>3 DEF TenantInv, ListedOwned, OwnOrRetired
<1>5. EventsOfOwnTenant'
  BY <1>2, <1>4 DEF TenantInv, ListedOwned, EventsOfOwnTenant
<1>6. ListedOwned'
  BY <1>1, <1>2 DEF TenantInv, ListedOwned, OwnOrRetired, Kept, SameTarget, GoesOn
<1>7. QED BY <1>2, <1>5, <1>6 DEF TenantInv, ListedOwned

\* The API's requests: a tenant is never changed, an identifier never reused.
LEMMA TenantRequest ==
  ASSUME TypeOK, TenantInv, Requests
  PROVE  TenantInv'
<1>0. rules \in [RuleIds -> RuleRec \cup {NoRule}]
  BY DEF TypeOK
<1>1. \A j \in Jobs : \A m \in jobs[j].todo : m.rule \in RuleIds
  BY DEF TypeOK, JobRec, Matches
<1>2. ASSUME NEW r \in RuleIds, NEW v \in RuleValues, CreateRule(r, v) PROVE TenantInv'
  <2>1. \A ev \in events : ev.rule # r
    BY <1>2 DEF CreateRule, TenantInv, ListedOwned, EventsOfOwnTenant
  <2>2. \A j \in Jobs : \A m \in jobs[j].todo : m.rule # r
    BY <1>2 DEF CreateRule, TenantInv, ListedOwned, OwnOrRetired
  <2>3. QED BY <1>0, <1>1, <1>2, <2>1, <2>2
            DEF CreateRule, TenantInv, ListedOwned, OwnOrRetired, EventsOfOwnTenant, TypeOK, Events
<1>3. ASSUME NEW r \in RuleIds, NEW v \in RuleValues, UpdateRule(r, v) PROVE TenantInv'
  <2>1. v # NoRule
    BY DetectionAssumption
  <2>2. /\ rules' = [rules EXCEPT ![r] = v] /\ UNCHANGED <<retired, jobs, events, rows>>
        /\ rules[r] # NoRule /\ v.tenant = rules[r].tenant
    BY <1>3 DEF UpdateRule
  <2>3. \A q \in RuleIds : /\ rules'[q] = NoRule <=> rules[q] = NoRule
                           /\ rules[q] # NoRule => rules'[q].tenant = rules[q].tenant
    BY <1>0, <2>1, <2>2
  <2>4. \A ev \in events : ev.rule \in RuleIds
    BY DEF TypeOK, Events
  <2>5. retired \subseteq RuleIds
    BY DEF TypeOK
  <2>6. QED BY <1>1, <2>2, <2>3, <2>4, <2>5
            DEF TenantInv, ListedOwned, OwnOrRetired, EventsOfOwnTenant
<1>4. ASSUME NEW r \in RuleIds, DeleteRule(r) PROVE TenantInv'
  <2>1. \A q \in RuleIds : rules'[q] = IF q = r THEN NoRule ELSE rules[q]
    BY <1>0, <1>4 DEF DeleteRule
  <2>2. \A ev \in events : ev.rule \in RuleIds
    BY DEF TypeOK, Events
  <2>3. retired \subseteq RuleIds
    BY DEF TypeOK
  <2>4. /\ retired' = retired \cup {r} /\ events' = {ev \in events : ev.rule # r}
        /\ UNCHANGED <<jobs, rows>>
    BY <1>4 DEF DeleteRule
  <2>5. QED BY <1>1, <2>1, <2>2, <2>3, <2>4
            DEF TenantInv, ListedOwned, OwnOrRetired, EventsOfOwnTenant
<1>5. QED BY <1>2, <1>3, <1>4 DEF Requests

LEMMA TenantInit == Init => TenantInv
  BY DEF Init, TenantInv, ListedOwned, EventsOfOwnTenant

LEMMA TenantNext == TypeOK /\ WitnessInv /\ TenantInv /\ [Next]_vars => TenantInv'
<1> SUFFICES ASSUME TypeOK, WitnessInv, TenantInv, [Next]_vars PROVE TenantInv'
  OBVIOUS
<1>0. Grows
  BY RowsGrow
<1> jobs \in [Jobs -> JobRec]
  BY DEF TypeOK
<1>1. ASSUME NEW j \in Jobs, EnqueueCompute(j) \/ MissPrevious(j) PROVE TenantInv'
  <2>1. /\ Kept(j) /\ SameTarget(j) /\ jobs'[j].todo = jobs[j].todo
        /\ UNCHANGED <<rules, retired, events>>
    BY <1>1 DEF EnqueueCompute, MissPrevious, ruleVars, Kept, SameTarget, JobRec
  <2>2. QED BY <1>0, <2>1, TenantQuiet DEF TenantInv, ListedOwned
<1>2. ASSUME NEW j \in Jobs, ReadPrevious(j) PROVE TenantInv'
  <2>1. /\ Kept(j) /\ SameTarget(j) /\ jobs'[j].todo = jobs[j].todo
        /\ UNCHANGED <<rules, retired, events>>
    BY <1>2 DEF ReadPrevious, ruleVars, Kept, SameTarget, JobRec
  <2>2. QED BY <1>0, <2>1, TenantQuiet DEF TenantInv, ListedOwned
<1>3. ASSUME NEW j \in Jobs,
             SkipMissingProject(j) \/ CrashCompute(j) \/ ComputeFails(j) \/ MatchRulesFails(j)
      PROVE  TenantInv'
  BY <1>0, <1>3, TenantEnd
     DEF SkipMissingProject, CrashCompute, ComputeFails, MatchRulesFails, ruleVars
<1>4. ASSUME NEW j \in Jobs, NEW tier \in Outcomes, RecordWindow(j, tier) PROVE TenantInv'
  <2>1. UNCHANGED <<rules, retired, events>>
    BY <1>4 DEF RecordWindow, ruleVars
  <2>2. CASE Succeed(j)
    BY <1>0, <2>1, <2>2, TenantEnd
  <2>3. CASE jobs' = [jobs EXCEPT ![j].pc = "matching", ![j].row = Len(rows) + 1]
    <3>1. Kept(j) /\ SameTarget(j) /\ jobs'[j].todo = jobs[j].todo
      BY <2>3 DEF Kept, SameTarget, JobRec
    <3>2. QED BY <1>0, <2>1, <3>1, TenantQuiet DEF TenantInv, ListedOwned
  <2>4. QED BY <1>4, <2>2, <2>3 DEF RecordWindow
<1>5. ASSUME NEW j \in Jobs, MatchRules(j) PROVE TenantInv'
  <2> DEFINE found == Matching(jobs[j].project, jobs[j].window, jobs[j].prev,
                               rows[jobs[j].row].tier)
             todo == {[rule |-> r, kind |-> rules[r].kind] : r \in found}
  <2>1. \A m \in todo : OwnOrRetired(m.rule, jobs[j].project)
    BY DEF Matching, OwnOrRetired
  <2>2. Continue(j, todo) /\ UNCHANGED <<rules, retired, events>>
    BY <1>5 DEF MatchRules, ruleVars
  <2> HIDE DEF todo
  <2>3. QED BY <1>0, <2>1, <2>2, TenantLoop
<1>6. ASSUME NEW j \in Jobs, NEW m \in jobs[j].todo, InsertEvent(j, m) PROVE TenantInv'
  BY <1>0, <1>6, TenantInsert
<1>7. ASSUME NEW j \in Jobs, NEW m \in jobs[j].todo, InsertEventFails(j, m) PROVE TenantInv'
  BY <1>0, <1>7, TenantLoop DEF InsertEventFails, TenantInv, ListedOwned, ruleVars
<1>8. ASSUME NEW j \in Jobs, EnqueueDispatch(j) \/ EnqueueDispatchFails(j) PROVE TenantInv'
  BY <1>0, <1>8, TenantLoop
     DEF EnqueueDispatch, EnqueueDispatchFails, TenantInv, ListedOwned, ruleVars
<1>9. CASE UNCHANGED <<rules, retired, rows, jobs, events>>
  BY <1>9 DEF TenantInv, ListedOwned, OwnOrRetired, EventsOfOwnTenant
<1>10. (\E p \in Projects : RemoveProject(p)) \/ UNCHANGED vars
         => UNCHANGED <<rules, retired, rows, jobs, events>>
  BY DEF RemoveProject, vars
<1>11. QED BY <1>1, <1>2, <1>3, <1>4, <1>5, <1>6, <1>7, <1>8, <1>9, <1>10, TenantRequest
           DEF Next, Work, Faulty

\* The history of a tenant shows events of its own, existing rules, although a
\* fan-out writes them from a list it read before the API changed the rules.
THEOREM AlertsOfOwnTenant == Spec => []EventsOfOwnTenant
<1>1. TenantInv => EventsOfOwnTenant
  BY DEF TenantInv, ListedOwned
<1>2. QED BY <1>1, TenantInit, TenantNext, WitnessInit, WitnessNext, TypeCorrect, PTL DEF Spec

-----------------------------------------------------------------------------
(***************************************************************************)
(* Every event gets its task.  The task about to enqueue an event holds    *)
(* its identifier, which was inserted.                                     *)
(***************************************************************************)

HeldIds == \A j \in Jobs : jobs[j].pc = "enqueueing" => jobs[j].event \in 1..(nextEvent - 1)

TaskInv == HeldIds /\ EventsGetTheirTask

\* A step of task j that was not about to enqueue, and adds no event.
LEMMA TaskQuiet ==
  ASSUME TypeOK, TaskInv, NEW j \in Jobs, Kept(j), jobs'[j].pc # "enqueueing",
         jobs[j].pc # "enqueueing" \/ faults' # 0 \/ jobs[j].event \in dispatched',
         UNCHANGED nextEvent, events' \subseteq events, faults' = 0 => faults = 0,
         dispatched' \in {dispatched, dispatched \cup {jobs[j].event}},
         jobs[j].pc # "enqueueing" => UNCHANGED dispatched
  PROVE  TaskInv'
<1>1. HeldIds'
  BY DEF TaskInv, HeldIds, Kept
<1>2. dispatched' \subseteq 1..(nextEvent' - 1)
  BY DEF TaskInv, HeldIds, EventsGetTheirTask
<1>3. ASSUME faults' = 0, NEW ev \in events'
      PROVE  \/ ev.id \in dispatched'
             \/ \E k \in Jobs : jobs'[k].pc = "enqueueing" /\ jobs'[k].event = ev.id
  <2>1. CASE ev.id \in dispatched
    BY <2>1
  <2>2. ASSUME NEW k \in Jobs, jobs[k].pc = "enqueueing", jobs[k].event = ev.id
        PROVE  \/ ev.id \in dispatched'
               \/ \E q \in Jobs : jobs'[q].pc = "enqueueing" /\ jobs'[q].event = ev.id
    BY <1>3, <2>2 DEF Kept
  <2>3. QED BY <1>3, <2>1, <2>2 DEF TaskInv, EventsGetTheirTask
<1>4. QED BY <1>1, <1>2, <1>3 DEF TaskInv, EventsGetTheirTask

LEMMA TaskEnd ==
  ASSUME TypeOK, TaskInv, NEW j \in Jobs, Succeed(j) \/ GiveBack(j),
         jobs[j].pc # "enqueueing" \/ faults' # 0,
         UNCHANGED <<nextEvent, dispatched>>, events' \subseteq events, faults' = 0 => faults = 0
  PROVE  TaskInv'
<1>1. Kept(j) /\ Ended(j)
  BY EndEffect DEF TypeOK
<1>2. QED BY <1>1, TaskQuiet DEF Ended, Pending

LEMMA TaskLoop ==
  ASSUME TypeOK, TaskInv, NEW j \in Jobs, NEW todo, Continue(j, todo),
         jobs[j].pc # "enqueueing" \/ faults' # 0 \/ jobs[j].event \in dispatched',
         UNCHANGED nextEvent, events' \subseteq events, faults' = 0 => faults = 0,
         dispatched' \in {dispatched, dispatched \cup {jobs[j].event}},
         jobs[j].pc # "enqueueing" => UNCHANGED dispatched
  PROVE  TaskInv'
<1>1. Kept(j) /\ (Ended(j) \/ GoesOn(j, "inserting", todo))
  BY ContinueEffect DEF TypeOK
<1>2. jobs'[j].pc # "enqueueing"
  BY <1>1 DEF Ended, Pending, GoesOn
<1>3. QED BY <1>1, <1>2, TaskQuiet

LEMMA TaskInsert ==
  ASSUME TypeOK, TaskInv, NEW j \in Jobs, NEW m \in jobs[j].todo, InsertEvent(j, m)
  PROVE  TaskInv'
<1>0. PICK ev : ev = [id |-> nextEvent, rule |-> m.rule, row |-> jobs[j].row,
                      kind |-> m.kind, prev |-> jobs[j].prev]
  OBVIOUS
<1>1. /\ jobs[j].pc = "inserting" /\ events' = events \cup {ev}
      /\ nextEvent' = nextEvent + 1 /\ UNCHANGED <<dispatched, faults>>
  BY <1>0 DEF InsertEvent
<1>2. /\ Kept(j) /\ jobs'[j].pc = "enqueueing" /\ jobs'[j].event = nextEvent
      /\ nextEvent \in Nat \ {0}
  BY DEF TypeOK, InsertEvent, Kept, JobRec
<1>3. HeldIds'
  BY <1>1, <1>2 DEF TaskInv, HeldIds, Kept
<1>4. dispatched' \subseteq 1..(nextEvent' - 1)
  BY <1>1, <1>2 DEF TaskInv, EventsGetTheirTask
<1>5. ASSUME faults' = 0, NEW e \in events'
      PROVE  \/ e.id \in dispatched'
             \/ \E k \in Jobs : jobs'[k].pc = "enqueueing" /\ jobs'[k].event = e.id
  <2>1. CASE e = ev
    BY <1>0, <1>2, <2>1
  <2>2. CASE e \in events
    <3>1. \/ e.id \in dispatched
          \/ \E k \in Jobs \ {j} : jobs[k].pc = "enqueueing" /\ jobs[k].event = e.id
      BY <1>1, <1>5, <2>2 DEF TaskInv, EventsGetTheirTask
    <3>2. QED BY <1>1, <1>2, <3>1 DEF Kept
  <2>3. QED BY <1>1, <2>1, <2>2
<1>6. QED BY <1>3, <1>4, <1>5 DEF TaskInv, EventsGetTheirTask

LEMMA TaskInit == Init => TaskInv
  BY DEF Init, TaskInv, HeldIds, EventsGetTheirTask

LEMMA TaskNext == TypeOK /\ TaskInv /\ [Next]_vars => TaskInv'
<1> SUFFICES ASSUME TypeOK, TaskInv, [Next]_vars PROVE TaskInv'
  OBVIOUS
<1> jobs \in [Jobs -> JobRec] /\ faults \in Nat
  BY DEF TypeOK
<1>1. ASSUME NEW j \in Jobs, EnqueueCompute(j) PROVE TaskInv'
  <2>1. /\ Kept(j) /\ jobs[j].pc = "new" /\ jobs'[j].pc = "queued"
        /\ UNCHANGED <<events, nextEvent, dispatched, faults>>
    BY <1>1 DEF EnqueueCompute, Kept, JobRec
  <2>2. QED BY <2>1, TaskQuiet
<1>2. ASSUME NEW j \in Jobs, ReadPrevious(j) \/ MissPrevious(j) PROVE TaskInv'
  <2>1. /\ Kept(j) /\ jobs[j].pc = "queued" /\ jobs'[j].pc = "read"
        /\ UNCHANGED <<events, nextEvent, dispatched>> /\ (faults' = 0 => faults = 0)
    BY <1>2 DEF ReadPrevious, MissPrevious, MayStart, Fault, Kept, JobRec
  <2>2. QED BY <2>1, TaskQuiet
<1>3. ASSUME NEW j \in Jobs, NEW tier \in Outcomes, RecordWindow(j, tier) PROVE TaskInv'
  <2>1. jobs[j].pc = "read" /\ UNCHANGED <<events, nextEvent, dispatched, faults>>
    BY <1>3 DEF RecordWindow
  <2>2. CASE Succeed(j)
    BY <2>1, <2>2, TaskEnd
  <2>3. CASE jobs' = [jobs EXCEPT ![j].pc = "matching", ![j].row = Len(rows) + 1]
    <3>1. Kept(j) /\ jobs'[j].pc = "matching"
      BY <2>3 DEF Kept, JobRec
    <3>2. QED BY <2>1, <3>1, TaskQuiet
  <2>4. QED BY <1>3, <2>2, <2>3 DEF RecordWindow
<1>4. ASSUME NEW j \in Jobs,
             SkipMissingProject(j) \/ CrashCompute(j) \/ ComputeFails(j) \/ MatchRulesFails(j)
      PROVE  TaskInv'
  <2>1. /\ Succeed(j) \/ GiveBack(j)
        /\ jobs[j].pc # "enqueueing" \/ faults' # 0
        /\ UNCHANGED <<events, nextEvent, dispatched>> /\ (faults' = 0 => faults = 0)
    BY <1>4 DEF SkipMissingProject, MayStart, CrashCompute, ComputeFails, MatchRulesFails, Fault
  <2>2. QED BY <2>1, TaskEnd
<1>5. ASSUME NEW j \in Jobs, MatchRules(j) PROVE TaskInv'
  BY <1>5, TaskLoop DEF MatchRules
<1>6. ASSUME NEW j \in Jobs, NEW m \in jobs[j].todo, InsertEventFails(j, m) PROVE TaskInv'
  <2>1. faults' = 0 => faults = 0
    BY <1>6 DEF InsertEventFails, Fault
  <2>2. QED BY <1>6, <2>1, TaskLoop DEF InsertEventFails
<1>7. ASSUME NEW j \in Jobs, EnqueueDispatch(j) PROVE TaskInv'
  BY <1>7, TaskLoop DEF EnqueueDispatch
<1>8. ASSUME NEW j \in Jobs, EnqueueDispatchFails(j) PROVE TaskInv'
  BY <1>8, TaskLoop DEF EnqueueDispatchFails, Fault
<1>9. CASE UNCHANGED <<jobs, nextEvent, dispatched, faults>> /\ events' \subseteq events
  BY <1>9 DEF TaskInv, HeldIds, EventsGetTheirTask
<1>10. Requests \/ (\E p \in Projects : RemoveProject(p)) \/ UNCHANGED vars
         => UNCHANGED <<jobs, nextEvent, dispatched, faults>> /\ events' \subseteq events
  BY DEF Requests, CreateRule, UpdateRule, DeleteRule, RemoveProject, vars
<1>11. QED BY <1>1, <1>2, <1>3, <1>4, <1>5, <1>6, <1>7, <1>8, <1>9, <1>10, TaskInsert
           DEF Next, Work, Faulty

\* As long as nothing fails, every event of alert_event has its dispatch:alert
\* task in the queue, or its own job is between the insert and the enqueue; and
\* no task carries an identifier that was never inserted.
THEOREM AlertsGetTheirTask == Spec => []EventsGetTheirTask
<1>1. TaskInv => EventsGetTheirTask
  BY DEF TaskInv
<1>2. QED BY <1>1, TaskInit, TaskNext, TypeCorrect, PTL DEF Spec

-----------------------------------------------------------------------------
(***************************************************************************)
(* One worker.  A computation that runs alone links its row to the one     *)
(* just before it in the series: nobody inserts between its read and its   *)
(* insert.  Only a read that failed leaves a row that follows nothing.     *)
(***************************************************************************)

FollowsSeries(i) == rows[i].basis = Before(i) \/ (faults # 0 /\ rows[i].basis = 0)

ReadsSeries(j) ==
  \/ jobs[j].basis = LatestRow(jobs[j].project, jobs[j].window, Len(rows))
  \/ (faults # 0 /\ jobs[j].basis = 0)

SerialInv ==
  workers = 1 =>
    /\ Active = {} \/ \E j \in Jobs : Active = {j}
    /\ \A j \in Jobs : jobs[j].pc \in Pending => jobs[j].basis = 0
    /\ \A j \in Jobs : jobs[j].pc = "read" => ReadsSeries(j)
    /\ \A i \in 1..Len(rows) : FollowsSeries(i)

Calm == workers = 1 /\ faults = 0 /\ ruleOps = 0

\* The rules that ask for the transition to row i.
Covering(i) == Matching(rows[i].project, rows[i].window, rows[Before(i)].tier, rows[i].tier)

\* The task that wrote row i is still to alert rule r of it, or to queue the event.
Serving(j, i, r) ==
  /\ jobs[j].row = i
  /\ \/ jobs[j].pc = "matching"
     \/ \E m \in jobs[j].todo : m.rule = r
     \/ /\ jobs[j].pc = "enqueueing"
        /\ \E ev \in events : ev.id = jobs[j].event /\ ev.row = i /\ ev.rule = r

SeriesInv ==
  Calm =>
    /\ \A j \in Jobs : \A m \in jobs[j].todo : rules[m.rule] # NoRule
    /\ \A i \in 1..Len(rows) : IsTransition(i) =>
         \A r \in Covering(i) : Alerted(i, r) \/ \E j \in Jobs : Serving(j, i, r)

\* The rows of a scope among the first n, and the newest of some.
RowsOf(p, w, n) == {i \in 1..n : rows[i].project = p /\ rows[i].window = w}
Newest(S) == IF S = {} THEN 0 ELSE CHOOSE i \in S : \A k \in S : k <= i

LEMMA LatestIsNewest == \A p, w, n : LatestRow(p, w, n) = Newest(RowsOf(p, w, n))
  BY DEF LatestRow, Newest, RowsOf

\* Growing leaves the newest of the first rows the newest of them.
LEMMA LatestStays ==
  ASSUME TypeOK, Grows
  PROVE  /\ \A p, w, n : n \in 0..Len(rows) => LatestRow(p, w, n)' = LatestRow(p, w, n)
         /\ \A i \in 1..Len(rows) : Before(i)' = Before(i)
<1>1. Len(rows) \in Nat
  BY DEF TypeOK
<1>2. ASSUME NEW p, NEW w, NEW n \in 0..Len(rows)
      PROVE  LatestRow(p, w, n)' = LatestRow(p, w, n)
  <2>1. \A i \in 1..n : rows'[i] = rows[i]
    BY <1>1 DEF Grows
  <2>2. RowsOf(p, w, n)' = RowsOf(p, w, n)
    BY <2>1 DEF RowsOf
  <2>3. LatestRow(p, w, n)' = Newest(RowsOf(p, w, n)')
    BY DEF LatestRow, Newest, RowsOf
  <2>4. QED BY <2>2, <2>3, LatestIsNewest
<1>3. ASSUME NEW i \in 1..Len(rows) PROVE Before(i)' = Before(i)
  <2>1. rows'[i] = rows[i] /\ i - 1 \in 0..Len(rows)
    BY <1>1 DEF Grows
  <2>2. PICK p, w : p = rows[i].project /\ w = rows[i].window
    OBVIOUS
  <2>3. Before(i)' = LatestRow(p, w, i - 1)' /\ Before(i) = LatestRow(p, w, i - 1)
    BY <2>1, <2>2 DEF Before, LatestRow
  <2>4. QED BY <1>2, <2>1, <2>3
<1>4. QED BY <1>2, <1>3

\* A computation starts on one worker only when none runs.
LEMMA StartsAlone ==
  ASSUME SerialInv, workers = 1, NEW j \in Jobs, MayStart(j)
  PROVE  Active = {}
<1>1. ASSUME NEW k \in Jobs, Active = {k} PROVE FALSE
  <2>1. Cardinality(Active) = 1
    BY <1>1, FS_Singleton
  <2>2. QED BY <2>1 DEF MayStart
<1>2. QED BY <1>1 DEF SerialInv

\* A task that does not move reads the series as before, while no row is added.
LEMMA StillReads ==
  ASSUME NEW k \in Jobs, ReadsSeries(k), jobs'[k] = jobs[k], UNCHANGED rows,
         faults' = 0 => faults = 0
  PROVE  ReadsSeries(k)'
<1>1. PICK p, w : p = jobs[k].project /\ w = jobs[k].window
  OBVIOUS
<1>2. LatestRow(p, w, Len(rows))' = LatestRow(p, w, Len(rows))
  BY DEF LatestRow
<1>3. (jobs[k].basis = LatestRow(jobs[k].project, jobs[k].window, Len(rows)))'
        <=> jobs'[k].basis = LatestRow(p, w, Len(rows))'
  BY <1>1 DEF LatestRow
<1>4. CASE jobs[k].basis = LatestRow(jobs[k].project, jobs[k].window, Len(rows))
  BY <1>1, <1>2, <1>3, <1>4 DEF ReadsSeries
<1>5. CASE faults # 0 /\ jobs[k].basis = 0
  BY <1>5 DEF ReadsSeries
<1>6. QED BY <1>4, <1>5 DEF ReadsSeries

LEMMA StillFollows ==
  ASSUME TypeOK, Grows, SerialInv, workers = 1, faults' = 0 => faults = 0
  PROVE  \A i \in 1..Len(rows) : FollowsSeries(i)'
<1>1. SUFFICES ASSUME NEW i \in 1..Len(rows) PROVE FollowsSeries(i)'
  OBVIOUS
<1>2. rows'[i] = rows[i] /\ Before(i)' = Before(i)
  BY LatestStays DEF Grows
<1>3. FollowsSeries(i)
  BY DEF SerialInv
<1>4. QED BY <1>2, <1>3 DEF FollowsSeries

\* A step of task j that adds no row and does not read the series.
LEMMA SerialQuiet ==
  ASSUME TypeOK, SerialInv, NEW j \in Jobs, Kept(j), UNCHANGED <<rows, workers>>,
         faults' = 0 => faults = 0, jobs'[j].pc # "read",
         jobs'[j].pc \in Pending => jobs'[j].basis = 0,
         jobs'[j].pc \in Running => jobs[j].pc \in Running
  PROVE  SerialInv'
<1> SUFFICES ASSUME workers = 1 PROVE SerialInv'
  BY DEF SerialInv
<1>1. Active' \subseteq Active
  BY DEF Active, Kept
<1>2. Active' = {} \/ \E k \in Jobs : Active' = {k}
  BY <1>1 DEF SerialInv
<1>3. \A k \in Jobs : jobs'[k].pc \in Pending => jobs'[k].basis = 0
  BY DEF SerialInv, Kept
<1>4. \A k \in Jobs : jobs'[k].pc = "read" => ReadsSeries(k)'
  BY StillReads DEF SerialInv, Kept
<1>5. Grows
  BY DEF TypeOK, Grows
<1>6. \A i \in 1..Len(rows') : FollowsSeries(i)'
  BY <1>5, StillFollows
<1>7. QED BY <1>2, <1>3, <1>4, <1>6 DEF SerialInv

\* The read of the previous row, and the read that fails.
LEMMA SerialRead ==
  ASSUME TypeOK, WitnessInv, SerialInv, NEW j \in Jobs, ReadPrevious(j) \/ MissPrevious(j)
  PROVE  SerialInv'
<1>1. /\ MayStart(j) /\ UNCHANGED <<rows, workers>> /\ (faults' = 0 => faults = 0)
      /\ jobs \in [Jobs -> JobRec] /\ jobs[j] \in JobRec /\ jobs[j].pc = "queued"
  BY DEF ReadPrevious, MissPrevious, MayStart, Fault, ruleVars, TypeOK
<1> SUFFICES ASSUME workers = 1 PROVE SerialInv'
  BY <1>1 DEF SerialInv
<1>2. Active = {}
  BY <1>1, StartsAlone
<1>3. Kept(j) /\ SameTarget(j) /\ jobs'[j].pc = "read"
  BY <1>1 DEF ReadPrevious, MissPrevious, Kept, SameTarget, JobRec
<1>4. Active' = {j}
  BY <1>2, <1>3 DEF Active, Kept, Running
<1>5. ReadsSeries(j)'
  <2>1. CASE ReadPrevious(j)
    <3>1. PICK p, w : p = jobs[j].project /\ w = jobs[j].window
      OBVIOUS
    <3>2. PICK i, previous : /\ i = LatestRow(p, w, Len(rows))
                             /\ jobs' = [jobs EXCEPT ![j].pc = "read", ![j].basis = i,
                                                     ![j].prev = previous]
      BY <2>1, <3>1 DEF ReadPrevious
    <3>3. jobs'[j].basis = i
      BY <1>1, <3>2 DEF JobRec
    <3>4. LatestRow(p, w, Len(rows))' = i
      <4>1. UNCHANGED rows
        BY <1>1
      <4>2. LatestRow(p, w, Len(rows))' = LatestRow(p, w, Len(rows))
        BY <4>1 DEF LatestRow
      <4>3. QED BY <3>2, <4>2
    <3>5. (LatestRow(jobs[j].project, jobs[j].window, Len(rows)))' = LatestRow(p, w, Len(rows))'
      BY <1>3, <3>1 DEF SameTarget, LatestRow
    <3>6. QED BY <3>3, <3>4, <3>5 DEF ReadsSeries
  <2>2. CASE MissPrevious(j)
    <3>1. jobs'[j].basis = jobs[j].basis /\ faults' = faults + 1 /\ faults \in Nat
      BY <1>1, <2>2 DEF MissPrevious, Fault, JobRec, TypeOK
    <3>2. jobs[j].basis = 0
      BY <1>1 DEF SerialInv, Pending
    <3>3. QED BY <3>1, <3>2 DEF ReadsSeries
  <2>3. QED BY <2>1, <2>2
<1>6. Grows
  BY <1>1 DEF TypeOK, Grows
<1>7. \A i \in 1..Len(rows') : FollowsSeries(i)'
  BY <1>1, <1>6, StillFollows
<1>8. \A k \in Jobs : jobs'[k].pc \in Pending => jobs'[k].basis = 0
  BY <1>3 DEF SerialInv, Kept, Pending
<1>9. \A k \in Jobs : jobs'[k].pc = "read" => ReadsSeries(k)'
  BY <1>1, <1>3, <1>5, StillReads DEF SerialInv, Kept
<1>10. QED BY <1>4, <1>7, <1>8, <1>9 DEF SerialInv

\* The insert: alone, the task read the newest row of the scope there still is.
LEMMA SerialRecord ==
  ASSUME TypeOK, SerialInv, NEW j \in Jobs, NEW tier \in Outcomes, RecordWindow(j, tier), Grows
  PROVE  SerialInv'
<1> SUFFICES ASSUME workers = 1, NEW n, n = Len(rows) + 1 PROVE SerialInv'
  BY DEF SerialInv, RecordWindow, ruleVars
<1>1. /\ rows \in Seq(Rows) /\ Len(rows) \in Nat
      /\ jobs \in [Jobs -> JobRec] /\ jobs[j] \in JobRec
      /\ jobs[j].pc = "read" /\ UNCHANGED <<workers, faults>>
  BY DEF TypeOK, RecordWindow, ruleVars
<1>2. /\ Len(rows') = n
      /\ rows'[n] = [project |-> jobs[j].project, window |-> jobs[j].window,
                     tier |-> tier, basis |-> jobs[j].basis]
  BY <1>1 DEF RecordWindow
<1>3. Active = {j}
  BY <1>1 DEF SerialInv, Active, Running
<1>4. /\ Kept(j) /\ jobs'[j].pc # "read"
      /\ jobs'[j].pc \in Pending => jobs'[j].basis = 0
  <2>1. CASE Succeed(j)
    BY <1>1, <2>1, EndEffect DEF Ended, Pending
  <2>2. CASE jobs' = [jobs EXCEPT ![j].pc = "matching", ![j].row = Len(rows) + 1]
    BY <1>1, <2>2 DEF Kept, JobRec, Pending
  <2>3. QED BY <2>1, <2>2 DEF RecordWindow
<1>5. Active' \subseteq {j} /\ \A k \in Jobs : jobs'[k].pc # "read"
  BY <1>3, <1>4 DEF Active, Kept, Running
<1>6. FollowsSeries(n)'
  <2>1. PICK p, w : p = jobs[j].project /\ w = jobs[j].window
    OBVIOUS
  <2>2. ReadsSeries(j)
    BY <1>1 DEF SerialInv
  <2>3. Before(n)' = LatestRow(p, w, n - 1)'
    BY <1>2, <2>1 DEF Before, LatestRow
  <2>4. LatestRow(p, w, n - 1)' = LatestRow(p, w, Len(rows))
    <3>1. n - 1 = Len(rows) /\ Len(rows) \in 0..Len(rows)
      BY <1>1
    <3>2. QED BY <3>1, LatestStays
  <2>5. QED BY <1>1, <1>2, <2>1, <2>2, <2>3, <2>4 DEF ReadsSeries, FollowsSeries
<1>7. \A i \in 1..Len(rows') : FollowsSeries(i)'
  <2>1. \A i \in 1..Len(rows') : i \in 1..Len(rows) \/ i = n
    BY <1>1, <1>2
  <2>2. QED BY <1>1, <1>6, <2>1, StillFollows
<1>8. \A k \in Jobs : jobs'[k].pc \in Pending => jobs'[k].basis = 0
  BY <1>4 DEF SerialInv, Kept
<1>9. QED BY <1>1, <1>5, <1>7, <1>8 DEF SerialInv

\* The end of an attempt, and the loop going on.
LEMMA SerialEnd ==
  ASSUME TypeOK, SerialInv, NEW j \in Jobs, Succeed(j) \/ GiveBack(j),
         UNCHANGED <<rows, workers>>, faults' = 0 => faults = 0
  PROVE  SerialInv'
<1>1. Kept(j) /\ Ended(j)
  BY EndEffect DEF TypeOK
<1>2. jobs'[j].pc # "read" /\ jobs'[j].pc \notin Running
  BY <1>1 DEF Ended, Pending, Running
<1>3. jobs'[j].pc \in Pending => jobs'[j].basis = 0
  BY <1>1 DEF Ended
<1>4. QED BY <1>1, <1>2, <1>3, SerialQuiet

LEMMA SerialLoop ==
  ASSUME TypeOK, SerialInv, NEW j \in Jobs, NEW todo, Continue(j, todo),
         jobs[j].pc \in Running, UNCHANGED <<rows, workers>>, faults' = 0 => faults = 0
  PROVE  SerialInv'
<1>1. Kept(j) /\ (Ended(j) \/ GoesOn(j, "inserting", todo))
  BY ContinueEffect DEF TypeOK
<1>2. CASE Ended(j)
  BY <1>1, <1>2, SerialQuiet DEF Ended, Pending
<1>3. CASE GoesOn(j, "inserting", todo)
  BY <1>1, <1>3, SerialQuiet DEF GoesOn, Pending
<1>4. QED BY <1>1, <1>2, <1>3

LEMMA SerialInit == Init => SerialInv
<1> SUFFICES ASSUME Init PROVE SerialInv
  OBVIOUS
<1>1. \A j \in Jobs : jobs[j].pc = "new" /\ jobs[j].basis = 0
  BY DEF Init
<1>2. Active = {} /\ Len(rows) = 0
  BY <1>1 DEF Init, Active, Running
<1>3. QED BY <1>1, <1>2 DEF SerialInv

LEMMA SerialNext == TypeOK /\ WitnessInv /\ SerialInv /\ [Next]_vars => SerialInv'
<1> SUFFICES ASSUME TypeOK, WitnessInv, SerialInv, [Next]_vars PROVE SerialInv'
  OBVIOUS
<1>0. Grows
  BY RowsGrow
<1> jobs \in [Jobs -> JobRec] /\ faults \in Nat
  BY DEF TypeOK
<1>1. ASSUME NEW j \in Jobs, EnqueueCompute(j) PROVE SerialInv'
  <2>1. /\ Kept(j) /\ jobs[j].pc = "new" /\ jobs'[j].pc = "queued"
        /\ jobs'[j].basis = jobs[j].basis /\ UNCHANGED <<rows, workers, faults>>
    BY <1>1 DEF EnqueueCompute, Kept, JobRec, ruleVars
  <2>2. jobs[j].basis = 0 \/ workers # 1
    BY <2>1 DEF SerialInv, Pending
  <2>3. CASE workers = 1
    BY <2>1, <2>2, <2>3, SerialQuiet DEF Running
  <2>4. CASE workers # 1
    BY <2>1, <2>4 DEF SerialInv
  <2>5. QED BY <2>3, <2>4
<1>2. ASSUME NEW j \in Jobs, ReadPrevious(j) \/ MissPrevious(j) PROVE SerialInv'
  BY <1>2, SerialRead
<1>3. ASSUME NEW j \in Jobs, NEW tier \in Outcomes, RecordWindow(j, tier) PROVE SerialInv'
  BY <1>0, <1>3, SerialRecord
<1>4. ASSUME NEW j \in Jobs,
             SkipMissingProject(j) \/ CrashCompute(j) \/ ComputeFails(j) \/ MatchRulesFails(j)
      PROVE  SerialInv'
  <2>1. /\ Succeed(j) \/ GiveBack(j)
        /\ UNCHANGED <<rows, workers>> /\ (faults' = 0 => faults = 0)
    BY <1>4 DEF SkipMissingProject, CrashCompute, ComputeFails, MatchRulesFails, Fault, ruleVars
  <2>2. QED BY <2>1, SerialEnd
<1>5. ASSUME NEW j \in Jobs, MatchRules(j) PROVE SerialInv'
  <2>1. jobs[j].pc \in Running /\ UNCHANGED <<rows, workers, faults>>
    BY <1>5 DEF MatchRules, Running, ruleVars
  <2>2. QED BY <1>5, <2>1, SerialLoop DEF MatchRules
<1>6. ASSUME NEW j \in Jobs, NEW m \in jobs[j].todo, InsertEvent(j, m) PROVE SerialInv'
  <2>1. /\ Kept(j) /\ jobs[j].pc = "inserting" /\ jobs'[j].pc = "enqueueing"
        /\ UNCHANGED <<rows, workers, faults>>
    BY <1>6 DEF InsertEvent, Kept, JobRec, ruleVars
  <2>2. QED BY <2>1, SerialQuiet DEF Running, Pending
<1>7. ASSUME NEW j \in Jobs, NEW m \in jobs[j].todo, InsertEventFails(j, m) PROVE SerialInv'
  <2>1. /\ jobs[j].pc \in Running /\ UNCHANGED <<rows, workers>> /\ (faults' = 0 => faults = 0)
        /\ Continue(j, jobs[j].todo \ {m})
    BY <1>7 DEF InsertEventFails, Fault, Running, ruleVars
  <2>2. QED BY <2>1, SerialLoop
<1>8. ASSUME NEW j \in Jobs, EnqueueDispatch(j) \/ EnqueueDispatchFails(j) PROVE SerialInv'
  <2>1. /\ jobs[j].pc \in Running /\ UNCHANGED <<rows, workers>> /\ (faults' = 0 => faults = 0)
        /\ Continue(j, jobs[j].todo)
    BY <1>8 DEF EnqueueDispatch, EnqueueDispatchFails, Fault, Running, ruleVars
  <2>2. QED BY <2>1, SerialLoop
<1>9. CASE UNCHANGED <<jobs, rows, workers, faults>>
  <2>1. Active' = Active
    BY <1>9 DEF Active
  <2>2. \A k \in Jobs : jobs'[k].pc = "read" /\ workers = 1 => ReadsSeries(k)'
    BY <1>9, StillReads DEF SerialInv
  <2>3. workers = 1 => \A i \in 1..Len(rows') : FollowsSeries(i)'
    BY <1>0, <1>9, StillFollows
  <2>4. QED BY <1>9, <2>1, <2>2, <2>3 DEF SerialInv
<1>10. Requests \/ (\E p \in Projects : RemoveProject(p)) \/ UNCHANGED vars
         => UNCHANGED <<jobs, rows, workers, faults>>
  BY DEF Requests, CreateRule, UpdateRule, DeleteRule, RemoveProject, vars
<1>11. QED BY <1>1, <1>2, <1>3, <1>4, <1>5, <1>6, <1>7, <1>8, <1>9, <1>10 DEF Next, Work, Faulty

\* With one worker an event reports a step of the stored series: crashes, retries
\* and failed reads leave gaps in what is reported, and never a step that was none.
THEOREM SerialAlertsAreSteps == Spec => []SerialStepsOfTheSeries
<1>1. WitnessInv /\ SerialInv => SerialStepsOfTheSeries
  BY DEF WitnessInv, Witnessed, SerialInv, FollowsSeries, SerialStepsOfTheSeries, StepsOfTheSeries
<1>2. QED BY <1>1, WitnessInit, WitnessNext, SerialInit, SerialNext, TypeCorrect, PTL DEF Spec

-----------------------------------------------------------------------------
(***************************************************************************)
(* No transition of the series is missed.  While nothing fails and nobody  *)
(* edits a rule, every rule that asks for a transition is with the task    *)
(* that wrote the row, until its event is in the queue.                    *)
(***************************************************************************)

\* The rows of before keep their transition and the rules that ask for it.
LEMMA SeriesKept ==
  ASSUME TypeOK, Grows, UNCHANGED rules, NEW i \in 1..Len(rows), Before(i) \in 0..Len(rows)
  PROVE  /\ IsTransition(i)' = IsTransition(i)
         /\ IsTransition(i) => Covering(i)' = Covering(i)
<1>1. rows'[i] = rows[i] /\ Before(i)' = Before(i)
  BY LatestStays DEF Grows
<1>2. Before(i) # 0 => rows'[Before(i)] = rows[Before(i)]
  BY DEF Grows, TypeOK
<1>3. IsTransition(i)' = IsTransition(i)
  BY <1>1, <1>2 DEF IsTransition
<1>4. ASSUME IsTransition(i) PROVE Covering(i)' = Covering(i)
  <2>1. rows'[Before(i)] = rows[Before(i)]
    BY <1>2, <1>4 DEF IsTransition
  <2>2. QED BY <1>1, <2>1 DEF Covering, Matching
<1>5. QED BY <1>3, <1>4

\* A row's predecessor is one of the rows.
LEMMA BeforeType ==
  ASSUME TypeOK
  PROVE  \A i \in 1..Len(rows) : Before(i) \in 0..Len(rows)
<1> SUFFICES ASSUME NEW i \in 1..Len(rows) PROVE Before(i) \in 0..Len(rows)
  OBVIOUS
<1>1. /\ Len(rows) \in Nat /\ rows[i].project \in Projects /\ rows[i].window \in Windows
      /\ i - 1 \in Nat
  <2>1. rows \in Seq(Rows) /\ Len(rows) \in Nat /\ rows[i] \in Rows
    BY DEF TypeOK
  <2>2. QED BY <2>1 DEF Rows
<1>2. PICK p \in Projects, w \in Windows : p = rows[i].project /\ w = rows[i].window
  BY <1>1
<1>3. LatestRow(p, w, i - 1) \in 0..(i - 1)
  BY <1>1, LatestRowIsNewest
<1>4. QED BY <1>1, <1>2, <1>3 DEF Before

\* What is left to do by task j after a step that adds no row: what it served, and
\* what it serves no more is in the queue.
LEMMA SeriesStep ==
  ASSUME TypeOK, SeriesInv, Calm, NEW j \in Jobs, Kept(j), UNCHANGED <<rows, rules>>,
         events \subseteq events', dispatched \subseteq dispatched',
         \A m \in jobs'[j].todo : rules[m.rule] # NoRule,
         \A i \in 1..Len(rows) : IsTransition(i) => \A r \in Covering(i) :
           Serving(j, i, r) => Alerted(i, r)' \/ Serving(j, i, r)'
  PROVE  SeriesInv'
<1>1. Grows
  BY DEF TypeOK, Grows
<1>2. \A i \in 1..Len(rows) : /\ IsTransition(i)' = IsTransition(i)
                              /\ IsTransition(i) => Covering(i)' = Covering(i)
  BY <1>1, BeforeType, SeriesKept
<1>3. \A i, r : Alerted(i, r) => Alerted(i, r)'
  BY DEF Alerted
<1>4. \A i, r : \A k \in Jobs : k # j /\ Serving(k, i, r) => Serving(k, i, r)'
  BY DEF Serving, Kept
<1>5. \A k \in Jobs : \A m \in jobs'[k].todo : rules[m.rule] # NoRule
  BY DEF SeriesInv, Kept
<1>6. ASSUME NEW i \in 1..Len(rows'), IsTransition(i)', NEW r \in Covering(i)'
      PROVE  Alerted(i, r)' \/ \E k \in Jobs : Serving(k, i, r)'
  <2>1. i \in 1..Len(rows) /\ IsTransition(i) /\ r \in Covering(i)
    BY <1>2, <1>6
  <2>2. Alerted(i, r) \/ \E k \in Jobs : Serving(k, i, r)
    BY <2>1 DEF SeriesInv
  <2>3. QED BY <1>3, <1>4, <2>1, <2>2
<1>7. QED BY <1>5, <1>6 DEF SeriesInv

\* Where nothing failed and no rule was edited, the step was the worker's.
LEMMA CalmStep ==
  ASSUME TypeOK, [Next]_vars, Calm'
  PROVE  /\ Calm /\ UNCHANGED rules
         /\ UNCHANGED vars \/ \E j \in Jobs : EnqueueCompute(j) \/ Work(j)
<1>1. faults \in Nat /\ ruleOps \in Nat /\ faults' = 0 /\ ruleOps' = 0 /\ workers' = 1
  BY DEF TypeOK, Calm
<1>2. ~Fault /\ ~RuleOp
  BY <1>1 DEF Fault, RuleOp
<1>3. \A j \in Jobs : ~Faulty(j)
  BY <1>2 DEF Faulty, CrashCompute, MissPrevious, ComputeFails, MatchRulesFails,
              EnqueueDispatchFails
<1>4. ~Requests /\ \A p \in Projects : ~RemoveProject(p)
  BY <1>2 DEF Requests, CreateRule, UpdateRule, DeleteRule, RemoveProject
<1>5. UNCHANGED vars \/ \E j \in Jobs : EnqueueCompute(j) \/ Work(j)
  BY <1>3, <1>4 DEF Next
<1>6. UNCHANGED <<rules, ruleOps, workers>>
  BY <1>5 DEF vars, ruleVars, EnqueueCompute, Work, SkipMissingProject, ReadPrevious, RecordWindow,
              MatchRules, InsertEvent, InsertEventFails, EnqueueDispatch
<1>7. UNCHANGED faults
  BY <1>2, <1>5 DEF vars, EnqueueCompute, Work, SkipMissingProject, ReadPrevious, RecordWindow,
              MatchRules, InsertEvent, InsertEventFails, EnqueueDispatch
<1>8. QED BY <1>1, <1>5, <1>6, <1>7 DEF Calm

\* A task that has written no row yet serves none.
LEMMA ServesNone ==
  ASSUME WitnessInv, NEW j \in Jobs, jobs[j].pc \notin FanningOut
  PROVE  jobs[j].row = 0 /\ jobs[j].todo = {}
  BY DEF WitnessInv, Linked, LinkedWrite

\* The loop: what it turns to it has still to do.
LEMMA SeriesLoop ==
  ASSUME TypeOK, SeriesInv, Calm, NEW j \in Jobs, NEW todo, Continue(j, todo),
         UNCHANGED <<rows, rules, events>>, dispatched \subseteq dispatched',
         \A m \in todo : rules[m.rule] # NoRule,
         \A i \in 1..Len(rows) : IsTransition(i) => \A r \in Covering(i) :
           Serving(j, i, r) => Alerted(i, r)' \/ \E m \in todo : m.rule = r
  PROVE  SeriesInv'
<1>1. Kept(j) /\ (Ended(j) \/ GoesOn(j, "inserting", todo))
  BY ContinueEffect DEF TypeOK
<1>2. CASE todo = {}
  <2>1. Ended(j)
    BY <1>2, EndEffect DEF Continue, TypeOK
  <2>2. \A m \in jobs'[j].todo : rules[m.rule] # NoRule
    BY <2>1 DEF Ended
  <2>3. QED BY <1>1, <1>2, <2>2, SeriesStep
<1>3. CASE todo # {}
  <2>1. GoesOn(j, "inserting", todo)
    <3>1. jobs' = [jobs EXCEPT ![j].pc = "inserting", ![j].todo = todo, ![j].event = 0]
      BY <1>3 DEF Continue
    <3>2. jobs[j] \in JobRec /\ jobs \in [Jobs -> JobRec]
      BY DEF TypeOK
    <3>3. QED BY <3>1, <3>2 DEF GoesOn, JobRec
  <2>2. \A m \in jobs'[j].todo : rules[m.rule] # NoRule
    BY <2>1 DEF GoesOn
  <2>3. \A i, r : jobs[j].row = i /\ (\E m \in todo : m.rule = r) => Serving(j, i, r)'
    BY <2>1 DEF GoesOn, Serving
  <2>4. \A i, r : Serving(j, i, r) => jobs[j].row = i
    BY DEF Serving
  <2>5. QED BY <1>1, <2>2, <2>3, <2>4, SeriesStep
<1>4. QED BY <1>2, <1>3

\* A transition is recorded by a task that goes on to the rules.
LEMMA SeriesRecord ==
  ASSUME TypeOK, WitnessInv, SerialInv, SeriesInv, Calm, NEW j \in Jobs, NEW tier \in Outcomes,
         RecordWindow(j, tier), Grows
  PROVE  SeriesInv'
<1> SUFFICES ASSUME NEW n, n = Len(rows) + 1 PROVE SeriesInv'
  OBVIOUS
<1>1. /\ rows \in Seq(Rows) /\ Len(rows) \in Nat
      /\ jobs \in [Jobs -> JobRec] /\ jobs[j] \in JobRec /\ jobs[j].pc = "read"
      /\ UNCHANGED <<rules, events, dispatched, workers, faults>>
  BY DEF TypeOK, RecordWindow, ruleVars
<1>2. /\ Len(rows') = n
      /\ rows'[n] = [project |-> jobs[j].project, window |-> jobs[j].window,
                     tier |-> tier, basis |-> jobs[j].basis]
  BY <1>1 DEF RecordWindow
<1>3. jobs[j].row = 0 /\ jobs[j].todo = {} /\ LinkedBasis(j)
  BY <1>1, ServesNone DEF FanningOut, WitnessInv, Linked
<1>4. Kept(j) /\ jobs'[j].todo = {}
  <2>1. CASE Succeed(j)
    BY <1>1, <2>1, EndEffect DEF Ended
  <2>2. CASE jobs' = [jobs EXCEPT ![j].pc = "matching", ![j].row = Len(rows) + 1]
    BY <1>1, <1>3, <2>2 DEF Kept, JobRec
  <2>3. QED BY <2>1, <2>2 DEF RecordWindow
<1>5. \A k \in Jobs : \A m \in jobs'[k].todo : rules'[m.rule] # NoRule
  BY <1>1, <1>4 DEF SeriesInv, Kept
<1>6. ASSUME IsTransition(n)' PROVE \A r : Serving(j, n, r)'
  <2>1. PICK b : b = Before(n)'
    OBVIOUS
  <2>2. b # 0 /\ IsChange(rows'[b].tier, tier)
    BY <1>2, <1>6, <2>1 DEF IsTransition
  <2>3. jobs[j].basis = b
    <3>1. SerialInv'
      BY <1>1, SerialRecord
    <3>2. FollowsSeries(n)' /\ faults' = 0
      BY <1>1, <1>2, <3>1 DEF SerialInv, Calm
    <3>3. QED BY <1>2, <2>1, <3>2 DEF FollowsSeries
  <2>4. rows'[b].tier = jobs[j].prev
    BY <1>3, <2>2, <2>3 DEF LinkedBasis, Grows
  <2>5. jobs' = [jobs EXCEPT ![j].pc = "matching", ![j].row = Len(rows) + 1]
    BY <2>2, <2>4 DEF RecordWindow
  <2>6. jobs'[j].pc = "matching" /\ jobs'[j].row = n
    BY <1>1, <2>5 DEF JobRec
  <2>7. QED BY <2>6 DEF Serving
<1>7. ASSUME NEW i \in 1..Len(rows), IsTransition(i)', NEW r \in Covering(i)'
      PROVE  Alerted(i, r)' \/ \E k \in Jobs : Serving(k, i, r)'
  <2>1. IsTransition(i) /\ r \in Covering(i)
    BY <1>1, <1>7, BeforeType, SeriesKept
  <2>2. Alerted(i, r) => Alerted(i, r)'
    BY <1>1 DEF Alerted
  <2>3. ASSUME NEW k \in Jobs, Serving(k, i, r) PROVE Serving(k, i, r)'
    <3>1. jobs'[k] = jobs[k]
      BY <1>3, <1>4, <2>3 DEF Serving, Kept
    <3>2. QED BY <1>1, <2>3, <3>1 DEF Serving
  <2>4. QED BY <2>1, <2>2, <2>3 DEF SeriesInv
<1>8. \A i \in 1..Len(rows') : i \in 1..Len(rows) \/ i = n
  BY <1>1, <1>2
<1>9. QED BY <1>5, <1>6, <1>7, <1>8 DEF SeriesInv

\* The rules found are those that ask for the transition.
LEMMA SeriesMatch ==
  ASSUME TypeOK, WitnessInv, SerialInv, SeriesInv, Calm, NEW j \in Jobs, MatchRules(j)
  PROVE  SeriesInv'
<1>1. PICK i, found, todo :
        /\ i = jobs[j].row
        /\ found = Matching(jobs[j].project, jobs[j].window, jobs[j].prev, rows[i].tier)
        /\ todo = {[rule |-> r, kind |-> rules[r].kind] : r \in found}
        /\ Continue(j, todo)
  BY DEF MatchRules
<1>2. UNCHANGED <<rows, rules, events, dispatched>> /\ jobs[j].pc = "matching"
  BY DEF MatchRules, ruleVars
<1>3. /\ i \in 1..Len(rows) /\ rows[i].basis = jobs[j].basis
      /\ rows[i].project = jobs[j].project /\ rows[i].window = jobs[j].window
      /\ IsChange(jobs[j].prev, rows[i].tier) /\ LinkedBasis(j)
  BY <1>1, <1>2 DEF WitnessInv, Linked, LinkedWrite, FanningOut
<1>4. rows[i].basis = Before(i)
  BY <1>3 DEF SerialInv, FollowsSeries, Calm
<1>5. Before(i) # 0 /\ rows[Before(i)].tier = jobs[j].prev
  BY <1>3, <1>4, NoTierNoChange DEF LinkedBasis
<1>6. found = Covering(i)
  BY <1>1, <1>3, <1>5 DEF Covering
<1>7. \A r \in found : rules[r] # NoRule
  BY <1>1 DEF Matching
<1>8. \A m \in todo : rules[m.rule] # NoRule
  BY <1>1, <1>7
<1>9. ASSUME NEW r \in found PROVE \E m \in todo : m.rule = r
  <2>1. [rule |-> r, kind |-> rules[r].kind] \in todo
    BY <1>1
  <2>2. QED BY <2>1
<1>10. \A k \in 1..Len(rows) : \A r \in Covering(k) : Serving(j, k, r) => \E m \in todo : m.rule = r
  BY <1>1, <1>6, <1>9 DEF Serving
<1>11. QED BY <1>1, <1>2, <1>8, <1>10, SeriesLoop

\* The insert of an event takes the rule over into the task's event.
LEMMA SeriesInsert ==
  ASSUME TypeOK, WitnessInv, SeriesInv, Calm, NEW j \in Jobs, NEW m \in jobs[j].todo,
         InsertEvent(j, m)
  PROVE  SeriesInv'
<1>1. /\ jobs \in [Jobs -> JobRec] /\ jobs[j] \in JobRec
      /\ jobs[j].pc = "inserting" /\ UNCHANGED <<rows, rules, dispatched>>
  BY DEF TypeOK, InsertEvent, ruleVars
<1>2. /\ Kept(j) /\ jobs'[j].pc = "enqueueing" /\ jobs'[j].event = nextEvent
      /\ jobs'[j].todo = jobs[j].todo \ {m} /\ jobs'[j].row = jobs[j].row
  BY <1>1 DEF InsertEvent, Kept, JobRec
<1>3. PICK ev : /\ ev.id = nextEvent /\ ev.row = jobs[j].row /\ ev.rule = m.rule
                /\ events' = events \cup {ev}
  BY DEF InsertEvent
<1>4. \A k \in jobs'[j].todo : rules[k.rule] # NoRule
  BY <1>2 DEF SeriesInv
<1>5. ASSUME NEW i, NEW r, Serving(j, i, r) PROVE Serving(j, i, r)'
  <2>1. jobs[j].row = i /\ \E k \in jobs[j].todo : k.rule = r
    BY <1>1, <1>5 DEF Serving
  <2>2. CASE m.rule = r
    BY <1>2, <1>3, <2>1, <2>2 DEF Serving
  <2>3. CASE m.rule # r
    BY <1>2, <2>1, <2>3 DEF Serving
  <2>4. QED BY <2>2, <2>3
<1>6. QED BY <1>1, <1>2, <1>3, <1>4, <1>5, SeriesStep

LEMMA SeriesInit == Init => SeriesInv
<1> SUFFICES ASSUME Init PROVE SeriesInv
  OBVIOUS
<1>1. \A j \in Jobs : jobs[j].todo = {}
  BY DEF Init
<1>2. Len(rows) = 0
  BY DEF Init
<1>3. QED BY <1>1, <1>2 DEF SeriesInv

LEMMA SeriesNext ==
  TypeOK /\ WitnessInv /\ SerialInv /\ SeriesInv /\ [Next]_vars => SeriesInv'
<1> SUFFICES ASSUME TypeOK, WitnessInv, SerialInv, SeriesInv, [Next]_vars, Calm' PROVE SeriesInv'
  BY DEF SeriesInv
<1>0. Grows
  BY RowsGrow
<1> Calm /\ UNCHANGED rules /\ jobs \in [Jobs -> JobRec]
  BY CalmStep DEF TypeOK
<1>1. ASSUME NEW j \in Jobs, EnqueueCompute(j) \/ ReadPrevious(j) PROVE SeriesInv'
  <2>1. jobs[j].pc \notin FanningOut /\ UNCHANGED <<rows, events, dispatched>>
    BY <1>1 DEF EnqueueCompute, ReadPrevious, MayStart, FanningOut
  <2>2. Kept(j) /\ jobs'[j].todo = jobs[j].todo
    BY <1>1 DEF EnqueueCompute, ReadPrevious, Kept, JobRec
  <2>3. jobs[j].row = 0 /\ jobs[j].todo = {}
    BY <2>1, ServesNone
  <2>4. \A i \in 1..Len(rows) : \A r : ~Serving(j, i, r)
    BY <2>3 DEF Serving
  <2>5. \A m \in jobs'[j].todo : rules[m.rule] # NoRule
    BY <2>2, <2>3
  <2>6. QED BY <2>1, <2>2, <2>4, <2>5, SeriesStep
<1>2. ASSUME NEW j \in Jobs, SkipMissingProject(j) PROVE SeriesInv'
  <2>1. jobs[j].pc \notin FanningOut /\ UNCHANGED <<rows, events, dispatched>>
    BY <1>2 DEF SkipMissingProject, MayStart, FanningOut
  <2>2. Kept(j) /\ jobs'[j].todo = {}
    BY <1>2, EndEffect DEF SkipMissingProject, Ended
  <2>3. \A i \in 1..Len(rows) : \A r : ~Serving(j, i, r)
    BY <2>1, ServesNone DEF Serving
  <2>4. \A m \in jobs'[j].todo : rules[m.rule] # NoRule
    BY <2>2
  <2>5. QED BY <2>1, <2>2, <2>3, <2>4, SeriesStep
<1>3. ASSUME NEW j \in Jobs, NEW tier \in Outcomes, RecordWindow(j, tier) PROVE SeriesInv'
  BY <1>0, <1>3, SeriesRecord
<1>4. ASSUME NEW j \in Jobs, MatchRules(j) PROVE SeriesInv'
  BY <1>4, SeriesMatch
<1>5. ASSUME NEW j \in Jobs, NEW m \in jobs[j].todo, InsertEvent(j, m) PROVE SeriesInv'
  BY <1>5, SeriesInsert
<1>6. ASSUME NEW j \in Jobs, NEW m \in jobs[j].todo, InsertEventFails(j, m) PROVE FALSE
  <2>1. rules[m.rule] # NoRule
    BY DEF SeriesInv
  <2>2. faults' = faults + 1
    BY <1>6, <2>1 DEF InsertEventFails, Fault
  <2>3. QED BY <2>2 DEF Calm
<1>7. ASSUME NEW j \in Jobs, EnqueueDispatch(j) PROVE SeriesInv'
  <2>1. /\ Continue(j, jobs[j].todo) /\ jobs[j].pc = "enqueueing"
        /\ UNCHANGED <<rows, events>> /\ dispatched' = dispatched \cup {jobs[j].event}
    BY <1>7 DEF EnqueueDispatch
  <2>2. \A i, r : Serving(j, i, r) => Alerted(i, r)' \/ \E m \in jobs[j].todo : m.rule = r
    BY <2>1 DEF Serving, Alerted
  <2>3. \A m \in jobs[j].todo : rules[m.rule] # NoRule
    BY DEF SeriesInv
  <2>4. QED BY <2>1, <2>2, <2>3, SeriesLoop
<1>8. CASE UNCHANGED vars
  <2>1. UNCHANGED <<rows, rules, events, dispatched, jobs>>
    BY <1>8 DEF vars, ruleVars
  <2>2. ASSUME NEW i \in 1..Len(rows), IsTransition(i)', NEW r \in Covering(i)'
        PROVE  Alerted(i, r)' \/ \E k \in Jobs : Serving(k, i, r)'
    <3>1. IsTransition(i) /\ r \in Covering(i)
      BY <1>0, <2>2, BeforeType, SeriesKept
    <3>2. QED BY <2>1, <3>1 DEF SeriesInv, Alerted, Serving
  <2>3. QED BY <2>1, <2>2 DEF SeriesInv
<1>9. UNCHANGED vars \/ \E j \in Jobs : EnqueueCompute(j) \/ Work(j)
  BY CalmStep
<1>10. QED BY <1>1, <1>2, <1>3, <1>4, <1>5, <1>6, <1>7, <1>8, <1>9 DEF Work

\* With one worker, and as long as nothing fails and no rule is edited, no change of
\* tier between two rows of a scope goes by without an event, and its dispatch task,
\* for every rule that asks for it.
THEOREM EveryTransitionAlerts == Spec => []TransitionsAlerted
<1>1. SeriesInv => TransitionsAlerted
  <2> SUFFICES ASSUME SeriesInv, Calm, NEW i \in 1..Len(rows), IsTransition(i), FannedOut(i),
                      NEW r \in Covering(i)
               PROVE  Alerted(i, r)
    BY DEF TransitionsAlerted, Calm, Covering
  <2>1. \A j \in Jobs : ~Serving(j, i, r)
    BY DEF FannedOut, Serving
  <2>2. QED BY <2>1 DEF SeriesInv
<1>2. QED BY <1>1, WitnessInit, WitnessNext, SerialInit, SerialNext, SeriesInit, SeriesNext,
             TypeCorrect, PTL DEF Spec

(***************************************************************************)
(*                     Part 2.  The pipeline                                *)
(***************************************************************************)

Step == PipelineNext /\ faults' + dispatchFaults' <= MaxFaults

-----------------------------------------------------------------------------
(* Both components do only what their own specifications allow.             *)

LEMMA DetectionSteps == [Step]_pipelineVars => [Next]_vars
<1> SUFFICES ASSUME [Step]_pipelineVars PROVE Next \/ UNCHANGED vars
  OBVIOUS
<1>1. ASSUME NEW j \in Jobs, WorkOn(j) PROVE Next
  <2>1. Work(j)
    BY <1>1 DEF WorkOn, Compute, StoreEvent, SubmitTask, Work
  <2>2. QED BY <2>1 DEF Next
<1>2. ASSUME NEW j \in Jobs, EnqueueCompute(j) PROVE Next
  BY <1>2 DEF Next
<1>3. ASSUME NEW j \in Jobs, ComputeFaulty(j) \/ SubmitTaskFails(j) PROVE Next
  <2>1. Faulty(j)
    BY <1>3 DEF ComputeFaulty, SubmitTaskFails, Faulty
  <2>2. QED BY <2>1 DEF Next
<1>4. CASE Request
  BY <1>4 DEF Request, Requests, Next
<1>5. ASSUME NEW r \in RuleIds, RemoveRule(r) PROVE Next
  BY <1>5 DEF RemoveRule, Requests, Next
<1>6. ASSUME NEW e \in EventIds, UNCHANGED vars PROVE UNCHANGED vars
  BY <1>6
<1>7. CASE UNCHANGED pipelineVars
  BY <1>7 DEF pipelineVars
<1>8. QED BY <1>1, <1>2, <1>3, <1>4, <1>5, <1>6, <1>7 DEF Step, PipelineNext

\* Seen from its own tables, the pipeline's detection is AlertDetection: what
\* holds of every behaviour of the one holds of the other.
THEOREM DetectionWithin == PipelineSpec => Spec
<1>1. PipelineInit => Init
  BY DEF PipelineInit
<1>2. QED BY <1>1, DetectionSteps, PTL DEF PipelineSpec, Spec, Step

-----------------------------------------------------------------------------
(* The variables of the delivery keep their types.                          *)

TaskRec == [state : {"none", "queued", "active", "done", "archived"}, retried : 0..DispatchRetry]

LogRec == [posts : Nat, late : Nat, taken : Nat, putBack : Nat]

\* How an attempt ends, seen from its event and from the others.
LEMMA FinishEnds ==
  ASSUME Dispatch!TypeOK, NEW e \in EventIds, NEW s \in {"queued", "done", "archived"},
         NEW n \in 0..DispatchRetry, Dispatch!Finish(e, s, n)
  PROVE  /\ task' \in [EventIds -> TaskRec]
         /\ attempt' \in [EventIds -> {"idle", "loaded", "posted", "marked"}]
         /\ answer' \in [EventIds -> Dispatch!Answers \cup {"none"}]
         /\ task'[e].state = s /\ attempt'[e] = "idle" /\ answer'[e] = "none"
         /\ \A d \in EventIds \ {e} :
              task'[d] = task[d] /\ attempt'[d] = attempt[d] /\ answer'[d] = answer[d]
  BY DEF Dispatch!TypeOK, Dispatch!Finish, TaskRec

LEMMA RetryEnds ==
  ASSUME Dispatch!TypeOK, NEW e \in EventIds, Dispatch!Retry(e)
  PROVE  /\ task' \in [EventIds -> TaskRec]
         /\ attempt' \in [EventIds -> {"idle", "loaded", "posted", "marked"}]
         /\ answer' \in [EventIds -> Dispatch!Answers \cup {"none"}]
         /\ task'[e].state \in {"queued", "archived"}
         /\ attempt'[e] = "idle" /\ answer'[e] = "none"
         /\ \A d \in EventIds \ {e} :
              task'[d] = task[d] /\ attempt'[d] = attempt[d] /\ answer'[d] = answer[d]
<1>1. task[e].retried \in 0..DispatchRetry
  BY DEF Dispatch!TypeOK
<1>2. task[e].retried < DispatchRetry => task[e].retried + 1 \in 0..DispatchRetry
  BY <1>1, PipelineAssumption DEF Dispatch!DispatchAssumption
<1>3. \/ \E n \in 0..DispatchRetry : Dispatch!Finish(e, "queued", n)
      \/ Dispatch!Finish(e, "archived", task[e].retried)
  BY <1>1, <1>2 DEF Dispatch!Retry
<1>4. CASE \E n \in 0..DispatchRetry : Dispatch!Finish(e, "queued", n)
  BY <1>4, FinishEnds
<1>5. CASE Dispatch!Finish(e, "archived", task[e].retried)
  BY <1>1, <1>5, FinishEnds
<1>6. QED BY <1>3, <1>4, <1>5

\* What a POST adds to the history.
LEMMA PostLogs ==
  ASSUME Dispatch!TypeOK, NEW e \in EventIds, NEW a \in Dispatch!Answers, Dispatch!Post(e, a)
  PROVE  /\ log' \in [EventIds -> LogRec]
         /\ \A d \in EventIds \ {e} : log'[d] = log[d]
         /\ log'[e].late >= log[e].late
         /\ status[e] # "removed" => log'[e].late = log[e].late
         /\ log'[e].taken >= log[e].taken
         /\ a = "accepted" => log'[e].taken > 0
<1>1. PICK taken \in {0, 1} :
        /\ a = "accepted" => taken = 1
        /\ LET sent == IF a = "malformed" THEN 0 ELSE 1 IN
           log' = [log EXCEPT ![e].posts = @ + sent,
                              ![e].late = @ + IF status[e] = "removed" THEN sent ELSE 0,
                              ![e].taken = @ + taken]
  BY DEF Dispatch!Post
<1>2. PICK sent \in {0, 1} : sent = IF a = "malformed" THEN 0 ELSE 1
  OBVIOUS
<1>3. PICK late \in {0, 1} : late = IF status[e] = "removed" THEN sent ELSE 0
  OBVIOUS
<1>4. PICK old \in LogRec : old = log[e]
  BY DEF Dispatch!TypeOK, LogRec
<1>5. PICK new \in LogRec : /\ new.posts = old.posts + sent /\ new.late = old.late + late
                           /\ new.taken = old.taken + taken /\ new.putBack = old.putBack
  <2>1. [posts |-> old.posts + sent, late |-> old.late + late,
         taken |-> old.taken + taken, putBack |-> old.putBack] \in LogRec
    BY <1>4 DEF LogRec
  <2>2. QED BY <2>1
<1>6. log \in [EventIds -> LogRec]
  BY DEF Dispatch!TypeOK, LogRec
<1>7. new = [old EXCEPT !.posts = @ + sent, !.late = @ + late, !.taken = @ + taken]
  BY <1>4, <1>5 DEF LogRec
<1>8. log' = [log EXCEPT ![e] = new]
  BY <1>1, <1>2, <1>3, <1>4, <1>6, <1>7
<1>9. /\ log'[e] = new /\ log' \in [EventIds -> LogRec]
      /\ \A d \in EventIds \ {e} : log'[d] = log[d]
  BY <1>5, <1>6, <1>8
<1>10. old.late \in Nat /\ old.taken \in Nat
  BY <1>4 DEF LogRec
<1>11. QED BY <1>1, <1>3, <1>4, <1>5, <1>9, <1>10

LEMMA FaultCounts ==
  ASSUME Dispatch!TypeOK, Dispatch!Fault
  PROVE  dispatchFaults' \in 0..MaxFaults /\ dispatchFaults' # 0
  BY PipelineAssumption DEF Dispatch!DispatchAssumption, Dispatch!TypeOK, Dispatch!Fault

\* A step of the delivery of one event keeps the types and leaves the others alone.
Alone(e) ==
  \A d \in EventIds \ {e} :
    /\ status'[d] = status[d] /\ task'[d] = task[d] /\ attempt'[d] = attempt[d]
    /\ answer'[d] = answer[d] /\ log'[d] = log[d]

LEMMA WorkAlone ==
  ASSUME Dispatch!TypeOK, NEW e \in EventIds, Dispatch!Work(e)
  PROVE  Dispatch!TypeOK' /\ Alone(e) /\ UNCHANGED dispatchFaults
<1>1. CASE Dispatch!DropRemoved(e)
  <2>1. task[e].retried \in 0..DispatchRetry
    BY DEF Dispatch!TypeOK
  <2>2. Dispatch!Finish(e, "done", task[e].retried) /\ UNCHANGED <<status, deliveredAt, lastError, log, dispatchFaults>>
    BY <1>1 DEF Dispatch!DropRemoved, Dispatch!rowVars
  <2>3. QED BY <2>1, <2>2, FinishEnds DEF Dispatch!TypeOK, TaskRec, Alone
<1>2. CASE Dispatch!Load(e)
  BY <1>2 DEF Dispatch!Load, Dispatch!TypeOK, Dispatch!rowVars, Alone
<1>3. ASSUME NEW a \in Dispatch!Answers, Dispatch!Post(e, a)
      PROVE  Dispatch!TypeOK' /\ Alone(e) /\ UNCHANGED dispatchFaults
  <2>1. log' \in [EventIds -> LogRec] /\ \A d \in EventIds \ {e} : log'[d] = log[d]
    BY <1>3, PostLogs
  <2>2. QED BY <1>3, <2>1
            DEF Dispatch!Post, Dispatch!TypeOK, LogRec, Dispatch!rowVars, Alone
<1>4. CASE Dispatch!Mark(e)
  BY <1>4 DEF Dispatch!Mark, Dispatch!TypeOK, Dispatch!Stored, Dispatch!rowVars, Alone
<1>5. CASE Dispatch!Settle(e)
  <2>1. task[e].retried \in 0..DispatchRetry
    BY DEF Dispatch!TypeOK
  <2>2. \/ Dispatch!Finish(e, "done", task[e].retried)
        \/ Dispatch!Finish(e, "archived", task[e].retried)
        \/ Dispatch!Retry(e)
    BY <1>5 DEF Dispatch!Settle
  <2>3. UNCHANGED <<status, deliveredAt, lastError, log, dispatchFaults>>
    BY <1>5 DEF Dispatch!Settle, Dispatch!rowVars
  <2>4. QED BY <2>1, <2>2, <2>3, FinishEnds, RetryEnds DEF Dispatch!TypeOK, TaskRec, Alone
<1>6. QED BY <1>1, <1>2, <1>3, <1>4, <1>5 DEF Dispatch!Work

LEMMA FaultyAlone ==
  ASSUME Dispatch!TypeOK, NEW e \in EventIds, Dispatch!Faulty(e)
  PROVE  /\ Dispatch!TypeOK' /\ Alone(e) /\ dispatchFaults' # 0
         /\ status' = status
         /\ \A d \in EventIds : log'[d].late = log[d].late /\ log'[d].taken = log[d].taken
<1>1. dispatchFaults' \in 0..MaxFaults /\ dispatchFaults' # 0
  BY FaultCounts
     DEF Dispatch!Faulty, Dispatch!LoadFails, Dispatch!MarkFails, Dispatch!Crash, Dispatch!PutBack
<1>2. CASE Dispatch!LoadFails(e) \/ Dispatch!Crash(e)
  <2>1. Dispatch!Retry(e) /\ UNCHANGED <<status, deliveredAt, lastError, log>>
    BY <1>2 DEF Dispatch!LoadFails, Dispatch!Crash, Dispatch!rowVars
  <2>2. QED BY <1>1, <2>1, RetryEnds DEF Dispatch!TypeOK, TaskRec, Alone
<1>3. CASE Dispatch!MarkFails(e)
  <2>1. UNCHANGED <<status, deliveredAt, lastError, log>>
    BY <1>3 DEF Dispatch!MarkFails, Dispatch!rowVars
  <2>2. CASE Dispatch!Retry(e)
    BY <1>1, <2>1, <2>2, RetryEnds DEF Dispatch!TypeOK, TaskRec, Alone
  <2>3. CASE attempt' = [attempt EXCEPT ![e] = "marked"] /\ UNCHANGED <<task, answer>>
    BY <1>1, <2>1, <2>3 DEF Dispatch!TypeOK, Alone
  <2>4. QED BY <1>3, <2>2, <2>3 DEF Dispatch!MarkFails
<1>4. CASE Dispatch!PutBack(e)
  <2>1. task[e].retried \in 0..DispatchRetry
    BY DEF Dispatch!TypeOK
  <2>2. /\ log' \in [EventIds -> LogRec]
        /\ \A d \in EventIds \ {e} : log'[d] = log[d]
        /\ \A d \in EventIds : log'[d].late = log[d].late /\ log'[d].taken = log[d].taken
    BY <1>4 DEF Dispatch!PutBack, Dispatch!TypeOK, LogRec
  <2>3. Dispatch!Finish(e, "queued", task[e].retried) /\ UNCHANGED <<status, deliveredAt, lastError>>
    BY <1>4 DEF Dispatch!PutBack, Dispatch!rowVars
  <2>4. QED BY <1>1, <2>1, <2>2, <2>3, FinishEnds DEF Dispatch!TypeOK, TaskRec, LogRec, Alone
<1>5. QED BY <1>2, <1>3, <1>4 DEF Dispatch!Faulty

-----------------------------------------------------------------------------
(***************************************************************************)
(* What the row, the task and the running attempt of one event say of each *)
(* other.  Deliveries of other events leave it alone.                      *)
(***************************************************************************)

Attempting(e) ==
  /\ task[e].state = "active" <=> attempt[e] # "idle"
  /\ task[e].state # "none" => status[e] # "none"

Truthful(e) ==
  /\ answer[e] = "accepted" => log[e].taken > 0
  /\ status[e] = "delivered" => log[e].taken > 0

\* Without failures the row shows what came of the last attempt.
Shown(e) ==
  dispatchFaults = 0 =>
    /\ attempt[e] = "marked" =>
         status[e] \in {"removed", IF answer[e] = "accepted" THEN "delivered" ELSE "failed"}
    /\ task[e].state = "done" => status[e] \in {"delivered", "removed"}
    /\ task[e].state = "archived" => status[e] \in {"failed", "removed"}

DeliveryOf(e) == Attempting(e) /\ Truthful(e) /\ Shown(e)

\* A call after the deletion was made, or may still be.
Exposed(e) == log[e].late > 0 \/ (status[e] = "removed" /\ attempt[e] # "idle")

\* A step of the delivery leaves the event its row and its task; late calls only
\* come of the attempt that ran when the event was deleted.
LEMMA WorkKeeps ==
  ASSUME Dispatch!TypeOK, NEW e \in EventIds, Dispatch!Work(e), DeliveryOf(e)
  PROVE  /\ DeliveryOf(e)'
         /\ Exposed(e)' => Exposed(e)
         /\ status'[e] \in Dispatch!Stored <=> status[e] \in Dispatch!Stored
         /\ status'[e] # "none" <=> status[e] # "none"
         /\ task'[e].state # "none" /\ task[e].state # "none"
         /\ task'[e].state = "active" => task[e].state \in {"queued", "active"}
<1>0. /\ task[e].retried \in 0..DispatchRetry
      /\ log[e].late \in Nat /\ log[e].taken \in Nat
  BY DEF Dispatch!TypeOK
<1>1. CASE Dispatch!DropRemoved(e)
  <2>1. /\ task[e].state = "queued" /\ status[e] = "removed" /\ UNCHANGED <<status, log>>
        /\ Dispatch!Finish(e, "done", task[e].retried)
    BY <1>1 DEF Dispatch!DropRemoved, Dispatch!rowVars
  <2>2. task'[e].state = "done" /\ attempt'[e] = "idle" /\ answer'[e] = "none"
    BY <1>0, <2>1, FinishEnds
  <2>3. QED BY <2>1, <2>2 DEF DeliveryOf, Attempting, Truthful, Shown, Exposed
<1>2. CASE Dispatch!Load(e)
  <2>1. /\ task[e].state = "queued" /\ status[e] \in Dispatch!Stored
        /\ UNCHANGED <<status, answer, log>>
    BY <1>2 DEF Dispatch!Load, Dispatch!rowVars
  <2>2. task'[e].state = "active" /\ attempt'[e] = "loaded"
    BY <1>2 DEF Dispatch!Load, Dispatch!TypeOK
  <2>3. QED BY <2>1, <2>2
            DEF DeliveryOf, Attempting, Truthful, Shown, Exposed, Dispatch!Stored
<1>3. ASSUME NEW a \in Dispatch!Answers, Dispatch!Post(e, a)
      PROVE  /\ DeliveryOf(e)'
             /\ Exposed(e)' => Exposed(e)
             /\ UNCHANGED <<status, task>> /\ task[e].state = "active"
  <2>1. attempt[e] = "loaded" /\ UNCHANGED <<status, task, dispatchFaults>>
    BY <1>3 DEF Dispatch!Post, Dispatch!rowVars
  <2>2. attempt'[e] = "posted" /\ answer'[e] = a
    BY <1>3 DEF Dispatch!Post, Dispatch!TypeOK
  <2>3. /\ status[e] # "removed" => log'[e].late = log[e].late
        /\ log'[e].taken >= log[e].taken
        /\ a = "accepted" => log'[e].taken > 0
        /\ log'[e].taken \in Nat
    BY <1>3, PostLogs DEF LogRec
  <2>4. Attempting(e)' /\ task[e].state = "active"
    BY <2>1, <2>2 DEF DeliveryOf, Attempting
  <2>5. Truthful(e)' /\ Shown(e)'
    BY <1>0, <2>1, <2>2, <2>3 DEF DeliveryOf, Truthful, Shown
  <2>6. Exposed(e)' => Exposed(e)
    BY <1>0, <2>1, <2>3 DEF Exposed
  <2>7. QED BY <2>1, <2>4, <2>5, <2>6 DEF DeliveryOf
<1>4. CASE Dispatch!Mark(e)
  <2>1. attempt[e] = "posted" /\ UNCHANGED <<task, answer, log, dispatchFaults>>
    BY <1>4 DEF Dispatch!Mark
  <2>2. attempt'[e] = "marked"
    BY <1>4 DEF Dispatch!Mark, Dispatch!TypeOK
  <2>3. status'[e] = IF status[e] = "removed" THEN "removed"
                     ELSE IF answer[e] = "accepted" THEN "delivered" ELSE "failed"
    BY <1>4 DEF Dispatch!Mark, Dispatch!TypeOK, Dispatch!rowVars
  <2>4. task[e].state = "active" /\ status[e] # "none"
    BY <2>1 DEF DeliveryOf, Attempting
  <2>5. Attempting(e)' /\ Truthful(e)'
    BY <2>1, <2>2, <2>3, <2>4 DEF DeliveryOf, Attempting, Truthful
  <2>6. Shown(e)'
    BY <2>1, <2>2, <2>3, <2>4 DEF DeliveryOf, Shown
  <2>7. status'[e] \in Dispatch!Stored <=> status[e] \in Dispatch!Stored
    BY <2>3, <2>4 DEF Dispatch!TypeOK, Dispatch!Stored
  <2>8. QED BY <2>1, <2>2, <2>3, <2>4, <2>5, <2>6, <2>7 DEF DeliveryOf, Exposed
<1>5. CASE Dispatch!Settle(e)
  <2>1. attempt[e] = "marked" /\ UNCHANGED <<status, log, dispatchFaults>>
    BY <1>5 DEF Dispatch!Settle, Dispatch!rowVars
  <2>2. /\ answer[e] = "accepted" => Dispatch!Finish(e, "done", task[e].retried)
        /\ answer[e] # "accepted" =>
             Dispatch!Finish(e, "archived", task[e].retried) \/ Dispatch!Retry(e)
    BY <1>5 DEF Dispatch!Settle, Dispatch!Verdict
  <2>3. /\ attempt'[e] = "idle" /\ answer'[e] = "none"
        /\ task'[e].state \in IF answer[e] = "accepted" THEN {"done"} ELSE {"queued", "archived"}
    BY <1>0, <2>2, FinishEnds, RetryEnds
  <2>4. QED BY <2>1, <2>3 DEF DeliveryOf, Attempting, Truthful, Shown, Exposed
<1>6. QED BY <1>1, <1>2, <1>3, <1>4, <1>5 DEF Dispatch!Work

LEMMA FaultyKeeps ==
  ASSUME Dispatch!TypeOK, NEW e \in EventIds, Dispatch!Faulty(e), DeliveryOf(e)
  PROVE  /\ DeliveryOf(e)'
         /\ Exposed(e)' => Exposed(e)
         /\ task'[e].state # "none" /\ task[e].state # "none"
         /\ task'[e].state = "active" => task[e].state = "active"
<1>0. /\ task[e].retried \in 0..DispatchRetry
      /\ status' = status /\ log'[e].late = log[e].late /\ log'[e].taken = log[e].taken
      /\ dispatchFaults' # 0
  BY FaultyAlone DEF Dispatch!TypeOK
<1>1. CASE /\ task[e].state \in {"queued", "active"}
           /\ Dispatch!Retry(e) \/ Dispatch!Finish(e, "queued", task[e].retried)
  <2>1. /\ task'[e].state \in {"queued", "archived"}
        /\ attempt'[e] = "idle" /\ answer'[e] = "none"
    BY <1>0, <1>1, FinishEnds, RetryEnds
  <2>2. QED BY <1>0, <1>1, <2>1 DEF DeliveryOf, Attempting, Truthful, Shown, Exposed
<1>2. CASE Dispatch!MarkFails(e)
  <2>1. attempt[e] = "posted" /\ task[e].state = "active"
    BY <1>2 DEF Dispatch!MarkFails, DeliveryOf, Attempting
  <2>2. CASE attempt' = [attempt EXCEPT ![e] = "marked"] /\ UNCHANGED <<task, answer>>
    <3>1. attempt'[e] = "marked" /\ UNCHANGED <<task, answer>>
      BY <2>2 DEF Dispatch!TypeOK
    <3>2. QED BY <1>0, <2>1, <3>1 DEF DeliveryOf, Attempting, Truthful, Shown, Exposed
  <2>3. QED BY <1>1, <1>2, <2>1, <2>2 DEF Dispatch!MarkFails
<1>3. QED BY <1>1, <1>2
          DEF Dispatch!Faulty, Dispatch!LoadFails, Dispatch!Crash, Dispatch!PutBack

\* The events whose task a worker runs, and those a late call was or may be made for.
Delivering == {e \in EventIds : task[e].state = "active"}
Late == {e \in EventIds : Exposed(e)}

\* What any step of the delivery leaves of what all parts of the pipeline rely on.
LEMMA DeliveryStep ==
  ASSUME Dispatch!TypeOK, \A d \in EventIds : DeliveryOf(d),
         NEW e \in EventIds, Deliver(e) \/ DeliverFaulty(e)
  PROVE  /\ Dispatch!TypeOK' /\ \A d \in EventIds : DeliveryOf(d)'
         /\ \A d \in EventIds :
              /\ status'[d] \in Dispatch!Stored <=> status[d] \in Dispatch!Stored
              /\ status'[d] # "none" <=> status[d] # "none"
              /\ task'[d].state # "none" <=> task[d].state # "none"
         /\ Late' \subseteq Late
         /\ Delivering' \subseteq Delivering \/ (Free /\ Delivering' \subseteq Delivering \cup {e})
<1>1. Dispatch!TypeOK' /\ Alone(e) /\ (dispatchFaults' = 0 => dispatchFaults = 0)
  BY WorkAlone, FaultyAlone DEF Deliver, DeliverFaulty
<1>2. /\ DeliveryOf(e)'
      /\ Exposed(e)' => Exposed(e)
      /\ status'[e] \in Dispatch!Stored <=> status[e] \in Dispatch!Stored
      /\ status'[e] # "none" <=> status[e] # "none"
      /\ task'[e].state # "none" /\ task[e].state # "none"
      /\ task'[e].state = "active" => task[e].state = "active" \/ Free
  <2>1. CASE Deliver(e)
    BY <2>1, WorkKeeps DEF Deliver
  <2>2. CASE DeliverFaulty(e)
    BY <2>2, FaultyKeeps, FaultyAlone DEF DeliverFaulty
  <2>3. QED BY <2>1, <2>2
<1>3. ASSUME NEW d \in EventIds \ {e}
      PROVE  /\ DeliveryOf(d)' /\ (Exposed(d)' => Exposed(d))
             /\ status'[d] = status[d] /\ task'[d] = task[d]
  BY <1>1, <1>3 DEF Alone, DeliveryOf, Attempting, Truthful, Shown, Exposed
<1>4. \A d \in EventIds : DeliveryOf(d)'
  BY <1>2, <1>3
<1>5. \A d \in EventIds : /\ status'[d] \in Dispatch!Stored <=> status[d] \in Dispatch!Stored
                          /\ status'[d] # "none" <=> status[d] # "none"
                          /\ task'[d].state # "none" <=> task[d].state # "none"
  BY <1>2, <1>3
<1>6. Late' \subseteq Late
  BY <1>2, <1>3 DEF Late
<1>7. Delivering' \subseteq Delivering \/ (Free /\ Delivering' \subseteq Delivering \cup {e})
  BY <1>2, <1>3 DEF Delivering
<1>8. QED BY <1>1, <1>4, <1>5, <1>6, <1>7

-----------------------------------------------------------------------------
(***************************************************************************)
(* The two components keep a copy each of one table, alert_event, and of   *)
(* one queue: that the copies agree is no property of the program, but the *)
(* other proofs rest on it.                                                *)
(***************************************************************************)

Numbered ==
  /\ nextEvent \in 1..(MaxEvents + 1)
  /\ \A ev \in events : ev.id \in 1..(nextEvent - 1)
  /\ \A e1, e2 \in events : e1.id = e2.id => e1 = e2

HalvesAgree ==
  /\ {e \in EventIds : status[e] \in Dispatch!Stored} = {ev.id : ev \in events}
  /\ {e \in EventIds : status[e] # "none"} = 1..(nextEvent - 1)
  /\ {e \in EventIds : task[e].state # "none"} = dispatched

Together ==
  /\ Dispatch!TypeOK
  /\ \A e \in EventIds : DeliveryOf(e)
  /\ Numbered
  /\ HalvesAgree

LEMMA TogetherInit == PipelineInit => Together
<1> SUFFICES ASSUME PipelineInit PROVE Together
  OBVIOUS
<1> USE DEF PipelineInit, Init, Dispatch!Init
<1>1. Dispatch!TypeOK
  BY PipelineAssumption DEF Dispatch!TypeOK, Dispatch!DispatchAssumption
<1>2. \A e \in EventIds : DeliveryOf(e)
  BY DEF DeliveryOf, Attempting, Truthful, Shown
<1>3. Numbered
  BY PipelineAssumption DEF Numbered
<1>4. HalvesAgree
  BY DEF HalvesAgree, Dispatch!Stored
<1>5. QED BY <1>1, <1>2, <1>3, <1>4 DEF Together

LEMMA StoreTogether ==
  ASSUME TypeOK, Together, NEW j \in Jobs, NEW m \in jobs[j].todo, StoreEvent(j, m)
  PROVE  Together'
<1>1. nextEvent \in EventIds /\ nextEvent \in Nat
  BY DEF TypeOK, StoreEvent, EventIds
<1>2. PICK new : /\ new.id = nextEvent /\ events' = events \cup {new}
                 /\ nextEvent' = nextEvent + 1 /\ UNCHANGED dispatched
  BY DEF StoreEvent, InsertEvent
<1>3. /\ status[nextEvent] = "none" /\ status' = [status EXCEPT ![nextEvent] = "pending"]
      /\ UNCHANGED <<deliveredAt, lastError, task, attempt, answer, log, dispatchFaults>>
  BY DEF StoreEvent, Dispatch!Create
<1>4. Dispatch!TypeOK'
  BY <1>1, <1>3 DEF Together, Dispatch!TypeOK, Dispatch!Stored
<1>5. \A e \in EventIds : status'[e] = IF e = nextEvent THEN "pending" ELSE status[e]
  BY <1>1, <1>3 DEF Together, Dispatch!TypeOK
<1>6. ASSUME NEW e \in EventIds PROVE DeliveryOf(e)'
  <2>1. DeliveryOf(e)
    BY DEF Together
  <2>2. QED BY <1>3, <1>5, <2>1 DEF DeliveryOf, Attempting, Truthful, Shown
<1>7. Numbered'
  BY <1>1, <1>2, PipelineAssumption DEF Together, Numbered, EventIds
<1>8. HalvesAgree'
  <2>1. \A e \in EventIds : status'[e] \in Dispatch!Stored <=>
                              status[e] \in Dispatch!Stored \/ e = nextEvent
    BY <1>1, <1>3, <1>5 DEF Dispatch!Stored
  <2>2. {ev.id : ev \in events'} = {ev.id : ev \in events} \cup {nextEvent}
    BY <1>2
  <2>3. {e \in EventIds : status'[e] \in Dispatch!Stored} = {ev.id : ev \in events'}
    BY <1>1, <2>1, <2>2 DEF Together, HalvesAgree
  <2>4. \A e \in EventIds : status'[e] # "none" <=> status[e] # "none" \/ e = nextEvent
    BY <1>3, <1>5
  <2>5. {e \in EventIds : status'[e] # "none"} = 1..(nextEvent' - 1)
    <3>1. 1..(nextEvent' - 1) = (1..(nextEvent - 1)) \cup {nextEvent}
      BY <1>1, <1>2, PipelineAssumption DEF EventIds
    <3>2. QED BY <1>1, <2>4, <3>1 DEF Together, HalvesAgree
  <2>6. QED BY <1>2, <1>3, <2>3, <2>5 DEF Together, HalvesAgree
<1>9. QED BY <1>4, <1>6, <1>7, <1>8 DEF Together

LEMMA SubmitTogether ==
  ASSUME TypeOK, TaskInv, Together, NEW j \in Jobs, jobs[j].pc = "enqueueing",
         UNCHANGED <<events, nextEvent>>, dispatched' = dispatched \cup {jobs[j].event},
         Dispatch!Submit(jobs[j].event)
  PROVE  Together'
<1> DEFINE n == jobs[j].event
<1>1. n \in EventIds
  BY PipelineAssumption DEF TaskInv, HeldIds, Together, Numbered, EventIds
<1>2. /\ status[n] # "none" /\ task[n].state = "none"
      /\ UNCHANGED <<status, deliveredAt, lastError, attempt, answer, log, dispatchFaults>>
      /\ task' = [task EXCEPT ![n].state = "queued"]
  BY DEF Dispatch!Submit, Dispatch!rowVars
<1> HIDE DEF n
<1>3. Dispatch!TypeOK' /\ \A e \in EventIds : task'[e].state = IF e = n THEN "queued" ELSE task[e].state
  BY <1>1, <1>2 DEF Together, Dispatch!TypeOK
<1>4. ASSUME NEW e \in EventIds PROVE DeliveryOf(e)'
  <2>1. DeliveryOf(e)
    BY DEF Together
  <2>2. QED BY <1>2, <1>3, <2>1 DEF DeliveryOf, Attempting, Truthful, Shown
<1>5. Numbered'
  BY DEF Together, Numbered
<1>6. HalvesAgree'
  <2>1. {e \in EventIds : task'[e].state # "none"} = dispatched'
    BY <1>1, <1>3 DEF Together, HalvesAgree, n
  <2>2. QED BY <1>2, <2>1 DEF Together, HalvesAgree
<1>7. QED BY <1>3, <1>4, <1>5, <1>6 DEF Together

LEMMA RemoveTogether ==
  ASSUME TypeOK, Together, NEW r \in RuleIds, RemoveRule(r)
  PROVE  Together'
<1> DEFINE E == {ev.id : ev \in {ev \in events : ev.rule = r}}
<1>1. /\ events' = {ev \in events : ev.rule # r} /\ UNCHANGED <<nextEvent, dispatched>>
  BY DEF RemoveRule, DeleteRule
<1>2. /\ \A e \in E : status[e] \in Dispatch!Stored
      /\ status' = [e \in EventIds |-> IF e \in E THEN "removed" ELSE status[e]]
      /\ UNCHANGED <<deliveredAt, lastError, task, attempt, answer, log, dispatchFaults>>
  BY DEF RemoveRule, Dispatch!Remove
<1>3. \A e \in EventIds : status'[e] = IF e \in E THEN "removed" ELSE status[e]
  BY <1>2
<1>4. {ev.id : ev \in events'} = {ev.id : ev \in events} \ E
  BY <1>1 DEF Together, Numbered
<1> HIDE DEF E
<1>5. Dispatch!TypeOK'
  BY <1>2 DEF Together, Dispatch!TypeOK
<1>6. ASSUME NEW e \in EventIds PROVE DeliveryOf(e)'
  <2>1. DeliveryOf(e)
    BY DEF Together
  <2>2. QED BY <1>2, <1>3, <2>1 DEF DeliveryOf, Attempting, Truthful, Shown, Dispatch!Stored
<1>7. Numbered'
  BY <1>1 DEF Together, Numbered
<1>8. HalvesAgree'
  <2>1. {e \in EventIds : status'[e] \in Dispatch!Stored} = {ev.id : ev \in events'}
    BY <1>3, <1>4 DEF Together, HalvesAgree, Dispatch!Stored
  <2>2. \A e \in EventIds : status'[e] # "none" <=> status[e] # "none"
    BY <1>2, <1>3 DEF Dispatch!Stored
  <2>3. QED BY <1>1, <1>2, <2>1, <2>2 DEF Together, HalvesAgree
<1>9. QED BY <1>5, <1>6, <1>7, <1>8 DEF Together

\* A step of detection that stores no event and hands none over.
LEMMA ApartTogether ==
  ASSUME Together, UNCHANGED dispatchVars, UNCHANGED <<events, nextEvent, dispatched>>
  PROVE  Together'
  BY DEF Together, Dispatch!TypeOK, DeliveryOf, Attempting, Truthful, Shown, Numbered,
     HalvesAgree, dispatchVars

LEMMA DeliverTogether ==
  ASSUME Together, UNCHANGED vars, NEW e \in EventIds, Deliver(e) \/ DeliverFaulty(e)
  PROVE  Together'
<1>1. /\ Dispatch!TypeOK' /\ \A d \in EventIds : DeliveryOf(d)'
      /\ \A d \in EventIds :
           /\ status'[d] \in Dispatch!Stored <=> status[d] \in Dispatch!Stored
           /\ status'[d] # "none" <=> status[d] # "none"
           /\ task'[d].state # "none" <=> task[d].state # "none"
  BY DeliveryStep DEF Together
<1>2. UNCHANGED <<events, nextEvent, dispatched>>
  BY DEF vars, ruleVars
<1>3. HalvesAgree' /\ Numbered'
  BY <1>1, <1>2 DEF Together, HalvesAgree, Numbered
<1>4. QED BY <1>1, <1>3 DEF Together

\* The kinds of step of the pipeline, by what they touch together.
LEMMA Kinds ==
  ASSUME [Step]_pipelineVars
  PROVE  \/ UNCHANGED dispatchVars /\ UNCHANGED <<events, nextEvent, dispatched>>
         \/ \E j \in Jobs : \E m \in jobs[j].todo : StoreEvent(j, m)
         \/ \E j \in Jobs : /\ jobs[j].pc = "enqueueing" /\ UNCHANGED <<events, nextEvent>>
                            /\ dispatched' = dispatched \cup {jobs[j].event}
                            /\ Dispatch!Submit(jobs[j].event)
         \/ \E r \in RuleIds : RemoveRule(r)
         \/ UNCHANGED vars /\ \E e \in EventIds : Deliver(e) \/ DeliverFaulty(e)
<1>1. ASSUME NEW j \in Jobs, Compute(j) \/ EnqueueCompute(j) \/ ComputeFaulty(j)
      PROVE  UNCHANGED <<events, nextEvent, dispatched>>
  BY <1>1 DEF Compute, EnqueueCompute, ComputeFaulty, SkipMissingProject, ReadPrevious,
     RecordWindow, MatchRules, InsertEventFails, CrashCompute, MatchRulesFails, MissPrevious,
     ComputeFails
<1>2. ASSUME Request PROVE UNCHANGED <<events, nextEvent, dispatched>>
  BY <1>2 DEF Request, CreateRule, UpdateRule, RemoveProject
<1>3. ASSUME NEW j \in Jobs, SubmitTask(j)
      PROVE  /\ jobs[j].pc = "enqueueing" /\ UNCHANGED <<events, nextEvent>>
             /\ dispatched' = dispatched \cup {jobs[j].event} /\ Dispatch!Submit(jobs[j].event)
  BY <1>3 DEF SubmitTask, EnqueueDispatch
<1>4. ASSUME NEW j \in Jobs, SubmitTaskFails(j)
      PROVE  \/ UNCHANGED dispatchVars /\ UNCHANGED <<events, nextEvent, dispatched>>
             \/ /\ jobs[j].pc = "enqueueing" /\ UNCHANGED <<events, nextEvent>>
                /\ dispatched' = dispatched \cup {jobs[j].event} /\ Dispatch!Submit(jobs[j].event)
  BY <1>4 DEF SubmitTaskFails, EnqueueDispatchFails
<1>5. CASE UNCHANGED pipelineVars
  BY <1>5 DEF pipelineVars, vars, ruleVars
<1>6. QED BY <1>1, <1>2, <1>3, <1>4, <1>5 DEF Step, PipelineNext, WorkOn

LEMMA TogetherNext == TypeOK /\ TaskInv /\ Together /\ [Step]_pipelineVars => Together'
<1> SUFFICES ASSUME TypeOK, TaskInv, Together, [Step]_pipelineVars PROVE Together'
  OBVIOUS
<1>1. QED BY Kinds, ApartTogether, StoreTogether, SubmitTogether, RemoveTogether, DeliverTogether

\* What the pipeline rests on of AlertDetection.
LEMMA DetectionHolds == PipelineSpec => []TypeOK /\ []TaskInv
<1>1. PipelineInit => Init
  BY DEF PipelineInit
<1>2. QED BY <1>1, DetectionSteps, InitType, NextType, TaskInit, TaskNext, PTL
          DEF PipelineSpec, Step

LEMMA TogetherHolds == PipelineSpec => []Together
  BY DetectionHolds, TogetherInit, TogetherNext, PTL DEF PipelineSpec, Step

-----------------------------------------------------------------------------
\* The pipeline's delivery is AlertDispatch, and so delivers as AlertDelivery says.

LEMMA DispatchSteps ==
  TypeOK /\ TaskInv /\ Together /\ [Step]_pipelineVars => [Dispatch!Next]_Dispatch!vars
<1> SUFFICES ASSUME TypeOK, TaskInv, Together, [Step]_pipelineVars
             PROVE  Dispatch!Next \/ UNCHANGED Dispatch!vars
  OBVIOUS
<1>1. CASE UNCHANGED dispatchVars
  BY <1>1 DEF dispatchVars, Dispatch!vars
<1>2. ASSUME NEW j \in Jobs, NEW m \in jobs[j].todo, StoreEvent(j, m) PROVE Dispatch!Next
  <2>1. nextEvent \in EventIds /\ Dispatch!Create(nextEvent)
    BY <1>2, PipelineAssumption DEF Together, Numbered, StoreEvent, EventIds
  <2>2. QED BY <2>1 DEF Dispatch!Next
<1>3. ASSUME NEW j \in Jobs, jobs[j].pc = "enqueueing", Dispatch!Submit(jobs[j].event)
      PROVE  Dispatch!Next
  <2>1. jobs[j].event \in EventIds
    BY <1>3, PipelineAssumption DEF TaskInv, HeldIds, Together, Numbered, EventIds
  <2>2. QED BY <1>3, <2>1 DEF Dispatch!Next
<1>4. ASSUME NEW r \in RuleIds, RemoveRule(r) PROVE Dispatch!Next \/ UNCHANGED Dispatch!vars
  <2> DEFINE E == {ev.id : ev \in {ev \in events : ev.rule = r}}
  <2>1. Dispatch!Remove(E)
    BY <1>4 DEF RemoveRule
  <2>2. E \in SUBSET EventIds
    BY PipelineAssumption DEF Together, Numbered, EventIds
  <2> HIDE DEF E
  <2>3. CASE E # {}
    BY <2>1, <2>2, <2>3 DEF Dispatch!Next
  <2>4. CASE E = {}
    <3>1. status' = status
      BY <2>1, <2>4 DEF Dispatch!Remove, Together, Dispatch!TypeOK
    <3>2. QED BY <2>1, <3>1 DEF Dispatch!Remove, Dispatch!vars
  <2>5. QED BY <2>3, <2>4
<1>5. ASSUME NEW e \in EventIds, Deliver(e) \/ DeliverFaulty(e) PROVE Dispatch!Next
  BY <1>5 DEF Deliver, DeliverFaulty, Dispatch!Worker, Dispatch!Next
<1>6. QED BY <1>1, <1>2, <1>3, <1>4, <1>5, Kinds

\* Seen from its own columns, the pipeline's delivery is AlertDispatch.
THEOREM DispatchWithin == PipelineSpec => Dispatch!Spec
<1>1. PipelineInit => Dispatch!Init
  BY DEF PipelineInit
<1>2. QED BY <1>1, DispatchSteps, DetectionHolds, TogetherHolds, PTL
          DEF PipelineSpec, Dispatch!Spec, Step

-----------------------------------------------------------------------------
\* In a quiet system without failures nothing is left pending, however computations,
\* deliveries and edits of rules overlapped before.
THEOREM QuietIsSettled == PipelineSpec => []QuietMeansSettled
<1>1. TaskInv /\ Together => QuietMeansSettled
  <2> SUFFICES ASSUME TaskInv, Together, Quiet, faults = 0, dispatchFaults = 0,
                      NEW e \in EventIds, status[e] = "pending"
               PROVE  FALSE
    BY DEF QuietMeansSettled
  <2>1. PICK ev \in events : ev.id = e
    BY DEF Together, HalvesAgree, Dispatch!Stored
  <2>2. e \in dispatched
    BY <2>1 DEF TaskInv, EventsGetTheirTask, Quiet
  <2>3. task[e].state \in {"done", "archived"}
    BY <2>2 DEF Together, HalvesAgree, Quiet
  <2>4. DeliveryOf(e)
    BY DEF Together
  <2>5. QED BY <2>3, <2>4 DEF DeliveryOf, Shown
<1>2. QED BY <1>1, DetectionHolds, TogetherHolds, PTL

-----------------------------------------------------------------------------
(***************************************************************************)
(* The calls a deletion leaves.  They come of the attempts that ran when   *)
(* it happened, which the workers bound; each deletion is of a rule of its *)
(* own, for an identifier never comes back.                                *)
(***************************************************************************)

RetiredGone == \A r \in retired : rules[r] = NoRule

PoolInv ==
  /\ IsFiniteSet(Active) /\ Busy <= workers
  /\ IsFiniteSet(retired) /\ RetiredGone
  /\ Cardinality(Late) <= workers * Cardinality(retired)

\* A step of a compute task makes it run only if a worker is free.
LEMMA OneStarts ==
  ASSUME TypeOK, NEW j \in Jobs, Kept(j),
         jobs[j].pc \in Running \/ jobs'[j].pc \in Pending \/ Free
  PROVE  Active' \subseteq Active \/ (Free /\ Active' \subseteq Active \cup {j})
<1>1. Pending \cap Running = {}
  BY DEF Pending, Running
<1>2. QED BY <1>1 DEF Kept, Active

LEMMA ComputeStarts ==
  ASSUME TypeOK, NEW j \in Jobs,
         Compute(j) \/ EnqueueCompute(j) \/ ComputeFaulty(j) \/ SubmitTask(j)
           \/ SubmitTaskFails(j) \/ \E m \in jobs[j].todo : StoreEvent(j, m)
  PROVE  Active' \subseteq Active \/ (Free /\ Active' \subseteq Active \cup {j})
<1> jobs \in [Jobs -> JobRec] /\ jobs[j] \in JobRec
  BY DEF TypeOK
<1>1. CASE Succeed(j) \/ GiveBack(j)
  BY <1>1, EndEffect, OneStarts DEF Ended
<1>2. ASSUME NEW todo, Continue(j, todo), jobs[j].pc \in Running
      PROVE  Active' \subseteq Active \/ (Free /\ Active' \subseteq Active \cup {j})
  BY <1>2, ContinueEffect, OneStarts
<1>3. CASE EnqueueCompute(j)
  <2>1. Kept(j) /\ jobs'[j].pc \in Pending
    BY <1>3 DEF EnqueueCompute, Kept, JobRec, Pending
  <2>2. QED BY <2>1, OneStarts
<1>4. CASE Free /\ (ReadPrevious(j) \/ MissPrevious(j))
  <2>1. Kept(j)
    BY <1>4 DEF ReadPrevious, MissPrevious, Kept
  <2>2. QED BY <1>4, <2>1, OneStarts
<1>5. ASSUME NEW tier, RecordWindow(j, tier)
      PROVE  Active' \subseteq Active \/ (Free /\ Active' \subseteq Active \cup {j})
  <2>1. CASE Succeed(j)
    BY <1>1, <2>1
  <2>2. CASE jobs' = [jobs EXCEPT ![j].pc = "matching", ![j].row = Len(rows) + 1]
    <3>1. Kept(j) /\ jobs[j].pc \in Running
      BY <1>5, <2>2 DEF RecordWindow, Kept, Running
    <3>2. QED BY <3>1, OneStarts
  <2>3. QED BY <1>5, <2>1, <2>2 DEF RecordWindow
<1>6. ASSUME NEW m, StoreEvent(j, m)
      PROVE  Active' \subseteq Active \/ (Free /\ Active' \subseteq Active \cup {j})
  <2>1. Kept(j) /\ jobs[j].pc \in Running
    BY <1>6 DEF StoreEvent, InsertEvent, Kept, Running
  <2>2. QED BY <2>1, OneStarts
<1>7. CASE MatchRules(j)
  BY <1>2, <1>7 DEF MatchRules, Running
<1>8. CASE SubmitTask(j) \/ SubmitTaskFails(j) \/ \E m \in jobs[j].todo : InsertEventFails(j, m)
  BY <1>2, <1>8
     DEF SubmitTask, EnqueueDispatch, SubmitTaskFails, EnqueueDispatchFails, InsertEventFails, Running
<1>9. CASE SkipMissingProject(j) \/ CrashCompute(j) \/ MatchRulesFails(j) \/ ComputeFails(j)
  BY <1>1, <1>9 DEF SkipMissingProject, CrashCompute, MatchRulesFails, ComputeFails
<1>10. CASE (jobs[j].pc = "queued" => Free) /\ MissPrevious(j)
  BY <1>4, <1>10 DEF MissPrevious, MayStart
<1>11. QED BY <1>3, <1>4, <1>5, <1>6, <1>7, <1>8, <1>9, <1>10 DEF Compute, ComputeFaulty

\* A deletion, and no other step, adds to the late calls and retires a rule.
LEMMA RulesRetire ==
  ASSUME TypeOK, RetiredGone, [Step]_pipelineVars
  PROVE  /\ UNCHANGED workers /\ RetiredGone'
         /\ \/ UNCHANGED retired
            \/ \E r \in RuleIds \ retired : RemoveRule(r) /\ retired' = retired \cup {r}
<1> rules \in [RuleIds -> RuleRec \cup {NoRule}] /\ retired \subseteq RuleIds
  BY DEF TypeOK
<1>1. ASSUME NEW r \in RuleIds, RemoveRule(r)
      PROVE  /\ UNCHANGED workers /\ RetiredGone'
             /\ r \notin retired /\ retired' = retired \cup {r}
  BY <1>1 DEF RemoveRule, DeleteRule, RetiredGone
<1>2. ASSUME NEW r \in RuleIds, NEW v, CreateRule(r, v) \/ UpdateRule(r, v)
      PROVE  UNCHANGED <<workers, retired>> /\ RetiredGone'
  BY <1>2 DEF CreateRule, UpdateRule, RetiredGone
<1>3. ASSUME UNCHANGED <<workers, retired, rules>>
      PROVE  UNCHANGED <<workers, retired>> /\ RetiredGone'
  BY <1>3 DEF RetiredGone
<1>4. ASSUME NEW p \in Projects, RemoveProject(p) PROVE UNCHANGED <<workers, retired, rules>>
  BY <1>4 DEF RemoveProject
<1>5. ASSUME NEW j \in Jobs,
             Compute(j) \/ EnqueueCompute(j) \/ ComputeFaulty(j) \/ SubmitTask(j)
               \/ SubmitTaskFails(j) \/ \E m \in jobs[j].todo : StoreEvent(j, m)
      PROVE  UNCHANGED <<workers, retired, rules>>
  BY <1>5 DEF Compute, EnqueueCompute, ComputeFaulty, SubmitTask, SubmitTaskFails, StoreEvent,
     SkipMissingProject, ReadPrevious, RecordWindow, MatchRules, InsertEventFails, InsertEvent,
     CrashCompute, MatchRulesFails, MissPrevious, ComputeFails, EnqueueDispatch,
     EnqueueDispatchFails, ruleVars
<1>6. ASSUME UNCHANGED vars PROVE UNCHANGED <<workers, retired, rules>>
  BY <1>6 DEF vars
<1>7. UNCHANGED pipelineVars => UNCHANGED vars
  BY DEF pipelineVars
<1>8. QED BY <1>1, <1>2, <1>3, <1>4, <1>5, <1>6, <1>7 DEF Step, PipelineNext, WorkOn, Request

LEMMA LateGrows ==
  ASSUME TypeOK, TaskInv, Together, [Step]_pipelineVars
  PROVE  Late' \subseteq Late \/ \E r \in RuleIds : RemoveRule(r) /\ Late' \subseteq Late \cup Delivering
<1>1. CASE UNCHANGED dispatchVars
  BY <1>1 DEF dispatchVars, Late, Exposed
<1>2. ASSUME NEW j \in Jobs, NEW m \in jobs[j].todo, StoreEvent(j, m) PROVE Late' \subseteq Late
  <2>1. /\ status' = [status EXCEPT ![nextEvent] = "pending"] /\ UNCHANGED <<attempt, log>>
    BY <1>2 DEF StoreEvent, Dispatch!Create
  <2>2. \A e \in EventIds : status'[e] = "removed" => status[e] = "removed"
    BY <2>1 DEF Together, Dispatch!TypeOK
  <2>3. QED BY <2>1, <2>2 DEF Late, Exposed
<1>3. ASSUME NEW n, Dispatch!Submit(n) PROVE Late' \subseteq Late
  BY <1>3 DEF Dispatch!Submit, Dispatch!rowVars, Late, Exposed
<1>4. ASSUME NEW r \in RuleIds, RemoveRule(r) PROVE Late' \subseteq Late \cup Delivering
  <2>1. UNCHANGED <<attempt, log>>
    BY <1>4 DEF RemoveRule, Dispatch!Remove
  <2>2. \A e \in EventIds : DeliveryOf(e)
    BY DEF Together
  <2>3. QED BY <2>1, <2>2 DEF Late, Exposed, Delivering, DeliveryOf, Attempting
<1>5. ASSUME NEW e \in EventIds, Deliver(e) \/ DeliverFaulty(e) PROVE Late' \subseteq Late
  BY <1>5, DeliveryStep DEF Together
<1>6. QED BY <1>1, <1>2, <1>3, <1>4, <1>5, Kinds

\* The pool: a step starts one task at most, and only on a free worker.
LEMMA PoolMoves ==
  ASSUME TypeOK, TaskInv, Together, [Step]_pipelineVars
  PROVE  \/ Active' \subseteq Active /\ Delivering' \subseteq Delivering
         \/ Free /\ Delivering' \subseteq Delivering /\ \E j \in Jobs : Active' \subseteq Active \cup {j}
         \/ /\ Free /\ Active' \subseteq Active
            /\ \E e \in EventIds : Delivering' \subseteq Delivering \cup {e}
<1>1. ASSUME NEW j \in Jobs,
             Compute(j) \/ EnqueueCompute(j) \/ ComputeFaulty(j) \/ SubmitTask(j)
               \/ SubmitTaskFails(j) \/ \E m \in jobs[j].todo : StoreEvent(j, m)
      PROVE  Active' \subseteq Active \/ (Free /\ Active' \subseteq Active \cup {j})
  BY <1>1, ComputeStarts
<1>2. ASSUME UNCHANGED jobs PROVE Active' \subseteq Active
  BY <1>2 DEF Active
<1>3. ASSUME UNCHANGED task PROVE Delivering' \subseteq Delivering
  BY <1>3 DEF Delivering
<1>4. ASSUME NEW n, Dispatch!Submit(n) PROVE Delivering' \subseteq Delivering
  BY <1>4 DEF Dispatch!Submit, Delivering, Together, Dispatch!TypeOK
<1>5. ASSUME NEW j \in Jobs,
             UNCHANGED dispatchVars \/ SubmitTask(j) \/ SubmitTaskFails(j)
               \/ \E m \in jobs[j].todo : StoreEvent(j, m)
      PROVE  Delivering' \subseteq Delivering
  BY <1>3, <1>4, <1>5
     DEF SubmitTask, SubmitTaskFails, StoreEvent, Dispatch!Create, dispatchVars
<1>6. CASE Request /\ UNCHANGED dispatchVars
  BY <1>2, <1>3, <1>6 DEF Request, CreateRule, UpdateRule, RemoveProject, dispatchVars
<1>7. ASSUME NEW r \in RuleIds, RemoveRule(r) PROVE UNCHANGED <<jobs, task>>
  BY <1>7 DEF RemoveRule, DeleteRule, Dispatch!Remove
<1>8. ASSUME NEW e \in EventIds, Deliver(e) \/ DeliverFaulty(e)
      PROVE  Delivering' \subseteq Delivering \/ (Free /\ Delivering' \subseteq Delivering \cup {e})
  BY <1>8, DeliveryStep DEF Together
<1>9. UNCHANGED vars => UNCHANGED jobs
  BY DEF vars
<1>10. UNCHANGED pipelineVars => UNCHANGED jobs /\ UNCHANGED task
  BY DEF pipelineVars, vars, dispatchVars
<1>11. QED BY <1>1, <1>2, <1>3, <1>5, <1>6, <1>7, <1>8, <1>9, <1>10 DEF Step, PipelineNext, WorkOn

LEMMA PoolInit == PipelineInit => PoolInv
<1> SUFFICES ASSUME PipelineInit PROVE PoolInv
  OBVIOUS
<1>1. Active = {} /\ {e \in EventIds : task[e].state = "active"} = {} /\ retired = {}
  BY DEF PipelineInit, Init, Dispatch!Init, Active, Running
<1>2. Late = {}
  BY DEF PipelineInit, Dispatch!Init, Late, Exposed
<1>3. workers \in Nat
  BY DetectionAssumption DEF PipelineInit, Init
<1>4. IsFiniteSet({}) /\ Cardinality({}) = 0
  BY FS_EmptySet
<1>5. Busy <= workers
  BY <1>1, <1>3, <1>4 DEF Busy
<1>6. Cardinality(Late) <= workers * Cardinality(retired)
  BY <1>1, <1>2, <1>3, <1>4
<1>7. QED BY <1>1, <1>4, <1>5, <1>6 DEF PoolInv, RetiredGone

LEMMA PoolNext == TypeOK /\ TaskInv /\ Together /\ PoolInv /\ [Step]_pipelineVars => PoolInv'
<1> SUFFICES ASSUME TypeOK, TaskInv, Together, PoolInv, [Step]_pipelineVars PROVE PoolInv'
  OBVIOUS
<1>0. /\ workers \in Nat /\ workers' = workers
      /\ Busy = Cardinality(Active) + Cardinality(Delivering) /\ Busy <= workers
      /\ Busy' = Cardinality(Active') + Cardinality(Delivering')
      /\ IsFiniteSet(Active) /\ IsFiniteSet(retired)
  BY RulesRetire, DetectionAssumption DEF PoolInv, TypeOK, Busy, Delivering
<1>1. IsFiniteSet(EventIds)
  BY PipelineAssumption, FS_Interval DEF EventIds
<1>2. /\ IsFiniteSet(Delivering) /\ IsFiniteSet(Delivering') /\ IsFiniteSet(Late) /\ IsFiniteSet(Late')
      /\ Cardinality(Late) \in Nat /\ Cardinality(Late') \in Nat
  BY <1>1, FS_Subset, FS_CardinalityType DEF Delivering, Late
<1>3. IsFiniteSet(Active') /\ Busy' <= workers'
  <2>1. ASSUME NEW S, IsFiniteSet(S), NEW T, T \subseteq S
        PROVE  IsFiniteSet(T) /\ Cardinality(T) <= Cardinality(S)
               /\ Cardinality(T) \in Nat /\ Cardinality(S) \in Nat
    BY <2>1, FS_Subset, FS_CardinalityType
  <2>2. ASSUME NEW S, IsFiniteSet(S), NEW x, NEW T, T \subseteq S \cup {x}
        PROVE  IsFiniteSet(T) /\ Cardinality(T) <= Cardinality(S) + 1
               /\ Cardinality(T) \in Nat /\ Cardinality(S) \in Nat
    <3>1. Cardinality(S) \in Nat
      BY <2>2, FS_CardinalityType
    <3>2. IsFiniteSet(S \cup {x}) /\ Cardinality(S \cup {x}) <= Cardinality(S) + 1
      <4>1. /\ IsFiniteSet(S \cup {x})
            /\ Cardinality(S \cup {x}) = IF x \in S THEN Cardinality(S) ELSE Cardinality(S) + 1
        BY <2>2, FS_AddElement
      <4>2. QED BY <3>1, <4>1
    <3>3. QED BY <2>1, <2>2, <3>1, <3>2
  <2>3. CASE Active' \subseteq Active /\ Delivering' \subseteq Delivering
    BY <1>0, <1>2, <2>1, <2>3
  <2>4. CASE /\ Free /\ Delivering' \subseteq Delivering
             /\ \E j \in Jobs : Active' \subseteq Active \cup {j}
    BY <1>0, <1>2, <2>1, <2>2, <2>4 DEF Free
  <2>5. CASE /\ Free /\ Active' \subseteq Active
             /\ \E e \in EventIds : Delivering' \subseteq Delivering \cup {e}
    <3>1. PICK e \in EventIds : Delivering' \subseteq Delivering \cup {e}
      BY <2>5
    <3>2. /\ Cardinality(Delivering') <= Cardinality(Delivering) + 1
          /\ Cardinality(Delivering') \in Nat /\ Cardinality(Delivering) \in Nat
      BY <1>2, <2>2, <3>1
    <3>3. /\ IsFiniteSet(Active') /\ Cardinality(Active') <= Cardinality(Active)
          /\ Cardinality(Active') \in Nat /\ Cardinality(Active) \in Nat
      BY <1>0, <2>1, <2>5
    <3>4. QED BY <1>0, <2>5, <3>2, <3>3 DEF Free
  <2>6. QED BY <2>3, <2>4, <2>5, PoolMoves
<1>4. RetiredGone'
  BY RulesRetire DEF PoolInv
<1>5. IsFiniteSet(retired') /\ Cardinality(Late') <= workers' * Cardinality(retired')
  <2>1. CASE UNCHANGED retired /\ Late' \subseteq Late
    <3>1. Cardinality(Late') <= Cardinality(Late)
      BY <1>2, <2>1, FS_Subset
    <3>2. Cardinality(Late) <= workers * Cardinality(retired)
      BY DEF PoolInv
    <3>3. Cardinality(retired) \in Nat
      BY <1>0, FS_CardinalityType
    <3>4. QED BY <1>0, <1>2, <2>1, <3>1, <3>2, <3>3
  <2>2. ASSUME NEW r \in RuleIds \ retired, retired' = retired \cup {r},
               Late' \subseteq Late \cup Delivering
        PROVE  IsFiniteSet(retired') /\ Cardinality(Late') <= workers' * Cardinality(retired')
    <3>1. IsFiniteSet(retired') /\ Cardinality(retired') = Cardinality(retired) + 1
      BY <1>0, <2>2, FS_AddElement
    <3>2. Cardinality(Delivering) <= workers
      BY <1>0, <1>2, FS_CardinalityType
    <3>3. IsFiniteSet(Late \cup Delivering)
          /\ Cardinality(Late \cup Delivering) <= Cardinality(Late) + Cardinality(Delivering)
      <4>1. /\ IsFiniteSet(Late \cap Delivering) /\ Cardinality(Late \cap Delivering) \in Nat
            /\ Cardinality(Late) \in Nat /\ Cardinality(Delivering) \in Nat
        BY <1>2, FS_Intersection, FS_CardinalityType
      <4>2. /\ IsFiniteSet(Late \cup Delivering)
            /\ Cardinality(Late \cup Delivering) =
                 Cardinality(Late) + Cardinality(Delivering) - Cardinality(Late \cap Delivering)
        BY <1>2, FS_Union
      <4>3. QED BY <4>1, <4>2
    <3>4. Cardinality(Late') <= Cardinality(Late \cup Delivering)
      BY <2>2, <3>3, FS_Subset
    <3>5. Cardinality(Late) <= workers * Cardinality(retired)
      BY DEF PoolInv
    <3>6. PICK n \in Nat, d \in Nat, l \in Nat :
            n = Cardinality(retired) /\ d = Cardinality(Delivering) /\ l = Cardinality(Late)
      BY <1>0, <1>2, FS_CardinalityType
    <3>7. workers * (n + 1) = workers * n + workers /\ workers * n \in Nat
      BY <1>0
    <3>8. l + d <= workers * (n + 1)
      BY <1>0, <3>2, <3>5, <3>6, <3>7
    <3>9. Cardinality(Late \cup Delivering) \in Nat
      BY <3>3, FS_CardinalityType
    <3>10. Cardinality(Late') <= l + d
      BY <1>2, <3>3, <3>4, <3>6, <3>9
    <3>11. workers * (n + 1) \in Nat
      BY <1>0, <3>7
    <3>12. Cardinality(Late') <= workers * (n + 1)
      BY <1>2, <3>6, <3>8, <3>10, <3>11
    <3>13. QED BY <1>0, <3>1, <3>6, <3>12
  <2>3. ASSUME NEW r \in RuleIds, RemoveRule(r) PROVE r \notin retired /\ retired' = retired \cup {r}
    BY <2>3 DEF RemoveRule, DeleteRule, PoolInv, RetiredGone
  <2>4. CASE UNCHANGED retired
    <3>1. \A r \in RuleIds : ~RemoveRule(r)
      BY <2>3, <2>4
    <3>2. QED BY <2>1, <2>4, <3>1, LateGrows
  <2>5. ASSUME NEW r \in RuleIds \ retired, RemoveRule(r), retired' = retired \cup {r}
        PROVE  Late' \subseteq Late \cup Delivering
    BY LateGrows
  <2>6. QED BY <2>2, <2>4, <2>5, RulesRetire DEF PoolInv
<1>6. QED BY <1>3, <1>4, <1>5 DEF PoolInv

\* However many rules are deleted and whatever runs meanwhile, the events that still get
\* a call afterwards are no more than one per worker and deletion.
THEOREM FewLateCalls == PipelineSpec => []LateCallsBounded
<1>1. TypeOK /\ Together /\ PoolInv => LateCallsBounded
  <2> SUFFICES ASSUME TypeOK, Together, PoolInv PROVE LateCallsBounded
    OBVIOUS
  <2> DEFINE called == {e \in EventIds : log[e].late > 0}
  <2>1. IsFiniteSet(EventIds)
    BY PipelineAssumption, FS_Interval DEF EventIds
  <2>2. IsFiniteSet(Late) /\ called \subseteq Late
    BY <2>1, FS_Subset DEF Late, Exposed
  <2>3. /\ Cardinality(called) <= Cardinality(Late)
        /\ Cardinality(called) \in Nat /\ Cardinality(Late) \in Nat
    BY <2>2, FS_Subset, FS_CardinalityType
  <2>4. workers * Cardinality(retired) \in Nat
    BY DetectionAssumption, FS_CardinalityType DEF TypeOK, PoolInv
  <2>5. Cardinality(Late) <= workers * Cardinality(retired)
    BY DEF PoolInv
  <2> HIDE DEF called
  <2>6. Cardinality(called) <= workers * Cardinality(retired)
    BY <2>3, <2>4, <2>5
  <2>7. QED BY <2>6 DEF LateCallsBounded, called
<1>2. PipelineSpec => []PoolInv
  BY DetectionHolds, TogetherHolds, PoolInit, PoolNext, PTL DEF PipelineSpec, Step
<1>3. QED BY <1>1, <1>2, DetectionHolds, TogetherHolds, PTL

-----------------------------------------------------------------------------
\* On one worker, without failures and with no rule edited, a quiet system has made every
\* transition of the stored series known to the destination of each rule that asks for
\* it, or shows the alert as failed.
THEOREM TransitionsReachDestinations == PipelineSpec => []TransitionsMadeKnown
<1>1. TypeOK /\ WitnessInv /\ TransitionsAlerted /\ Together => TransitionsMadeKnown
  <2> SUFFICES ASSUME TypeOK, WitnessInv, TransitionsAlerted, Together,
                      Quiet, faults = 0, dispatchFaults = 0, ruleOps = 0, workers = 1,
                      NEW i \in 1..Len(rows), IsTransition(i),
                      NEW r \in Matching(rows[i].project, rows[i].window,
                                         rows[Before(i)].tier, rows[i].tier)
               PROVE  \E ev \in events :
                        /\ ev.row = i /\ ev.rule = r
                        /\ \/ status[ev.id] = "delivered" /\ log[ev.id].taken > 0
                           \/ status[ev.id] = "failed"
    BY DEF TransitionsMadeKnown
  <2>1. \A j \in Jobs : jobs[j].row = 0
    BY DEF Quiet, WitnessInv, Linked, LinkedWrite, FanningOut
  <2>2. FannedOut(i)
    BY <2>1 DEF FannedOut
  <2>3. Alerted(i, r)
    BY <2>2 DEF TransitionsAlerted
  <2>4. PICK ev \in events : ev.row = i /\ ev.rule = r /\ ev.id \in dispatched
    BY <2>3 DEF Alerted
  <2>5. PICK e \in EventIds : e = ev.id /\ task[e].state # "none" /\ status[e] \in Dispatch!Stored
    BY <2>4 DEF Together, HalvesAgree
  <2>6. task[e].state \in {"done", "archived"}
    BY <2>5 DEF Quiet
  <2>7. status[e] \in {"delivered", "failed"} /\ (status[e] = "delivered" => log[e].taken > 0)
    BY <2>5, <2>6 DEF Together, DeliveryOf, Shown, Truthful, Dispatch!Stored
  <2>8. QED BY <2>4, <2>5, <2>7
<1>2. Spec => []WitnessInv
  BY WitnessInit, WitnessNext, TypeCorrect, PTL DEF Spec
<1>3. QED BY <1>1, <1>2, DetectionWithin, EveryTransitionAlerts, DetectionHolds, TogetherHolds, PTL
-----------------------------------------------------------------------------
(***************************************************************************)
(* Pending alerts.  One that nobody will decide any more was left behind   *)
(* by a failure of its own.                                                *)
(***************************************************************************)

InHand(e) ==
  \/ \E j \in Jobs : jobs[j].pc = "enqueueing" /\ jobs[j].event = e
  \/ task[e].state = "queued"
  \/ task[e].state = "active" /\ attempt[e] # "marked"

Stranded == {e \in EventIds : status[e] = "pending" /\ ~InHand(e)}

Failures == faults + dispatchFaults

FewStranded == Cardinality(Stranded) <= Failures

LEMMA FailuresType ==
  ASSUME TypeOK, Dispatch!TypeOK
  PROVE  faults \in Nat /\ dispatchFaults \in Nat /\ Failures \in Nat
  BY DetectionAssumption, PipelineAssumption
     DEF TypeOK, Dispatch!TypeOK, Dispatch!DispatchAssumption, Failures

LEMMA FailuresTypeNext ==
  TypeOK' /\ (Dispatch!TypeOK)' => (faults \in Nat /\ dispatchFaults \in Nat /\ Failures \in Nat)'
<1>1. TypeOK /\ Dispatch!TypeOK => faults \in Nat /\ dispatchFaults \in Nat /\ Failures \in Nat
  BY FailuresType
<1>2. QED BY <1>1, PTL

LEMMA StrandedFinite ==
  /\ IsFiniteSet(EventIds)
  /\ \A S \in SUBSET EventIds : IsFiniteSet(S) /\ Cardinality(S) \in Nat
<1>1. IsFiniteSet(EventIds)
  BY PipelineAssumption, FS_Interval DEF EventIds
<1>2. QED BY <1>1, FS_Subset, FS_CardinalityType

\* A step that strands no event, or one with one failure more.
LEMMA StrandedMoves ==
  ASSUME TypeOK, Dispatch!TypeOK, TypeOK', (Dispatch!TypeOK)', FewStranded,
         \/ Stranded' \subseteq Stranded /\ Failures <= Failures'
         \/ \E e \in EventIds : Stranded' \subseteq Stranded \cup {e} /\ Failures' = Failures + 1
  PROVE  FewStranded'
<1>1. Failures \in Nat /\ Failures' \in Nat
  BY FailuresType, FailuresTypeNext
<1>2. Stranded \in SUBSET EventIds /\ Stranded' \in SUBSET EventIds
  BY DEF Stranded
<1>3. /\ IsFiniteSet(Stranded) /\ Cardinality(Stranded) \in Nat /\ Cardinality(Stranded') \in Nat
      /\ IsFiniteSet(Stranded')
  BY <1>2, StrandedFinite
<1>4. CASE Stranded' \subseteq Stranded /\ Failures <= Failures'
  <2>1. Cardinality(Stranded') <= Cardinality(Stranded)
    BY <1>3, <1>4, FS_Subset
  <2>2. QED BY <1>1, <1>3, <1>4, <2>1 DEF FewStranded
<1>5. ASSUME NEW e \in EventIds, Stranded' \subseteq Stranded \cup {e}, Failures' = Failures + 1
      PROVE  FewStranded'
  <2>1. /\ IsFiniteSet(Stranded \cup {e})
        /\ Cardinality(Stranded \cup {e}) \in {Cardinality(Stranded), Cardinality(Stranded) + 1}
    BY <1>3, FS_AddElement
  <2>2. Cardinality(Stranded') <= Cardinality(Stranded \cup {e})
    BY <1>5, <2>1, FS_Subset
  <2>3. QED BY <1>1, <1>3, <1>5, <2>1, <2>2 DEF FewStranded
<1>6. QED BY <1>4, <1>5

\* The jobs about to hand an event over go on, the one of `lost' excepted.
HandsKept(lost) ==
  \A j \in Jobs : jobs[j].pc = "enqueueing" /\ jobs[j].event # lost => jobs'[j] = jobs[j]

LEMMA DetectionStrands ==
  ASSUME UNCHANGED dispatchVars, NEW lost, HandsKept(lost)
  PROVE  Stranded' \subseteq Stranded \cup {lost}
<1> SUFFICES ASSUME NEW e \in Stranded', e # lost PROVE e \in Stranded
  OBVIOUS
<1>1. e \in EventIds /\ status[e] = "pending" /\ ~InHand(e)'
  BY DEF Stranded, dispatchVars
<1>2. ~InHand(e)
  BY <1>1 DEF InHand, HandsKept, dispatchVars
<1>3. QED BY <1>1, <1>2 DEF Stranded

\* No job hands the event 0 over.
LEMMA DetectionStrandsNone ==
  ASSUME UNCHANGED dispatchVars, \A j \in Jobs : jobs[j].pc = "enqueueing" => jobs'[j] = jobs[j]
  PROVE  Stranded' \subseteq Stranded
<1>1. HandsKept(0)
  BY DEF HandsKept
<1>2. 0 \notin EventIds
  BY PipelineAssumption DEF EventIds
<1>3. Stranded' \subseteq EventIds
  BY DEF Stranded
<1>4. QED BY <1>1, <1>2, <1>3, DetectionStrands

\* The steps of the detection without the delivery's columns.
LEMMA ComputeStrands ==
  ASSUME TypeOK, TaskInv, Together, UNCHANGED dispatchVars, NEW j \in Jobs,
         \/ Compute(j) \/ EnqueueCompute(j) \/ ComputeFaulty(j)
         \/ EnqueueDispatchFails(j)
  PROVE  \/ Stranded' \subseteq Stranded /\ Failures <= Failures'
         \/ \E e \in EventIds : Stranded' \subseteq Stranded \cup {e} /\ Failures' = Failures + 1
<1>1. jobs \in [Jobs -> JobRec]
  BY DEF TypeOK
<1>2. dispatchFaults' = dispatchFaults /\ faults \in Nat /\ dispatchFaults \in Nat
  BY FailuresType DEF dispatchVars, Together
<1>3. \A k \in Jobs \ {j} : jobs'[k] = jobs[k]
  <2>1. ASSUME NEW x, jobs' = [jobs EXCEPT ![j] = x] PROVE \A k \in Jobs \ {j} : jobs'[k] = jobs[k]
    BY <1>1, <2>1
  <2>2. CASE UNCHANGED jobs
    BY <2>2
  <2>3. ASSUME NEW pc, NEW retried, Forget(j, pc, retried)
        PROVE  \A k \in Jobs \ {j} : jobs'[k] = jobs[k]
    BY <1>1, <2>3 DEF Forget
  <2>4. ASSUME NEW todo, Continue(j, todo) PROVE \A k \in Jobs \ {j} : jobs'[k] = jobs[k]
    BY <1>1, <2>3, <2>4 DEF Continue, Succeed
  <2>5. CASE Compute(j)
    BY <1>1, <2>3, <2>4, <2>5
       DEF Compute, SkipMissingProject, ReadPrevious, RecordWindow, MatchRules, InsertEventFails,
           Succeed
  <2>6. CASE ComputeFaulty(j) \/ EnqueueDispatchFails(j) \/ EnqueueCompute(j)
    BY <1>1, <2>3, <2>4, <2>6
       DEF ComputeFaulty, EnqueueDispatchFails, EnqueueCompute, CrashCompute, MatchRulesFails,
           MissPrevious, ComputeFails, Succeed, GiveBack
  <2>7. QED BY <2>5, <2>6
<1>4. CASE jobs[j].pc # "enqueueing" /\ faults' \in {faults, faults + 1}
  <2>1. Stranded' \subseteq Stranded
    BY <1>3, <1>4, DetectionStrandsNone
  <2>2. Failures' \in {Failures, Failures + 1} /\ Failures \in Nat
    <3>1. CASE faults' = faults
      BY <1>2, <3>1 DEF Failures
    <3>2. CASE faults' = faults + 1
      BY <1>2, <3>2 DEF Failures
    <3>3. QED BY <1>4, <3>1, <3>2
  <2>3. \A a \in Nat : \A b \in {a, a + 1} : a <= b
    OBVIOUS
  <2>4. QED BY <2>1, <2>2, <2>3, Zenon
<1>5. CASE jobs[j].pc = "enqueueing" /\ faults' = faults + 1
  <2>1. jobs[j].event \in EventIds
    BY <1>5, PipelineAssumption DEF TaskInv, HeldIds, Together, Numbered, EventIds
  <2>2. HandsKept(jobs[j].event)
    BY <1>3 DEF HandsKept
  <2>3. Stranded' \subseteq Stranded \cup {jobs[j].event}
    BY <2>2, DetectionStrands
  <2>4. Failures' = Failures + 1
    BY <1>2, <1>5 DEF Failures
  <2>5. QED BY <2>1, <2>3, <2>4
<1>6. CASE Compute(j) \/ EnqueueCompute(j)
  <2>1. jobs[j].pc # "enqueueing" /\ (faults' = faults \/ faults' = faults + 1)
    BY <1>6 DEF Compute, EnqueueCompute, SkipMissingProject, ReadPrevious, RecordWindow, MayStart,
       MatchRules, InsertEventFails, Fault
  <2>2. QED BY <1>2, <1>4, <2>1
<1>7. CASE ComputeFaulty(j) \/ EnqueueDispatchFails(j)
  <2>1. faults' = faults + 1
    BY <1>7 DEF ComputeFaulty, EnqueueDispatchFails, CrashCompute, MatchRulesFails, MissPrevious,
       ComputeFails, Fault
  <2>2. QED BY <1>2, <1>4, <1>5, <2>1
<1>8. QED BY <1>6, <1>7

\* The steps that both components take together.
LEMMA SharedStrands ==
  ASSUME TypeOK, TaskInv, Together, NEW j \in Jobs,
         \/ \E m \in jobs[j].todo : StoreEvent(j, m)
         \/ SubmitTask(j)
         \/ SubmitTaskFails(j) /\ dispatched' # dispatched
  PROVE  Stranded' \subseteq Stranded
<1>1. jobs \in [Jobs -> JobRec] /\ Dispatch!TypeOK
  BY DEF TypeOK, Together
<1>2. ASSUME NEW m \in jobs[j].todo, StoreEvent(j, m) PROVE Stranded' \subseteq Stranded
  <2>0. nextEvent \in EventIds
    BY <1>2 DEF StoreEvent, EventIds, TypeOK
  <2>1. /\ jobs[j].pc = "inserting"
        /\ status' = [status EXCEPT ![nextEvent] = "pending"] /\ UNCHANGED <<task, attempt>>
        /\ jobs' = [jobs EXCEPT ![j].pc = "enqueueing", ![j].event = nextEvent,
                                ![j].todo = jobs[j].todo \ {m}]
    BY <1>2 DEF StoreEvent, InsertEvent, Dispatch!Create
  <2>2. jobs'[j].pc = "enqueueing" /\ jobs'[j].event = nextEvent
    BY <1>1, <2>1 DEF JobRec
  <2>3. \A k \in Jobs \ {j} : jobs'[k] = jobs[k]
    BY <1>1, <2>1
  <2>4. \A e \in EventIds : e = nextEvent => InHand(e)'
    BY <2>2 DEF InHand
  <2>5. \A e \in EventIds : InHand(e) => InHand(e)'
    BY <2>1, <2>3 DEF InHand
  <2>6. \A e \in EventIds \ {nextEvent} : status'[e] = status[e]
    BY <1>1, <2>1 DEF Dispatch!TypeOK
  <2>7. QED BY <2>4, <2>5, <2>6 DEF Stranded
<1>3. CASE SubmitTask(j) \/ (SubmitTaskFails(j) /\ dispatched' # dispatched)
  <2> DEFINE n == jobs[j].event
  <2>1. Dispatch!Submit(n) /\ jobs[j].pc = "enqueueing" /\ \E todo : Continue(j, todo)
    BY <1>3 DEF SubmitTask, SubmitTaskFails, EnqueueDispatch, EnqueueDispatchFails
  <2>2. n \in EventIds
    BY <2>1, PipelineAssumption DEF TaskInv, HeldIds, Together, Numbered, EventIds
  <2>3. \A k \in Jobs \ {j} : jobs'[k] = jobs[k]
    BY <1>1, <2>1 DEF Continue, Succeed, Forget
  <2>4. UNCHANGED <<status, attempt>> /\ task' = [task EXCEPT ![n].state = "queued"]
    BY <2>1 DEF Dispatch!Submit, Dispatch!rowVars
  <2>5. task'[n].state = "queued" /\ \A e \in EventIds \ {n} : task'[e] = task[e]
    BY <1>1, <2>2, <2>4 DEF Dispatch!TypeOK
  <2>6. ASSUME NEW e \in EventIds, InHand(e) PROVE InHand(e)'
    <3>1. CASE e = n
      BY <2>5, <3>1 DEF InHand
    <3>2. CASE e # n
      <4>1. \A k \in Jobs : jobs[k].pc = "enqueueing" /\ jobs[k].event = e => jobs'[k] = jobs[k]
        BY <2>3, <3>2
      <4> HIDE DEF n
      <4>2. QED BY <2>4, <2>5, <2>6, <3>2, <4>1 DEF InHand
    <3>3. QED BY <3>1, <3>2
  <2>7. QED BY <2>4, <2>6 DEF Stranded
<1>4. QED BY <1>2, <1>3

\* The steps of a delivery.
LEMMA DeliverStrands ==
  ASSUME TypeOK, Together, UNCHANGED vars, NEW e \in EventIds, Deliver(e) \/ DeliverFaulty(e)
  PROVE  \/ Stranded' \subseteq Stranded /\ Failures <= Failures'
         \/ Stranded' \subseteq Stranded \cup {e} /\ Failures' = Failures + 1
<1>1. Dispatch!TypeOK /\ UNCHANGED <<jobs, faults>> /\ faults \in Nat /\ dispatchFaults \in Nat
  BY FailuresType DEF Together, vars
<1>2. Alone(e)
  BY <1>1, WorkAlone, FaultyAlone DEF Deliver, DeliverFaulty
<1>3. Stranded' \subseteq Stranded \cup {e}
  <2>1. \A d \in EventIds \ {e} : status'[d] = status[d] /\ (InHand(d)' <=> InHand(d))
    BY <1>1, <1>2 DEF Alone, InHand
  <2>2. QED BY <2>1 DEF Stranded
<1>4. CASE DeliverFaulty(e)
  <2>1. dispatchFaults' = dispatchFaults + 1
    BY <1>4 DEF DeliverFaulty, Dispatch!Faulty, Dispatch!LoadFails, Dispatch!MarkFails,
       Dispatch!Crash, Dispatch!PutBack, Dispatch!Fault
  <2>2. QED BY <1>1, <1>3, <2>1 DEF Failures
<1>5. CASE Deliver(e)
  <2>1. dispatchFaults' = dispatchFaults /\ Dispatch!Work(e)
    BY <1>1, <1>5, WorkAlone DEF Deliver
  <2>2. status'[e] = "pending" => InHand(e)' \/ (status[e] = "pending" /\ ~InHand(e))
        \/ (\E j \in Jobs : jobs[j].pc = "enqueueing" /\ jobs[j].event = e)
    <3>1. CASE Dispatch!DropRemoved(e)
      BY <3>1 DEF Dispatch!DropRemoved, Dispatch!rowVars
    <3>2. CASE Dispatch!Load(e)
      <4>1. task'[e].state = "active" /\ attempt'[e] = "loaded"
        BY <1>1, <3>2 DEF Dispatch!Load, Dispatch!TypeOK
      <4>2. QED BY <4>1 DEF InHand
    <3>3. CASE \E a \in Dispatch!Answers : Dispatch!Post(e, a)
      <4>1. attempt'[e] = "posted" /\ task'[e] = task[e] /\ attempt[e] = "loaded"
        BY <1>1, <3>3 DEF Dispatch!Post, Dispatch!TypeOK
      <4>2. task[e].state = "active"
        BY <4>1 DEF Together, DeliveryOf, Attempting
      <4>3. QED BY <4>1, <4>2 DEF InHand
    <3>4. CASE Dispatch!Mark(e)
      BY <1>1, <3>4 DEF Dispatch!Mark, Dispatch!TypeOK, Dispatch!rowVars
    <3>5. CASE Dispatch!Settle(e)
      <4>1. attempt[e] = "marked" /\ status' = status
        BY <3>5 DEF Dispatch!Settle, Dispatch!rowVars
      <4>2. task[e].state = "active"
        BY <4>1 DEF Together, DeliveryOf, Attempting
      <4>3. QED BY <4>1, <4>2 DEF InHand
    <3>6. QED BY <2>1, <3>1, <3>2, <3>3, <3>4, <3>5 DEF Dispatch!Work
  <2>3. (\E j \in Jobs : jobs[j].pc = "enqueueing" /\ jobs[j].event = e) => InHand(e)'
    BY <1>1 DEF InHand
  <2>4. Stranded' \subseteq Stranded
    BY <1>3, <2>2, <2>3 DEF Stranded
  <2>5. QED BY <1>1, <2>1, <2>4 DEF Failures
<1>6. QED BY <1>4, <1>5

LEMMA StrandedInit == PipelineInit => FewStranded
<1> SUFFICES ASSUME PipelineInit PROVE FewStranded
  OBVIOUS
<1>1. Stranded = {} /\ Failures = 0
  BY DEF PipelineInit, Init, Dispatch!Init, Stranded, Failures
<1>2. QED BY <1>1, FS_EmptySet DEF FewStranded

LEMMA StrandedNext ==
  /\ TypeOK /\ TaskInv /\ Together /\ TypeOK' /\ Together'
  /\ FewStranded /\ [Step]_pipelineVars
  => FewStranded'
<1> SUFFICES ASSUME TypeOK, TaskInv, Together, TypeOK', Together', FewStranded,
                    [Step]_pipelineVars
             PROVE  FewStranded'
  OBVIOUS
<1>1. Dispatch!TypeOK /\ (Dispatch!TypeOK)'
  BY DEF Together
<1>2. Failures \in Nat /\ faults \in Nat /\ dispatchFaults \in Nat
  BY <1>1, FailuresType
<1>3. ASSUME Stranded' \subseteq Stranded, Failures <= Failures' PROVE FewStranded'
  BY <1>1, <1>3, StrandedMoves
<1>4. ASSUME NEW j \in Jobs, Compute(j) \/ EnqueueCompute(j) \/ ComputeFaulty(j),
             UNCHANGED dispatchVars
      PROVE  FewStranded'
  BY <1>1, <1>4, ComputeStrands, StrandedMoves
<1>5. ASSUME NEW j \in Jobs,
             (\E m \in jobs[j].todo : StoreEvent(j, m)) \/ SubmitTask(j)
      PROVE  FewStranded'
  <2>1. Stranded' \subseteq Stranded
    BY <1>5, SharedStrands
  <2>2. UNCHANGED <<faults, dispatchFaults>>
    BY <1>5 DEF StoreEvent, InsertEvent, SubmitTask, EnqueueDispatch, Dispatch!Create,
       Dispatch!Submit
  <2>3. QED BY <1>2, <1>3, <2>1, <2>2 DEF Failures
<1>6. ASSUME NEW j \in Jobs, SubmitTaskFails(j) PROVE FewStranded'
  <2>1. EnqueueDispatchFails(j)
    BY <1>6 DEF SubmitTaskFails
  <2>2. CASE dispatched' = dispatched
    <3>1. UNCHANGED dispatchVars
      BY <1>6, <2>2 DEF SubmitTaskFails
    <3>2. QED BY <1>1, <2>1, <3>1, ComputeStrands, StrandedMoves
  <2>3. CASE dispatched' # dispatched
    <3>1. Stranded' \subseteq Stranded
      BY <1>6, <2>3, SharedStrands
    <3>2. faults' = faults + 1 /\ dispatchFaults' = dispatchFaults
      BY <1>6, <2>1, <2>3 DEF SubmitTaskFails, EnqueueDispatchFails, Fault, Dispatch!Submit
    <3>3. QED BY <1>2, <1>3, <3>1, <3>2 DEF Failures
  <2>4. QED BY <2>2, <2>3
<1>7. CASE Request /\ UNCHANGED dispatchVars
  <2>1. UNCHANGED <<jobs, faults, dispatchFaults>>
    BY <1>7 DEF Request, CreateRule, UpdateRule, RemoveProject, dispatchVars
  <2>2. Stranded' \subseteq Stranded
    BY <1>7, <2>1, DetectionStrandsNone
  <2>3. QED BY <1>2, <1>3, <2>1, <2>2 DEF Failures
<1>8. ASSUME NEW r \in RuleIds, RemoveRule(r) PROVE FewStranded'
  <2> DEFINE E == {ev.id : ev \in {ev \in events : ev.rule = r}}
  <2>1. DeleteRule(r) /\ Dispatch!Remove(E)
    BY <1>8 DEF RemoveRule
  <2> HIDE DEF E
  <2>2. UNCHANGED <<jobs, faults, dispatchFaults, task, attempt>>
    BY <2>1 DEF DeleteRule, Dispatch!Remove
  <2>3. \A e \in EventIds : status'[e] = IF e \in E THEN "removed" ELSE status[e]
    BY <2>1 DEF Dispatch!Remove
  <2>4. \A e \in EventIds : InHand(e)' <=> InHand(e)
    BY <2>2 DEF InHand
  <2>5. Stranded' \subseteq Stranded
    BY <2>3, <2>4 DEF Stranded
  <2>6. QED BY <1>2, <1>3, <2>2, <2>5 DEF Failures
<1>9. ASSUME NEW e \in EventIds, Deliver(e) \/ DeliverFaulty(e), UNCHANGED vars
      PROVE  FewStranded'
  BY <1>1, <1>9, DeliverStrands, StrandedMoves
<1>10. CASE UNCHANGED pipelineVars
  <2>1. UNCHANGED dispatchVars /\ UNCHANGED <<jobs, faults, dispatchFaults>>
    BY <1>10 DEF pipelineVars, vars, dispatchVars
  <2>2. Stranded' \subseteq Stranded
    BY <2>1, DetectionStrandsNone
  <2>3. QED BY <1>2, <1>3, <2>1, <2>2 DEF Failures
<1>11. QED
  BY <1>4, <1>5, <1>6, <1>7, <1>8, <1>9, <1>10 DEF Step, PipelineNext, WorkOn

\* Between the insert of an event and its destination many things may be lost: a
\* worker, an enqueue, an UPDATE, an attempt.  Each leaves one alert pending at most,
\* for any number of jobs, workers, rules, events, repetitions and failures.
THEOREM FailuresStrandOneEach == PipelineSpec => []OnePendingPerFailure
<1>1. TypeOK /\ Together /\ FewStranded => OnePendingPerFailure
  <2> SUFFICES ASSUME TypeOK, Together, FewStranded, Quiet
               PROVE  Cardinality({e \in EventIds : status[e] = "pending"}) <= faults + dispatchFaults
    BY DEF OnePendingPerFailure
  <2>1. \A e \in EventIds : ~InHand(e)
    BY DEF Quiet, InHand
  <2>2. {e \in EventIds : status[e] = "pending"} = Stranded
    BY <2>1 DEF Stranded
  <2>3. QED BY <2>2 DEF FewStranded, Failures
<1>2. QED BY <1>1, DetectionHolds, TogetherHolds, StrandedInit, StrandedNext, PTL
          DEF PipelineSpec, Step
=============================================================================
