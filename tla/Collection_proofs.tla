--------------------------- MODULE Collection_proofs ---------------------------
(***************************************************************************)
(* Proofs about Collection, for every set of deployments, merge requests   *)
(* and tasks, and every value of the windows and the bounds.               *)
(***************************************************************************)
EXTENDS Collection, FiniteSetTheorems, WellFoundedInduction, TLAPS

-----------------------------------------------------------------------------
(* Type correctness.                                                        *)

LEMMA NoJobType == NoJob \in JobRec
  BY CollectionAssumption DEF NoJob, JobRec, Time

LEMMA InitType == Init => TypeOK
<1> SUFFICES ASSUME Init PROVE TypeOK
  OBVIOUS
<1>1. jobs \in [Jobs -> JobRec]
  BY NoJobType DEF Init
<1>2. 0 \in Time
  BY CollectionAssumption DEF Time
<1>3. NoRow \in Row
  BY DEF NoRow, Row, Status
<1>4. \A o \in Items : RowOf(o) = NoRow
  BY DEF Init, RowOf, NoRow
<1>5. remote \in [Items -> [status : Status, at : Time \cup {Never}, updated : Time, revision : Nat]]
  BY <1>2 DEF Init, Status
<1>6. QED BY <1>1, <1>2, <1>3, <1>4, <1>5, CollectionAssumption DEF Init, TypeOK

\* The end of an attempt leaves a task that is gone or waits again.
LEMMA GiveBackType ==
  ASSUME TypeOK, NEW j \in Jobs, GiveBack(j)
  PROVE  \E r \in JobRec : /\ jobs' = [jobs EXCEPT ![j] = r]
                           /\ r.pc \in {"idle", "queued"} /\ r.todo = {} /\ r.page = 1
                           /\ r.unlinked = {}
<1>1. jobs[j] \in JobRec /\ NoJob \in JobRec
  BY NoJobType DEF TypeOK
<1>2. NoJob.pc = "idle" /\ NoJob.todo = {} /\ NoJob.page = 1 /\ NoJob.unlinked = {}
  BY DEF NoJob
<1>3. CASE jobs[j].retried = MaxRetry
  BY <1>1, <1>2, <1>3 DEF GiveBack
<1>4. CASE jobs[j].retried # MaxRetry
  <2> DEFINE r == [NoJob EXCEPT !.pc = "queued", !.backfill = jobs[j].backfill,
                                !.retried = jobs[j].retried + 1]
  <2>1. jobs[j].retried + 1 \in 0..MaxRetry
    BY <1>1, <1>4, CollectionAssumption DEF JobRec
  <2>2. r \in JobRec
    BY <1>1, <2>1 DEF JobRec
  <2>3. r.pc = "queued" /\ r.todo = {} /\ r.page = 1 /\ r.unlinked = {}
    BY <1>1, <1>2 DEF JobRec
  <2>4. jobs' = [jobs EXCEPT ![j] = r]
    BY <1>4 DEF GiveBack
  <2> HIDE DEF r
  <2>5. QED BY <2>2, <2>3, <2>4
<1>5. QED BY <1>3, <1>4

LEMMA GiveBackJobs ==
  ASSUME TypeOK, NEW j \in Jobs, GiveBack(j)
  PROVE  jobs' \in [Jobs -> JobRec]
<1>1. PICK r \in JobRec : jobs' = [jobs EXCEPT ![j] = r]
  BY GiveBackType
<1>2. QED BY <1>1 DEF TypeOK

LEMMA ChangeType ==
  ASSUME TypeOK, NEW o \in Items, NEW status \in Status, NEW at \in Time \cup {Never},
         status \in {"none", "running"} <=> at = Never, Change(o, status, at)
  PROVE  TypeOK'
<1>1. revision' \in Nat
  BY DEF Change, TypeOK
<1>2. remote' \in [Items -> [status : Status, at : Time \cup {Never}, updated : Time, revision : Nat]]
  BY <1>1 DEF Change, TypeOK
<1>3. ASSUME NEW p \in Items PROVE RowOf(p)' \in Row
  <2>1. CASE p = o
    <3>1. RowOf(p)' = [status |-> status, at |-> at]
      BY <2>1 DEF Change, RowOf, TypeOK
    <3>2. QED BY <3>1 DEF Row
  <2>2. CASE p # o
    <3>1. RowOf(p)' = RowOf(p)
      BY <2>2 DEF Change, RowOf, TypeOK
    <3>2. QED BY <3>1 DEF TypeOK
  <2>3. QED BY <2>1, <2>2
<1>4. QED BY <1>1, <1>2, <1>3 DEF Change, TypeOK, tables

\* One of the changes in GitLab, with the row it leaves.
LEMMA GitLabChanges ==
  ASSUME TypeOK, GitLab
  PROVE  \E o \in Items, status \in Status \ {"none"}, at \in Time \cup {Never} :
            (status \in {"none", "running"} <=> at = Never) /\ Change(o, status, at)
<1>1. now \in Time /\ now # Never /\ {"running", "success", "failed", "merged"} \subseteq Status
  BY CollectionAssumption DEF TypeOK, Time, Never, Status
<1>2. CASE \E d \in Deployments : Deploy(d)
  BY <1>1, <1>2 DEF Deploy, Items
<1>3. CASE \E d \in Deployments : Finish(d, "success") \/ Finish(d, "failed")
  BY <1>1, <1>3 DEF Finish, Items
<1>4. CASE \E m \in MergeRequests : Merge(m)
  BY <1>1, <1>4 DEF Merge, Items
<1>5. QED BY <1>2, <1>3, <1>4 DEF GitLab

LEMMA SinceType ==
  ASSUME TypeOK, NEW backfill \in BackfillDays
  PROVE  /\ Since(lastSynced, backfill) \in Int
         /\ lastSynced = Never => Since(lastSynced, backfill) <= now - Month
         /\ lastSynced # Never => Since(lastSynced, backfill) <= lastSynced - Overlap
<1>1. now \in Int /\ lastSynced \in Int /\ Month \in Int /\ Overlap \in Int /\ backfill \in Int
  BY CollectionAssumption DEF TypeOK, Time, Never
<1>2. QED BY <1>1 DEF Since, EarlierOf

LEMMA FetchPageType ==
  ASSUME TypeOK, NEW j \in Jobs, FetchPage(j)
  PROVE  jobs' \in [Jobs -> JobRec]
<1> DEFINE job == jobs[j]
           found == Found(job.pc, job.since)
           batch == {o \in found : Position(o, found) \in (job.page - 1) * PerPage .. job.page * PerPage - 1}
           more == job.page * PerPage < Cardinality(found)
           new == {[item |-> o, row |-> RowOf(o), revision |-> remote[o].revision] : o \in batch}
           r == [job EXCEPT !.todo = job.todo \cup new,
                            !.page = IF more THEN job.page + 1 ELSE 1,
                            !.pc = IF more THEN job.pc ELSE After(job.pc)]
<1>1. job \in JobRec /\ jobs \in [Jobs -> JobRec]
  BY DEF TypeOK
<1>2. jobs' = [jobs EXCEPT ![j] = r]
  BY <1>1 DEF FetchPage
<1>3. new \subseteq Listed
  <2>1. batch \subseteq Items
    BY DEF Found, Items
  <2>2. \A o \in Items : RowOf(o) \in Row /\ remote[o].revision \in Nat
    BY DEF TypeOK
  <2> HIDE DEF batch
  <2>3. QED BY <2>1, <2>2 DEF Listed
<1>4. After(job.pc) \in Running
  BY DEF After, Running
<1> HIDE DEF job, new, more
<1>5. r \in JobRec
  <2>1. (IF more THEN job.page + 1 ELSE 1) \in Nat
    BY <1>1 DEF JobRec
  <2>2. (IF more THEN job.pc ELSE After(job.pc)) \in {"idle", "queued"} \cup Running
    BY <1>1, <1>4 DEF JobRec
  <2>3. job.todo \cup new \in SUBSET Listed
    BY <1>1, <1>3 DEF JobRec
  <2>4. QED BY <1>1, <2>1, <2>2, <2>3 DEF JobRec
<1> HIDE DEF r
<1>6. QED BY <1>1, <1>2, <1>5

LEMMA CorrelateType ==
  ASSUME TypeOK, NEW j \in Jobs, Correlate(j)
  PROVE  jobs' \in [Jobs -> JobRec]
<1> DEFINE successful == {d \in Production : stored[d].status = "success"}
           listed == {[item |-> d, at |-> stored[d].at] : d \in successful}
<1>1. \A d \in successful : d \in Deployments /\ stored[d].at \in Time
  BY CollectionAssumption DEF TypeOK, Row, Items
<1>2. listed \subseteq Closing
  <2> HIDE DEF successful
  <2>1. QED BY <1>1 DEF Closing
<1>3. jobs' = [jobs EXCEPT ![j].pc = "link", ![j].closing = listed, ![j].unlinked = listed]
  BY DEF Correlate
<1> HIDE DEF listed
<1> DEFINE r == [jobs[j] EXCEPT !.pc = "link", !.closing = listed, !.unlinked = listed]
<1>4. jobs \in [Jobs -> JobRec] /\ jobs' = [jobs EXCEPT ![j] = r]
  BY <1>3 DEF TypeOK
<1>5. r \in JobRec
  BY <1>2, <1>4 DEF JobRec, Running
<1> HIDE DEF r
<1>6. QED BY <1>4, <1>5

LEMMA StoreRowType ==
  ASSUME TypeOK, NEW j \in Jobs, NEW l \in jobs[j].todo, NEW b \in BOOLEAN,
         StoreRow(j, l, b), faults' \in 0..MaxFaults
  PROVE  TypeOK'
<1>1. l \in Listed /\ jobs[j] \in JobRec
  BY DEF TypeOK, JobRec
<1>2. l.item \in Items /\ l.row \in Row
  BY <1>1 DEF Listed
<1>3. stored' \in [Items -> Row]
  BY <1>2 DEF StoreRow, TypeOK
<1>4. firstCommit' \subseteq MergeRequests
  BY <1>2 DEF StoreRow, TypeOK, Items
<1>5. jobs' \in [Jobs -> JobRec]
  BY <1>1 DEF StoreRow, TypeOK, JobRec
<1>6. \A o \in Items : RowOf(o)' = RowOf(o)
  BY DEF StoreRow, RowOf, remoteVars
<1>7. QED BY <1>3, <1>4, <1>5, <1>6 DEF StoreRow, TypeOK, remoteVars

LEMMA LinkNextType ==
  ASSUME TypeOK, NEW j \in Jobs, NEW d \in jobs[j].unlinked, NEW linked \in SUBSET MergeRequests,
         LinkNext(j, d, linked), jobs' \in [Jobs -> JobRec], faults' \in 0..MaxFaults
  PROVE  TypeOK'
<1>1. d.item \in Deployments
  BY DEF TypeOK, JobRec, Closing
<1>2. links' \subseteq Deployments \X MergeRequests
  BY <1>1 DEF LinkNext, TypeOK
<1>3. \A o \in Items : RowOf(o)' = RowOf(o)
  BY DEF LinkNext, RowOf, remoteVars
<1>4. QED BY <1>2, <1>3 DEF LinkNext, TypeOK, remoteVars

\* A step that changes no more than the clock, the tasks, the time of the last
\* run and the counters.
LEMMA OthersType ==
  ASSUME TypeOK, now' \in Time, jobs' \in [Jobs -> JobRec], lastSynced' \in Time \cup {Never},
         runs' \in 0..MaxRuns, faults' \in 0..MaxFaults,
         UNCHANGED <<remoteVars, stored, firstCommit, links, workers>>
  PROVE  TypeOK'
<1>1. \A o \in Items : RowOf(o)' = RowOf(o)
  BY DEF RowOf, remoteVars
<1>2. QED BY <1>1 DEF TypeOK, remoteVars

LEMMA FaultType == ASSUME TypeOK, Fault PROVE faults' \in 0..MaxFaults
  BY CollectionAssumption DEF TypeOK, Fault

LEMMA WorkType ==
  ASSUME TypeOK, NEW j \in Jobs, Work(j)
  PROVE  TypeOK'
<1>1. jobs[j] \in JobRec /\ jobs \in [Jobs -> JobRec]
  BY DEF TypeOK
<1> USE DEF TypeOK, tables
<1>2. CASE Start(j)
  <2>1. jobs[j].backfill \in BackfillDays
    BY <1>1 DEF JobRec
  <2>2. Since(lastSynced, jobs[j].backfill) \in Int
    BY <2>1, SinceType
  <2>3. jobs' \in [Jobs -> JobRec]
    BY <1>1, <1>2, <2>2 DEF Start, JobRec, Running
  <2>4. QED BY <1>2, <2>3, OthersType DEF Start
<1>3. CASE FetchPage(j)
  <2>1. UNCHANGED <<now, remoteVars, tables, workers, runs, faults>>
    BY <1>3 DEF FetchPage
  <2>2. QED BY <1>3, <2>1, FetchPageType, OthersType
<1>4. CASE Correlate(j)
  BY <1>4, CorrelateType, OthersType DEF Correlate
<1>5. CASE Sync(j)
  <2>1. jobs' \in [Jobs -> JobRec]
    BY <1>1, <1>5, NoJobType DEF Sync
  <2>2. QED BY <1>5, <2>1, OthersType DEF Sync
<1>6. ASSUME NEW l \in jobs[j].todo, Store(j, l) PROVE TypeOK'
  BY <1>6, StoreRowType DEF Store
<1>7. ASSUME NEW d \in jobs[j].unlinked, Link(j, d) PROVE TypeOK'
  <2>1. MergedIn(From(d, jobs[j].closing), d.at) \subseteq MergeRequests
    BY DEF MergedIn
  <2>2. jobs' \in [Jobs -> JobRec]
    BY <1>1, <1>7 DEF Link, JobRec
  <2>3. QED BY <1>7, <2>1, <2>2, LinkNextType DEF Link
<1>8. CASE Expire(j)
  BY <1>8, GiveBackJobs, OthersType DEF Expire
<1>9. QED BY <1>2, <1>3, <1>4, <1>5, <1>6, <1>7, <1>8 DEF Work

LEMMA FaultyType ==
  ASSUME TypeOK, NEW j \in Jobs, Faulty(j)
  PROVE  TypeOK'
<1>1. CASE Fail(j)
  <2>1. now' \in Time /\ lastSynced' \in Time \cup {Never} /\ runs' \in 0..MaxRuns
    BY <1>1 DEF Fail, TypeOK, tables
  <2>2. jobs' \in [Jobs -> JobRec] /\ faults' \in 0..MaxFaults
    BY <1>1, GiveBackJobs, FaultType DEF Fail
  <2>3. QED BY <1>1, <2>1, <2>2, OthersType DEF Fail, tables
<1>2. ASSUME NEW l \in jobs[j].todo, StoreUncommitted(j, l) PROVE TypeOK'
  BY <1>2, StoreRowType, FaultType DEF StoreUncommitted
<1>3. ASSUME NEW d \in jobs[j].unlinked, LinkFails(j, d) PROVE TypeOK'
  <2>1. PICK some \in SUBSET MergedIn(From(d, jobs[j].closing), d.at) : LinkNext(j, d, some)
    BY <1>3 DEF LinkFails
  <2>2. some \in SUBSET MergeRequests
    BY DEF MergedIn
  <2>3. jobs' \in [Jobs -> JobRec] /\ faults' \in 0..MaxFaults
    BY <1>3, GiveBackJobs, FaultType DEF LinkFails
  <2>4. QED BY <2>1, <2>2, <2>3, LinkNextType
<1>4. QED BY <1>1, <1>2, <1>3 DEF Faulty

LEMMA NextType == TypeOK /\ [Next]_vars => TypeOK'
<1> SUFFICES ASSUME TypeOK, [Next]_vars PROVE TypeOK'
  OBVIOUS
<1>1. CASE Tick
  <2>1. now' \in Time
    BY <1>1, CollectionAssumption DEF Tick, TypeOK, Time
  <2>2. QED BY <1>1, <2>1, OthersType DEF Tick, TypeOK, tables
<1>2. CASE GitLab
  BY <1>2, GitLabChanges, ChangeType
<1>3. ASSUME NEW j \in Jobs, Work(j) PROVE TypeOK'
  BY <1>3, WorkType
<1>4. ASSUME NEW j \in Jobs, Faulty(j) PROVE TypeOK'
  BY <1>4, FaultyType
<1>5. ASSUME NEW j \in Jobs, NEW b \in BackfillDays, Enqueue(j, b) PROVE TypeOK'
  <2>1. jobs' \in [Jobs -> JobRec]
    <3> DEFINE r == [jobs[j] EXCEPT !.pc = "queued", !.backfill = b]
    <3>1. jobs \in [Jobs -> JobRec] /\ jobs' = [jobs EXCEPT ![j] = r]
      BY <1>5 DEF Enqueue, TypeOK
    <3>2. r \in JobRec
      BY <3>1 DEF JobRec
    <3> HIDE DEF r
    <3>3. QED BY <3>1, <3>2
  <2>2. runs' \in 0..MaxRuns
    BY <1>5, CollectionAssumption DEF Enqueue, TypeOK
  <2>3. QED BY <1>5, <2>1, <2>2, OthersType DEF Enqueue, TypeOK, tables
<1>6. CASE UNCHANGED vars
  BY <1>6, OthersType DEF vars, tables, TypeOK
<1>7. QED BY <1>1, <1>2, <1>3, <1>4, <1>5, <1>6 DEF Next

\* Every variable keeps its type: above all, what the correlation lists as a
\* successful deployment has a time it finished at.
THEOREM TypeCorrect == Spec => []TypeOK
<1>1. QED BY InitType, NextType, PTL DEF Spec

-----------------------------------------------------------------------------
(***************************************************************************)
(* No update is lost, as long as each listing fits on one page.            *)
(*                                                                         *)
(* NothingLost is not inductive: that what a run leaves behind is recent   *)
(* follows from what it has asked, holds and has stored.  An object is     *)
(* shown as GitLab has it, or the run is going to ask for it, or it holds  *)
(* the current row, or the update came late enough: after an answer that   *)
(* some attempt of the time still held.                                    *)
(***************************************************************************)

OnePage == Cardinality(Items) <= PerPage

WillAsk(r, o) ==
  /\ remote[o].updated >= r.since
  /\ r.pc = "deployments" \/ (r.pc = "mergeRequests" /\ o \in MergeRequests)

WillStore(r, o) == \E l \in r.todo : l.item = o /\ l.row = RowOf(o)

Late(r, o) == r.started <= remote[o].updated + Timeout

Covered(r, o) == Current(o) \/ WillAsk(r, o) \/ WillStore(r, o) \/ Late(r, o)

\* What the handler with the locals r holds of GitLab's answers: an outdated row was
\* updated after the attempt started.
Answers(r) ==
  \A l \in r.todo :
    /\ remote[l.item].status # "none"
    /\ l.row = RowOf(l.item) \/ r.started <= remote[l.item].updated

Sound(r) ==
  /\ r.page = 1
  /\ r.pc \in {"idle", "queued", "link"} => r.todo = {}
  /\ Answers(r)
  /\ r.pc \in Running => r.started <= now /\ \A o \in Items : Covered(r, o)

Clocks == lastSynced <= now /\ \A o \in Items : remote[o].updated <= now

AbsentUnstored == \A o \in Items : remote[o].status = "none" => stored[o] = NoRow

CollectionInv ==
  /\ TypeOK /\ Clocks /\ AbsentUnstored
  /\ \A j \in Jobs : Sound(jobs[j])
  /\ NothingLost

LEMMA Numbers ==
  ASSUME TypeOK
  PROVE  /\ now \in Nat /\ lastSynced \in Int /\ Timeout \in Nat /\ Overlap \in Nat
         /\ Month \in Nat /\ 2 * Timeout <= Overlap /\ now < Month
         /\ \A o \in Items : remote[o].updated \in Nat
         /\ \A r \in JobRec : r.started \in Nat /\ r.since \in Int
<1>1. MaxTime \in Nat /\ Time \subseteq Nat /\ Never \in Int /\ \A t \in Time : t <= MaxTime
  BY CollectionAssumption DEF Time, Never
<1>2. \A o \in Items : remote[o].updated \in Time
  BY DEF TypeOK
<1>3. \A r \in JobRec : r.started \in Time /\ r.since \in Int
  BY DEF JobRec
<1>4. now \in Time /\ lastSynced \in Time \cup {Never}
  BY DEF TypeOK
<1>5. Timeout \in Nat /\ Overlap \in Nat /\ Month \in Nat /\ 2 * Timeout <= Overlap /\ MaxTime < Month
  BY CollectionAssumption
<1>6. now \in Nat /\ lastSynced \in Int /\ now < Month
  <2>1. now \in Nat /\ now <= MaxTime /\ lastSynced \in Int
    BY <1>1, <1>4
  <2>2. QED BY <1>1, <1>5, <2>1
<1>7. QED BY <1>1, <1>2, <1>3, <1>5, <1>6

\* A task that waits, or is gone, holds nothing.
LEMMA WaitingSound ==
  ASSUME NEW r, r.pc \in {"idle", "queued"}, r.todo = {}, r.page = 1
  PROVE  Sound(r)
  BY DEF Sound, Answers, Running

LEMMA InitSound == Init => CollectionInv
<1> SUFFICES ASSUME Init PROVE CollectionInv
  OBVIOUS
<1>1. TypeOK
  BY InitType
<1>2. Clocks
  BY DEF Init, Clocks, Never
<1>3. AbsentUnstored
  BY DEF Init, AbsentUnstored
<1>4. ASSUME NEW j \in Jobs PROVE Sound(jobs[j])
  <2>1. jobs[j].pc = "idle" /\ jobs[j].todo = {} /\ jobs[j].page = 1
    BY DEF Init, NoJob
  <2>2. QED BY <2>1, WaitingSound
<1>5. NothingLost
  BY DEF Init, NothingLost
<1>6. QED BY <1>1, <1>2, <1>3, <1>4, <1>5 DEF CollectionInv

\* A step that touches one task's locals keeps the invariant when the new locals are
\* sound.
LEMMA TaskStep ==
  ASSUME CollectionInv, TypeOK', NEW j \in Jobs, NEW r \in JobRec, Sound(r),
         jobs' = [jobs EXCEPT ![j] = r],
         UNCHANGED <<now, remoteVars, stored, lastSynced>>
  PROVE  CollectionInv'
<1>1. now' = now /\ remote' = remote /\ stored' = stored /\ lastSynced' = lastSynced
  BY DEF remoteVars
<1>2. \A s : Sound(s)' <=> Sound(s)
  BY <1>1 DEF Sound, Answers, Covered, Current, WillAsk, WillStore, Late, RowOf
<1>3. ASSUME NEW k \in Jobs PROVE Sound(jobs[k])'
  <2>1. jobs'[k] = r \/ jobs'[k] = jobs[k]
    BY DEF CollectionInv, TypeOK
  <2>2. Sound(jobs'[k])
    BY <2>1 DEF CollectionInv
  <2>3. QED BY <1>1, <2>2 DEF Sound, Answers, Covered, Current, WillAsk, WillStore, Late, RowOf
<1>4. Clocks' /\ AbsentUnstored' /\ NothingLost'
  BY <1>1 DEF CollectionInv, Clocks, AbsentUnstored, NothingLost, Current, RowOf
<1>5. QED BY <1>3, <1>4 DEF CollectionInv

LEMMA GiveBackStep ==
  ASSUME CollectionInv, TypeOK', NEW j \in Jobs, GiveBack(j),
         UNCHANGED <<now, remoteVars, stored, lastSynced>>
  PROVE  CollectionInv'
<1>1. PICK r \in JobRec : /\ jobs' = [jobs EXCEPT ![j] = r]
                          /\ r.pc \in {"idle", "queued"} /\ r.todo = {} /\ r.page = 1
  BY GiveBackType DEF CollectionInv
<1>2. Sound(r)
  BY <1>1, WaitingSound
<1>3. QED BY <1>1, <1>2, TaskStep

-----------------------------------------------------------------------------
(* GitLab and the clock.                                                    *)

LEMMA TickStep ==
  ASSUME CollectionInv, TypeOK', Tick
  PROVE  CollectionInv'
<1>1. /\ now' = now + 1 /\ jobs' = jobs
      /\ remote' = remote /\ stored' = stored /\ lastSynced' = lastSynced
  BY DEF Tick, remoteVars, tables
<1>2. \A j \in Jobs : jobs[j] \in JobRec
  BY DEF CollectionInv, TypeOK
<1>3. \A j \in Jobs : jobs[j].started <= now => jobs[j].started <= now'
  BY <1>1, <1>2, Numbers DEF CollectionInv
<1>4. ASSUME NEW j \in Jobs PROVE Sound(jobs[j])'
  <2>1. Sound(jobs[j])
    BY DEF CollectionInv
  <2>2. QED
    BY <1>1, <1>3, <2>1 DEF Sound, Answers, Covered, Current, WillAsk, WillStore, Late, RowOf
<1>5. Clocks'
  BY <1>1, Numbers DEF CollectionInv, Clocks
<1>6. AbsentUnstored' /\ NothingLost'
  BY <1>1 DEF CollectionInv, AbsentUnstored, NothingLost, Current, RowOf
<1>7. QED BY <1>4, <1>5, <1>6 DEF CollectionInv

\* A change in GitLab is younger than every attempt that runs and than the last run.
LEMMA ChangeStep ==
  ASSUME CollectionInv, TypeOK', NEW o \in Items, NEW status \in Status \ {"none"},
         NEW at \in Time \cup {Never}, Change(o, status, at)
  PROVE  CollectionInv'
<1>1. now' = now /\ jobs' = jobs /\ stored' = stored /\ lastSynced' = lastSynced
  BY DEF Change, tables
<1>2. remote'[o].updated = now /\ remote'[o].status # "none"
  BY DEF Change, CollectionInv, TypeOK
<1>3. \A p \in Items : p # o => remote'[p] = remote[p]
  BY DEF Change, CollectionInv, TypeOK
<1>4. ASSUME NEW j \in Jobs PROVE Sound(jobs[j])'
  <2> DEFINE r == jobs[j]
  <2>1. Sound(r) /\ r \in JobRec /\ \A l \in r.todo : l.item \in Items
    BY DEF CollectionInv, TypeOK, JobRec, Listed
  <2>2. r.pc \in Running => r.started <= now
    BY <2>1 DEF Sound
  <2>3. r.todo # {} => r.pc \in Running
    BY <2>1 DEF Sound, JobRec
  <2>4. Answers(r)'
    <3> SUFFICES ASSUME NEW l \in r.todo
                 PROVE  /\ remote'[l.item].status # "none"
                        /\ l.row = RowOf(l.item)' \/ r.started <= remote'[l.item].updated
      BY <1>1 DEF Answers
    <3>1. CASE l.item = o
      BY <1>2, <2>2, <2>3, <3>1
    <3>2. CASE l.item # o
      BY <1>3, <2>1, <3>2 DEF Sound, Answers, RowOf
    <3>3. QED BY <3>1, <3>2
  <2>5. ASSUME r.pc \in Running, NEW p \in Items PROVE Covered(r, p)'
    <3>1. CASE p = o
      <4>1. r.started \in Nat /\ now \in Nat /\ Timeout \in Nat
        BY <2>1, Numbers DEF CollectionInv
      <4>2. r.started <= remote'[p].updated + Timeout
        BY <1>2, <2>2, <2>5, <3>1, <4>1
      <4>3. QED BY <1>1, <4>2 DEF Covered, Late
    <3>2. CASE p # o
      <4>1. Covered(r, p)
        BY <2>1, <2>5 DEF Sound
      <4>2. QED
        BY <1>1, <1>3, <3>2, <4>1 DEF Covered, Current, WillAsk, WillStore, Late, RowOf
    <3>3. QED BY <3>1, <3>2
  <2>6. QED BY <1>1, <2>1, <2>2, <2>4, <2>5 DEF Sound
<1>5. Clocks'
  BY <1>1, <1>2, <1>3, Numbers DEF CollectionInv, Clocks
<1>6. AbsentUnstored'
  BY <1>1, <1>2, <1>3 DEF CollectionInv, AbsentUnstored
<1>7. NothingLost'
  <2> SUFFICES ASSUME lastSynced # Never, NEW p \in Items
               PROVE  Current(p)' \/ remote'[p].updated >= lastSynced - Overlap
    BY <1>1 DEF NothingLost
  <2>1. CASE p = o
    BY <1>2, <2>1, Numbers DEF CollectionInv, Clocks
  <2>2. CASE p # o
    BY <1>1, <1>3, <2>2 DEF CollectionInv, NothingLost, Current, RowOf
  <2>3. QED BY <2>1, <2>2
<1>8. QED BY <1>4, <1>5, <1>6, <1>7 DEF CollectionInv

-----------------------------------------------------------------------------
(* The steps of a run.                                                      *)

LEMMA EnqueueStep ==
  ASSUME CollectionInv, TypeOK', NEW j \in Jobs, NEW b \in BackfillDays, Enqueue(j, b)
  PROVE  CollectionInv'
<1> DEFINE r == [jobs[j] EXCEPT !.pc = "queued", !.backfill = b]
<1>1. jobs[j] \in JobRec /\ Sound(jobs[j]) /\ jobs[j].pc = "idle"
  BY DEF Enqueue, CollectionInv, TypeOK
<1>2. r \in JobRec
  BY <1>1 DEF JobRec
<1>3. r.pc = "queued" /\ r.todo = {} /\ r.page = 1
  BY <1>1 DEF JobRec, Sound
<1>4. jobs' = [jobs EXCEPT ![j] = r]
  BY DEF Enqueue, CollectionInv, TypeOK
<1> HIDE DEF r
<1>5. Sound(r)
  BY <1>3, WaitingSound
<1>6. QED BY <1>2, <1>4, <1>5, TaskStep DEF Enqueue, tables

\* A run starts to ask for all that the last one may have left behind.
LEMMA StartStep ==
  ASSUME CollectionInv, TypeOK', NEW j \in Jobs, Start(j)
  PROVE  CollectionInv'
<1> DEFINE since == Since(lastSynced, jobs[j].backfill)
           r == [jobs[j] EXCEPT !.pc = "deployments", !.started = now, !.since = since]
<1>1. jobs[j] \in JobRec /\ Sound(jobs[j]) /\ jobs[j].pc = "queued" /\ TypeOK
  BY DEF Start, CollectionInv, TypeOK
<1>2. jobs[j].backfill \in BackfillDays
  BY <1>1 DEF JobRec
<1>3. /\ since \in Int
      /\ lastSynced = Never => since <= now - Month
      /\ lastSynced # Never => since <= lastSynced - Overlap
  BY <1>1, <1>2, SinceType
<1>4. jobs' = [jobs EXCEPT ![j] = r]
  BY <1>1 DEF Start, TypeOK
<1> HIDE DEF since
<1>5. r \in JobRec
  BY <1>1, <1>3 DEF JobRec, TypeOK, Running
<1>6. r.pc = "deployments" /\ r.todo = {} /\ r.page = 1 /\ r.started = now /\ r.since = since
  BY <1>1 DEF JobRec, Sound
<1> HIDE DEF r
<1>7. ASSUME NEW o \in Items PROVE Covered(r, o)
  <2>1. Current(o) \/ remote[o].updated >= since
    <3>1. now < Month /\ remote[o].updated \in Nat /\ now \in Nat /\ Month \in Nat /\ lastSynced \in Int
            /\ Overlap \in Nat
      BY <1>1, Numbers
    <3>2. CASE lastSynced = Never
      BY <1>3, <3>1, <3>2
    <3>3. CASE lastSynced # Never
      <4>1. Current(o) \/ remote[o].updated >= lastSynced - Overlap
        BY <3>3 DEF CollectionInv, NothingLost
      <4>2. QED BY <1>3, <3>1, <3>3, <4>1
    <3>4. QED BY <3>2, <3>3
  <2>2. QED BY <1>6, <2>1 DEF Covered, WillAsk
<1>8. Sound(r)
  <2>1. now <= now
    BY <1>1, Numbers
  <2>2. QED BY <1>6, <1>7, <2>1 DEF Sound, Answers
<1>9. QED BY <1>4, <1>5, <1>8, TaskStep DEF Start, tables

\* One page shows all of the kind that the run has asked for.
LEMMA OnePageShowsAll ==
  ASSUME TypeOK, OnePage, NEW kind, NEW since, NEW o \in Found(kind, since)
  PROVE  LET found == Found(kind, since)
         IN  /\ Cardinality(found) \in Nat /\ Cardinality(found) <= PerPage
             /\ Position(o, found) \in Nat /\ Position(o, found) < PerPage
<1> DEFINE found == Found(kind, since)
           before == {p \in found : remote[p].revision < remote[o].revision}
<1>1. found \subseteq Items /\ IsFiniteSet(Items)
  BY CollectionAssumption DEF Found, Items
<1>2. remote[o].revision \in Nat
  BY <1>1 DEF TypeOK
<1>3. o \in found \ before /\ before \subseteq found
  BY <1>2
<1>4. Position(o, found) = Cardinality(before)
  BY DEF Position
<1>5. PerPage \in Nat
  BY CollectionAssumption
<1> HIDE DEF found, before
<1>6. IsFiniteSet(found) /\ Cardinality(found) <= Cardinality(Items)
  BY <1>1, FS_Subset
<1>7. IsFiniteSet(before) /\ Cardinality(before) <= Cardinality(found) /\ before # found
  BY <1>3, <1>6, FS_Subset
<1>8. Cardinality(before) # Cardinality(found)
  BY <1>3, <1>6, <1>7, FS_Subset
<1>9. Cardinality(Items) \in Nat /\ Cardinality(found) \in Nat /\ Cardinality(before) \in Nat
  BY <1>1, <1>6, <1>7, FS_CardinalityType
<1>10. Cardinality(found) <= PerPage
  BY <1>5, <1>6, <1>9 DEF OnePage
<1>11. Cardinality(before) < PerPage
  BY <1>5, <1>7, <1>8, <1>9, <1>10
<1>12. QED BY <1>4, <1>9, <1>10, <1>11 DEF found

\* What the objects of a listing are shown as.
Shown(found) == {[item |-> o, row |-> RowOf(o), revision |-> remote[o].revision] : o \in found}

\* One request shows all that the listing finds.
LEMMA OnePageFetched ==
  ASSUME OnePage, TypeOK, NEW j \in Jobs, Sound(jobs[j]), FetchPage(j)
  PROVE  LET found == Found(jobs[j].pc, jobs[j].since)
         IN  jobs' = [jobs EXCEPT ![j] = [jobs[j] EXCEPT !.todo = jobs[j].todo \cup Shown(found),
                                                         !.page = 1, !.pc = After(jobs[j].pc)]]
<1> DEFINE job == jobs[j]
           found == Found(job.pc, job.since)
           shown == Shown(found)
           r == [job EXCEPT !.todo = job.todo \cup shown, !.page = 1, !.pc = After(job.pc)]
<1>1. job.page = 1
  BY DEF FetchPage, Sound
<1>2. job \in JobRec
  BY DEF TypeOK
<1>3. jobs' = [jobs EXCEPT ![j] = r]
  <2> DEFINE batch == {o \in found : Position(o, found) \in (job.page - 1) * PerPage .. job.page * PerPage - 1}
             more == job.page * PerPage < Cardinality(found)
  <2>1. PerPage \in Nat
    BY CollectionAssumption
  <2>2. found # {} => Cardinality(found) \in Nat /\ Cardinality(found) <= PerPage
    BY OnePageShowsAll
  <2>3. Cardinality({}) = 0
    BY FS_EmptySet
  <2>4. ~more
    <3> HIDE DEF found
    <3>1. 1 * PerPage = PerPage
      BY <2>1
    <3>2. QED BY <1>1, <2>1, <2>2, <2>3, <3>1
  <2>5. \A o \in found : Position(o, found) \in 0..PerPage - 1
    <3>1. \A o \in found : Position(o, found) \in Nat /\ Position(o, found) < PerPage
      BY OnePageShowsAll
    <3> HIDE DEF found
    <3>2. QED BY <2>1, <3>1
  <2>6. (job.page - 1) * PerPage = 0 /\ job.page * PerPage - 1 = PerPage - 1
    BY <1>1, <2>1
  <2>7. batch = found
    <3> HIDE DEF found
    <3>1. QED BY <2>5, <2>6
  <2>8. jobs' = [jobs EXCEPT
           ![j].todo = @ \cup {[item |-> o, row |-> RowOf(o), revision |-> remote[o].revision] :
                                 o \in batch},
           ![j].page = IF more THEN @ + 1 ELSE 1,
           ![j].pc = IF more THEN @ ELSE After(@)]
    BY DEF FetchPage
  <2>9. shown = {[item |-> o, row |-> RowOf(o), revision |-> remote[o].revision] : o \in batch}
    BY <2>7 DEF Shown
  <2> HIDE DEF found, batch, more, shown
  <2>10. QED BY <1>2, <2>4, <2>8, <2>9 DEF TypeOK
<1>4. QED BY <1>3

\* A listing leaves nothing of its kind unasked.
LEMMA FetchPageStep ==
  ASSUME OnePage, CollectionInv, TypeOK', NEW j \in Jobs, FetchPage(j)
  PROVE  CollectionInv'
<1> DEFINE job == jobs[j]
           found == Found(job.pc, job.since)
           shown == Shown(found)
           r == [job EXCEPT !.todo = job.todo \cup shown, !.page = 1, !.pc = After(job.pc)]
<1>1. job \in JobRec /\ Sound(job) /\ TypeOK
  BY DEF CollectionInv, TypeOK
<1>2. job.pc \in {"deployments", "mergeRequests"} /\ job.page = 1 /\ job.todo = {}
  BY <1>1 DEF FetchPage, Sound
<1>3. jobs' = [jobs EXCEPT ![j] = r]
  BY <1>1, OnePageFetched
<1>4. shown \subseteq Listed
  <2>1. found \subseteq Items
    BY DEF Found, Items
  <2>2. \A o \in Items : RowOf(o) \in Row /\ remote[o].revision \in Nat
    BY <1>1 DEF TypeOK
  <2> HIDE DEF found
  <2>3. QED BY <2>1, <2>2 DEF Listed, Shown
<1>5. \A o \in found : remote[o].status # "none"
  BY DEF Found
<1>6. After(job.pc) = IF job.pc = "deployments" THEN "mergeRequests" ELSE "correlate"
  BY DEF After
<1> HIDE DEF job
<1>7. r \in JobRec
  <2> HIDE DEF shown
  <2>1. QED BY <1>1, <1>2, <1>4, <1>6 DEF JobRec, Running
<1>8. /\ r.pc = After(job.pc) /\ r.todo = shown /\ r.page = 1
      /\ r.started = job.started /\ r.since = job.since
  <2> HIDE DEF shown
  <2>1. QED BY <1>1, <1>2 DEF JobRec
<1> HIDE DEF r
<1>9. Answers(r)
  BY <1>5, <1>8 DEF Answers, Shown
<1>10. ASSUME NEW o \in Items PROVE Covered(r, o)
  <2>1. Covered(job, o)
    BY <1>1, <1>2 DEF Sound, Running
  <2>2. CASE o \in found
    <3> DEFINE l == [item |-> o, row |-> RowOf(o), revision |-> remote[o].revision]
    <3>1. l \in r.todo
      BY <1>8, <2>2 DEF Shown
    <3>2. l.item = o /\ l.row = RowOf(o)
      OBVIOUS
    <3> HIDE DEF l
    <3>3. QED BY <3>1, <3>2 DEF Covered, WillStore
  <2>3. CASE remote[o].status = "none"
    <3>1. RowOf(o) = NoRow
      BY <1>1, <2>3 DEF TypeOK, Row, RowOf, NoRow
    <3>2. QED BY <2>3, <3>1 DEF CollectionInv, AbsentUnstored, Covered, Current
  <2>4. CASE o \notin found /\ WillAsk(job, o) /\ remote[o].status # "none"
    <3>1. remote[o].updated >= job.since
      BY <2>4 DEF WillAsk
    <3>2. job.pc = "deployments" /\ o \in MergeRequests
      BY <1>2, <2>4, <3>1 DEF Found, WillAsk, Items
    <3>3. QED BY <1>6, <1>8, <3>1, <3>2 DEF Covered, WillAsk
  <2>5. CASE ~WillAsk(job, o)
    <3>1. ~WillStore(job, o)
      BY <1>2 DEF WillStore
    <3>2. QED BY <1>8, <2>1, <2>5, <3>1 DEF Covered, Late
  <2>6. QED BY <2>2, <2>3, <2>4, <2>5
<1>11. Sound(r)
  <2>1. r.pc \notin {"idle", "queued", "link"} /\ r.started <= now
    BY <1>1, <1>2, <1>6, <1>8 DEF Sound, Running
  <2>2. QED BY <1>8, <1>9, <1>10, <2>1 DEF Sound
<1>12. QED BY <1>3, <1>7, <1>11, TaskStep DEF FetchPage, tables

LEMMA CorrelateStep ==
  ASSUME CollectionInv, TypeOK', NEW j \in Jobs, Correlate(j)
  PROVE  CollectionInv'
<1>1. jobs[j] \in JobRec /\ Sound(jobs[j]) /\ jobs[j].pc = "correlate" /\ jobs[j].todo = {}
  BY DEF Correlate, CollectionInv, TypeOK
<1>2. PICK listed : jobs' = [jobs EXCEPT ![j].pc = "link", ![j].closing = listed,
                                         ![j].unlinked = listed]
  BY DEF Correlate
<1> DEFINE r == [jobs[j] EXCEPT !.pc = "link", !.closing = listed, !.unlinked = listed]
<1>3. jobs' = [jobs EXCEPT ![j] = r] /\ r \in JobRec
  <2>1. jobs \in [Jobs -> JobRec]
    BY DEF CollectionInv, TypeOK
  <2>2. jobs' = [jobs EXCEPT ![j] = r]
    BY <1>2, <2>1
  <2>3. jobs'[j] = r /\ jobs'[j] \in JobRec
    BY <2>1, <2>2 DEF TypeOK
  <2>4. QED BY <2>2, <2>3
<1>4. /\ r.pc = "link" /\ r.todo = {} /\ r.page = jobs[j].page
      /\ r.started = jobs[j].started
  BY <1>1 DEF JobRec
<1> HIDE DEF r
<1>5. ASSUME NEW o \in Items PROVE Covered(r, o)
  <2>1. Covered(jobs[j], o) /\ ~WillAsk(jobs[j], o) /\ ~WillStore(jobs[j], o)
    BY <1>1 DEF Sound, Running, WillAsk, WillStore
  <2>2. QED BY <1>4, <2>1 DEF Covered, Late
<1>6. Sound(r)
  BY <1>1, <1>4, <1>5 DEF Sound, Running, Answers
<1>7. QED BY <1>3, <1>6, TaskStep DEF Correlate, tables

LEMMA LinkStep ==
  ASSUME CollectionInv, TypeOK', NEW j \in Jobs, NEW d \in jobs[j].unlinked, Link(j, d)
  PROVE  CollectionInv'
<1> DEFINE r == [jobs[j] EXCEPT !.unlinked = @ \ {d}]
<1>1. jobs[j] \in JobRec /\ Sound(jobs[j])
  BY DEF CollectionInv, TypeOK
<1>2. jobs' = [jobs EXCEPT ![j] = r] /\ r \in JobRec
  <2>1. jobs' = [jobs EXCEPT ![j] = r]
    BY DEF Link, CollectionInv, TypeOK
  <2>2. r \in JobRec
    BY <1>1 DEF JobRec
  <2>3. QED BY <2>1, <2>2
<1>3. /\ r.pc = jobs[j].pc /\ r.todo = jobs[j].todo /\ r.page = jobs[j].page
      /\ r.started = jobs[j].started /\ r.since = jobs[j].since
  BY <1>1 DEF JobRec
<1> HIDE DEF r
<1>4. Sound(r)
  BY <1>1, <1>3 DEF Sound, Answers, Covered, WillAsk, WillStore, Late
<1>5. QED BY <1>2, <1>4, TaskStep DEF Link, LinkNext

\* Storing an outdated row hides an update: it is late for every attempt that runs, and
\* within the overlap of the last run, because the attempt is still in its time.
LEMMA StoreRowStep ==
  ASSUME CollectionInv, TypeOK', NEW j \in Jobs, NEW l \in jobs[j].todo, NEW b \in BOOLEAN,
         StoreRow(j, l, b)
  PROVE  CollectionInv'
<1> DEFINE o == l.item
<1>1. now' = now /\ remote' = remote /\ lastSynced' = lastSynced
  BY DEF StoreRow, remoteVars
<1>2. TypeOK /\ jobs[j] \in JobRec /\ Sound(jobs[j]) /\ l.item \in Items
  BY DEF CollectionInv, TypeOK, JobRec, Listed
<1>3. stored' = [stored EXCEPT ![o] = l.row] /\ stored \in [Items -> Row]
  BY <1>2 DEF StoreRow, TypeOK
<1>4. /\ now \in Nat /\ Timeout \in Nat /\ Overlap \in Nat /\ 2 * Timeout <= Overlap
      /\ lastSynced \in Int /\ remote[o].updated \in Nat
      /\ \A k \in Jobs : jobs[k].started \in Nat
  <2>1. \A k \in Jobs : jobs[k] \in JobRec
    BY <1>2 DEF TypeOK
  <2>2. QED BY <1>2, <2>1, Numbers
<1>5. remote[o].status # "none" /\ (l.row = RowOf(o) \/ jobs[j].started <= remote[o].updated)
  BY <1>2 DEF Sound, Answers
<1>6. l.row # RowOf(o) => now <= remote[o].updated + Timeout
  <2>1. now <= jobs[j].started + Timeout
    BY DEF StoreRow, InTime
  <2>2. QED BY <1>4, <1>5, <2>1
<1>7. l.row = RowOf(o) => Current(o)'
  BY <1>1, <1>2, <1>3 DEF Current, RowOf
<1>8. \A p \in Items : p # o => (Current(p)' <=> Current(p))
  BY <1>1, <1>3 DEF Current, RowOf
<1>9. \A k \in Jobs : /\ jobs'[k].pc = jobs[k].pc /\ jobs'[k].page = jobs[k].page
                      /\ jobs'[k].started = jobs[k].started /\ jobs'[k].since = jobs[k].since
                      /\ jobs'[k].todo = IF k = j THEN jobs[k].todo \ {l} ELSE jobs[k].todo
  <2>1. \A k \in Jobs : jobs[k] \in JobRec
    BY <1>2 DEF TypeOK
  <2>2. jobs' = [jobs EXCEPT ![j].todo = @ \ {l}, ![j].clean = @ /\ b]
    BY DEF StoreRow
  <2>3. jobs \in [Jobs -> JobRec]
    BY <1>2 DEF TypeOK
  <2>4. QED BY <2>1, <2>2, <2>3 DEF JobRec
<1>10. ASSUME NEW k \in Jobs PROVE Sound(jobs[k])'
  <2>1. Sound(jobs[k])
    BY DEF CollectionInv
  <2>2. Answers(jobs[k])'
    BY <1>1, <1>9, <2>1 DEF Sound, Answers, RowOf
  <2>3. ASSUME jobs[k].pc \in Running, NEW p \in Items PROVE Covered(jobs[k], p)'
    <3>1. Covered(jobs[k], p) /\ jobs[k].started <= now
      BY <2>1, <2>3 DEF Sound
    <3>2. WillAsk(jobs[k], p)' <=> WillAsk(jobs[k], p)
      BY <1>1, <1>9 DEF WillAsk
    <3>3. Late(jobs[k], p)' <=> Late(jobs[k], p)
      BY <1>1, <1>9 DEF Late
    <3>4. CASE p = o /\ l.row = RowOf(o)
      BY <1>7, <3>4 DEF Covered
    <3>5. CASE p = o /\ l.row # RowOf(o)
      <4>1. jobs[k].started <= remote[p].updated + Timeout
        BY <1>4, <1>6, <3>1, <3>5
      <4>2. QED BY <3>3, <4>1 DEF Covered, Late
    <3>6. CASE p # o
      <4>1. WillStore(jobs[k], p) => WillStore(jobs[k], p)'
        BY <1>1, <1>9, <3>6 DEF WillStore, RowOf
      <4>2. QED BY <1>8, <3>1, <3>2, <3>3, <3>6, <4>1 DEF Covered
    <3>7. QED BY <3>4, <3>5, <3>6
  <2>4. QED BY <1>1, <1>9, <2>1, <2>2, <2>3 DEF Sound
<1>11. Clocks'
  BY <1>1 DEF CollectionInv, Clocks
<1>12. AbsentUnstored'
  BY <1>1, <1>3, <1>5 DEF CollectionInv, AbsentUnstored
<1>13. NothingLost'
  <2> SUFFICES ASSUME lastSynced # Never, NEW p \in Items
               PROVE  Current(p)' \/ remote[p].updated >= lastSynced - Overlap
    BY <1>1 DEF NothingLost
  <2>1. lastSynced <= now /\ (Current(p) \/ remote[p].updated >= lastSynced - Overlap)
    BY DEF CollectionInv, Clocks, NothingLost
  <2>2. CASE p = o /\ l.row = RowOf(o)
    BY <1>7, <2>2
  <2>3. CASE p = o /\ l.row # RowOf(o)
    BY <1>4, <1>6, <2>1, <2>3
  <2>4. CASE p # o
    BY <1>8, <2>1, <2>4
  <2>5. QED BY <2>2, <2>3, <2>4
<1>14. QED BY <1>10, <1>11, <1>12, <1>13 DEF CollectionInv

\* The run ends within the timeout of its start, and what it does not show as GitLab
\* does is at most a timeout older than that: both fit in the overlap.
LEMMA SyncStep ==
  ASSUME CollectionInv, TypeOK', NEW j \in Jobs, Sync(j)
  PROVE  CollectionInv'
<1>1. now' = now /\ remote' = remote /\ stored' = stored /\ lastSynced' = now
  BY DEF Sync, remoteVars
<1>2. TypeOK /\ jobs[j] \in JobRec /\ Sound(jobs[j]) /\ jobs[j].pc = "link"
  BY DEF Sync, CollectionInv, TypeOK
<1>3. /\ now \in Nat /\ Timeout \in Nat /\ Overlap \in Nat /\ 2 * Timeout <= Overlap
      /\ jobs[j].started \in Nat /\ \A o \in Items : remote[o].updated \in Nat
  BY <1>2, Numbers
<1>4. ASSUME NEW k \in Jobs PROVE Sound(jobs[k])'
  <2>1. Sound(NoJob)
    <3>1. NoJob.pc = "idle" /\ NoJob.todo = {} /\ NoJob.page = 1
      BY DEF NoJob
    <3>2. QED BY <3>1, WaitingSound
  <2>2. jobs'[k] = NoJob \/ jobs'[k] = jobs[k]
    BY <1>2 DEF Sync, TypeOK
  <2>3. Sound(jobs'[k])
    BY <2>1, <2>2 DEF CollectionInv
  <2>4. QED
    BY <1>1, <2>3 DEF Sound, Answers, Covered, Current, WillAsk, WillStore, Late, RowOf
<1>5. Clocks' /\ AbsentUnstored'
  BY <1>1, <1>3 DEF CollectionInv, Clocks, AbsentUnstored
<1>6. NothingLost'
  <2> SUFFICES ASSUME NEW o \in Items PROVE Current(o)' \/ remote[o].updated >= now - Overlap
    BY <1>1 DEF NothingLost
  <2>1. Current(o)' <=> Current(o)
    BY <1>1 DEF Current, RowOf
  <2>2. Current(o) \/ jobs[j].started <= remote[o].updated + Timeout
    BY <1>2 DEF Sound, Running, Covered, WillAsk, WillStore, Late
  <2>3. now <= jobs[j].started + Timeout
    BY DEF Sync, InTime
  <2>4. QED BY <1>3, <2>1, <2>2, <2>3
<1>7. QED BY <1>4, <1>5, <1>6 DEF CollectionInv

-----------------------------------------------------------------------------
LEMMA NextSound == OnePage /\ CollectionInv /\ [Next]_vars => CollectionInv'
<1> SUFFICES ASSUME OnePage, CollectionInv, [Next]_vars PROVE CollectionInv'
  OBVIOUS
<1>1. TypeOK'
  BY NextType DEF CollectionInv
<1>2. CASE Tick
  BY <1>1, <1>2, TickStep
<1>3. CASE GitLab
  BY <1>1, <1>3, GitLabChanges, ChangeStep DEF CollectionInv
<1>4. ASSUME NEW j \in Jobs, Work(j) PROVE CollectionInv'
  <2>1. CASE Start(j)
    BY <1>1, <2>1, StartStep
  <2>2. CASE FetchPage(j)
    BY <1>1, <2>2, FetchPageStep
  <2>3. CASE Correlate(j)
    BY <1>1, <2>3, CorrelateStep
  <2>4. CASE Sync(j)
    BY <1>1, <2>4, SyncStep
  <2>5. ASSUME NEW l \in jobs[j].todo, Store(j, l) PROVE CollectionInv'
    BY <1>1, <2>5, StoreRowStep DEF Store
  <2>6. ASSUME NEW d \in jobs[j].unlinked, Link(j, d) PROVE CollectionInv'
    BY <1>1, <2>6, LinkStep
  <2>7. CASE Expire(j)
    BY <1>1, <2>7, GiveBackStep DEF Expire, tables
  <2>8. QED BY <1>4, <2>1, <2>2, <2>3, <2>4, <2>5, <2>6, <2>7 DEF Work
<1>5. ASSUME NEW j \in Jobs, Faulty(j) PROVE CollectionInv'
  <2>1. CASE Fail(j)
    BY <1>1, <2>1, GiveBackStep DEF Fail, tables
  <2>2. ASSUME NEW l \in jobs[j].todo, StoreUncommitted(j, l) PROVE CollectionInv'
    BY <1>1, <2>2, StoreRowStep DEF StoreUncommitted
  <2>3. ASSUME NEW d \in jobs[j].unlinked, LinkFails(j, d) PROVE CollectionInv'
    BY <1>1, <2>3, GiveBackStep DEF LinkFails, LinkNext
  <2>4. QED BY <1>5, <2>1, <2>2, <2>3 DEF Faulty
<1>6. ASSUME NEW j \in Jobs, NEW b \in BackfillDays, Enqueue(j, b) PROVE CollectionInv'
  BY <1>1, <1>6, EnqueueStep
<1>7. CASE UNCHANGED vars
  <2>1. UNCHANGED <<now, remote, stored, lastSynced, jobs>>
    BY <1>7 DEF vars, remoteVars, tables
  <2>2. \A j \in Jobs : Sound(jobs[j])'
    BY <2>1
      DEF CollectionInv, Sound, Answers, Covered, Current, WillAsk, WillStore, Late, RowOf
  <2>3. Clocks' /\ AbsentUnstored' /\ NothingLost'
    BY <2>1 DEF CollectionInv, Clocks, AbsentUnstored, NothingLost, Current, RowOf
  <2>4. QED BY <1>1, <2>2, <2>3 DEF CollectionInv
<1>8. QED BY <1>2, <1>3, <1>4, <1>5, <1>6, <1>7 DEF Next

\* The mirror misses no update for good, whatever fails, is retried or overlaps, as
\* long as a page holds all that GitLab has of the project: the listings of more pages
\* lose updates, which a run shows.
THEOREM NothingIsLost ==
  ASSUME Cardinality(Items) <= PerPage
  PROVE  Spec => []NothingLost
<1>1. OnePage
  BY DEF OnePage
<1>2. CollectionInv /\ [Next]_vars => CollectionInv'
  BY <1>1, NextSound
<1>3. CollectionInv => NothingLost
  BY DEF CollectionInv
<1>4. QED BY <1>2, <1>3, InitSound, PTL DEF Spec

-----------------------------------------------------------------------------
(***************************************************************************)
(* Links are real.  A deployment that succeeded and a merge request that   *)
(* is merged change no more, so a row that says so is true however old it  *)
(* is: in the tables, in an answer still to store, and in the list of      *)
(* deployments the correlation follows.                                    *)
(***************************************************************************)

Final == {"success", "merged"}

\* What the handler with the locals r knows of deployments and merge requests that
\* change no more.
Truthful(r) ==
  /\ \A l \in r.todo : l.row.status \in Final => RowOf(l.item) = l.row
  /\ \A d \in r.unlinked : RowOf(d.item) = [status |-> "success", at |-> d.at]

StoredTruth == \A o \in Items : stored[o].status \in Final => RowOf(o) = stored[o]

LinksInv == TypeOK /\ StoredTruth /\ (\A j \in Jobs : Truthful(jobs[j])) /\ LinksReal

LEMMA InitLinks == Init => LinksInv
<1> SUFFICES ASSUME Init PROVE LinksInv
  OBVIOUS
<1>1. TypeOK
  BY InitType
<1>2. StoredTruth
  BY DEF Init, StoredTruth, Final, NoRow
<1>3. \A j \in Jobs : Truthful(jobs[j])
  BY DEF Init, NoJob, Truthful
<1>4. LinksReal
  BY DEF Init, LinksReal
<1>5. QED BY <1>1, <1>2, <1>3, <1>4 DEF LinksInv

\* What a change in GitLab leaves alone: all that was final.
LEMMA FinalStays ==
  ASSUME TypeOK, GitLab, NEW o \in Items, remote[o].status \in Final
  PROVE  remote'[o] = remote[o]
<1>1. remote[o].status \notin {"none", "running"}
  BY DEF Final
<1>2. remote \in [Items -> [status : Status, at : Time \cup {Never}, updated : Time, revision : Nat]]
  BY DEF TypeOK
<1>3. ASSUME NEW p \in Items, NEW status, NEW at, remote[p].status \in {"none", "running"},
             Change(p, status, at)
      PROVE  remote'[o] = remote[o]
  BY <1>1, <1>2, <1>3 DEF Change
<1>4. QED BY <1>3 DEF GitLab, Deploy, Finish, Merge, Items

LEMMA GitLabLinks ==
  ASSUME LinksInv, TypeOK', GitLab
  PROVE  LinksInv'
<1>1. jobs' = jobs /\ stored' = stored /\ links' = links
  BY DEF GitLab, Deploy, Finish, Merge, Change, tables
<1>2. TypeOK
  BY DEF LinksInv
<1>3. \A o \in Items : remote[o].status \in Final => remote'[o] = remote[o] /\ RowOf(o)' = RowOf(o)
  BY <1>2, FinalStays DEF RowOf
<1>4. \A o \in Items : RowOf(o).status = remote[o].status
  BY DEF RowOf
<1>5. StoredTruth'
  BY <1>1, <1>3, <1>4 DEF LinksInv, StoredTruth
<1>6. ASSUME NEW j \in Jobs PROVE Truthful(jobs[j])'
  <2>1. /\ \A l \in jobs[j].todo : l.item \in Items
        /\ \A d \in jobs[j].unlinked : d.item \in Items
    BY <1>2 DEF TypeOK, JobRec, Listed, Closing, Items
  <2>2. Truthful(jobs[j])
    BY DEF LinksInv
  <2>3. ASSUME NEW l \in jobs[j].todo, l.row.status \in Final PROVE RowOf(l.item)' = l.row
    BY <1>3, <1>4, <2>1, <2>2, <2>3 DEF Truthful
  <2>4. ASSUME NEW d \in jobs[j].unlinked
        PROVE  RowOf(d.item)' = [status |-> "success", at |-> d.at]
    <3>1. RowOf(d.item) = [status |-> "success", at |-> d.at]
      BY <2>2 DEF Truthful
    <3>2. remote[d.item].status \in Final
      BY <1>4, <2>1, <3>1 DEF Final
    <3>3. QED BY <1>3, <2>1, <3>1, <3>2
  <2>5. QED BY <1>1, <2>3, <2>4 DEF Truthful
<1>7. LinksReal'
  <2> SUFFICES ASSUME NEW l \in links
               PROVE  /\ remote'[l[1]].status = "success" /\ remote'[l[2]].status = "merged"
                      /\ remote'[l[2]].at <= remote'[l[1]].at
    BY <1>1 DEF LinksReal
  <2>1. l[1] \in Items /\ l[2] \in Items
    BY <1>2 DEF TypeOK, Items
  <2>2. /\ remote[l[1]].status = "success" /\ remote[l[2]].status = "merged"
        /\ remote[l[2]].at <= remote[l[1]].at
    BY DEF LinksInv, LinksReal
  <2>3. remote'[l[1]] = remote[l[1]] /\ remote'[l[2]] = remote[l[2]]
    BY <1>3, <2>1, <2>2 DEF Final
  <2>4. QED BY <2>2, <2>3
<1>8. QED BY <1>5, <1>6, <1>7 DEF LinksInv

\* A step that touches one task's locals, and neither GitLab nor tables and links.
LEMMA TaskLinks ==
  ASSUME LinksInv, TypeOK', NEW j \in Jobs, NEW r, Truthful(r),
         jobs' = [jobs EXCEPT ![j] = r], UNCHANGED <<remote, stored>>, LinksReal'
  PROVE  LinksInv'
<1>1. \A k \in Jobs : jobs'[k] = r \/ jobs'[k] = jobs[k]
  BY DEF LinksInv, TypeOK
<1>2. \A k \in Jobs : Truthful(jobs'[k])
  BY <1>1 DEF LinksInv
<1>3. \A k \in Jobs : Truthful(jobs[k])'
  BY <1>2 DEF Truthful, RowOf
<1>4. StoredTruth'
  BY DEF LinksInv, StoredTruth, RowOf
<1>5. QED BY <1>3, <1>4 DEF LinksInv

LEMMA GiveBackLinks ==
  ASSUME LinksInv, TypeOK', NEW j \in Jobs, GiveBack(j), UNCHANGED <<remote, stored>>, LinksReal'
  PROVE  LinksInv'
<1>1. PICK r \in JobRec : /\ jobs' = [jobs EXCEPT ![j] = r]
                          /\ r.todo = {} /\ r.unlinked = {}
  BY GiveBackType DEF LinksInv
<1>2. Truthful(r)
  BY <1>1 DEF Truthful
<1>3. QED BY <1>1, <1>2, TaskLinks

LEMMA LinksRealStays ==
  ASSUME LinksInv, UNCHANGED <<remote, links>>
  PROVE  LinksReal'
  BY DEF LinksInv, LinksReal

LEMMA FetchPageLinks ==
  ASSUME LinksInv, TypeOK', NEW j \in Jobs, FetchPage(j)
  PROVE  LinksInv'
<1>1. remote' = remote /\ stored' = stored /\ links' = links /\ jobs \in [Jobs -> JobRec]
  BY DEF FetchPage, remoteVars, tables, LinksInv, TypeOK
<1>2. PICK batch, page, pc :
        jobs' = [jobs EXCEPT
           ![j].todo = @ \cup {[item |-> o, row |-> RowOf(o), revision |-> remote[o].revision] :
                                 o \in batch},
           ![j].page = page, ![j].pc = pc]
  BY DEF FetchPage
<1> DEFINE shown == {[item |-> o, row |-> RowOf(o), revision |-> remote[o].revision] : o \in batch}
           r == [jobs[j] EXCEPT !.todo = @ \cup shown, !.page = page, !.pc = pc]
<1>3. \A l \in shown : RowOf(l.item) = l.row
  OBVIOUS
<1> HIDE DEF shown
<1>4. jobs' = [jobs EXCEPT ![j] = r]
  BY <1>1, <1>2 DEF shown
<1>5. r.todo = jobs[j].todo \cup shown /\ r.unlinked = jobs[j].unlinked
  BY <1>1 DEF JobRec
<1> HIDE DEF r
<1>6. Truthful(r)
  BY <1>3, <1>5 DEF LinksInv, Truthful
<1>7. QED BY <1>1, <1>4, <1>6, TaskLinks, LinksRealStays

LEMMA CorrelateLinks ==
  ASSUME LinksInv, TypeOK', NEW j \in Jobs, Correlate(j)
  PROVE  LinksInv'
<1> DEFINE successful == {d \in Production : stored[d].status = "success"}
           listed == {[item |-> d, at |-> stored[d].at] : d \in successful}
           r == [jobs[j] EXCEPT !.pc = "link", !.closing = listed, !.unlinked = listed]
<1>1. remote' = remote /\ stored' = stored /\ links' = links /\ jobs \in [Jobs -> JobRec]
  BY DEF Correlate, remoteVars, tables, LinksInv, TypeOK
<1>2. \A d \in successful : RowOf(d) = [status |-> "success", at |-> stored[d].at]
  <2>1. \A d \in successful : d \in Items /\ stored[d].status \in Final
    BY CollectionAssumption DEF Items, Final
  <2>2. \A d \in successful : stored[d] = [status |-> "success", at |-> stored[d].at]
    BY <2>1 DEF LinksInv, TypeOK, Row
  <2>3. QED BY <2>1, <2>2 DEF LinksInv, StoredTruth
<1>3. \A d \in listed : RowOf(d.item) = [status |-> "success", at |-> d.at]
  <2> HIDE DEF successful
  <2>1. QED BY <1>2
<1>4. jobs' = [jobs EXCEPT ![j] = r]
  BY <1>1 DEF Correlate
<1> HIDE DEF listed
<1>5. r.unlinked = listed /\ r.todo = jobs[j].todo
  BY <1>1 DEF JobRec
<1> HIDE DEF r
<1>6. Truthful(r)
  BY <1>3, <1>5 DEF LinksInv, Truthful
<1>7. QED BY <1>1, <1>4, <1>6, TaskLinks, LinksRealStays

LEMMA StoreRowLinks ==
  ASSUME LinksInv, TypeOK', NEW j \in Jobs, NEW l \in jobs[j].todo, NEW b, StoreRow(j, l, b)
  PROVE  LinksInv'
<1>1. /\ remote' = remote /\ links' = links /\ stored' = [stored EXCEPT ![l.item] = l.row]
      /\ jobs \in [Jobs -> JobRec] /\ stored \in [Items -> Row] /\ l.item \in Items
  BY DEF StoreRow, remoteVars, LinksInv, TypeOK, JobRec, Listed
<1>2. l.row.status \in Final => RowOf(l.item) = l.row
  BY DEF LinksInv, Truthful
<1>3. StoredTruth'
  BY <1>1, <1>2 DEF LinksInv, StoredTruth, RowOf
<1>4. \A k \in Jobs : jobs'[k].todo \subseteq jobs[k].todo /\ jobs'[k].unlinked = jobs[k].unlinked
  BY <1>1 DEF StoreRow, JobRec
<1>5. \A k \in Jobs : Truthful(jobs[k])'
  BY <1>1, <1>4 DEF LinksInv, Truthful, RowOf
<1>6. QED BY <1>1, <1>3, <1>5, LinksRealStays DEF LinksInv

\* What the deployment's interval holds is merged, and before the deployment.
LEMMA LinkNextReal ==
  ASSUME LinksInv, NEW j \in Jobs, NEW d \in jobs[j].unlinked,
         NEW linked \in SUBSET MergedIn(From(d, jobs[j].closing), d.at), LinkNext(j, d, linked)
  PROVE  UNCHANGED <<remote, stored>> /\ LinksReal'
<1>1. /\ remote' = remote /\ stored' = stored /\ links' = links \cup ({d.item} \X linked)
  BY DEF LinkNext, remoteVars
<1>2. RowOf(d.item) = [status |-> "success", at |-> d.at]
  BY DEF LinksInv, Truthful
<1>3. remote[d.item].status = "success" /\ remote[d.item].at = d.at
  BY <1>2 DEF RowOf
<1>4. ASSUME NEW m \in linked
      PROVE  remote[m].status = "merged" /\ remote[m].at <= d.at
  <2>1. m \in Items /\ stored[m].status = "merged" /\ stored[m].at <= d.at
    BY DEF MergedIn, Items
  <2>2. RowOf(m) = stored[m]
    BY <2>1 DEF LinksInv, StoredTruth, Final
  <2>3. remote[m].status = stored[m].status /\ remote[m].at = stored[m].at
    BY <2>2 DEF RowOf
  <2>4. QED BY <2>1, <2>3
<1>5. ASSUME NEW l \in links'
      PROVE  /\ remote[l[1]].status = "success" /\ remote[l[2]].status = "merged"
             /\ remote[l[2]].at <= remote[l[1]].at
  <2>1. CASE l \in links
    BY <2>1 DEF LinksInv, LinksReal
  <2>2. CASE l[1] = d.item /\ l[2] \in linked
    BY <1>3, <1>4, <2>2
  <2>3. QED BY <1>1, <1>5, <2>1, <2>2
<1>6. QED BY <1>1, <1>5 DEF LinksReal

LEMMA NextLinks == LinksInv /\ [Next]_vars => LinksInv'
<1> SUFFICES ASSUME LinksInv, [Next]_vars PROVE LinksInv'
  OBVIOUS
<1>1. TypeOK'
  BY NextType DEF LinksInv
<1>2. ASSUME UNCHANGED <<remote, stored, links, jobs>> PROVE LinksInv'
  <2>1. \A j \in Jobs : Truthful(jobs[j])'
    BY <1>2 DEF LinksInv, Truthful, RowOf
  <2>2. StoredTruth'
    BY <1>2 DEF LinksInv, StoredTruth, RowOf
  <2>3. QED BY <1>1, <1>2, <2>1, <2>2, LinksRealStays DEF LinksInv
<1>3. CASE Tick
  BY <1>2, <1>3 DEF Tick, remoteVars, tables
<1>4. CASE GitLab
  BY <1>1, <1>4, GitLabLinks
<1>5. ASSUME NEW j \in Jobs, Work(j) PROVE LinksInv'
  <2>1. CASE Start(j)
    <3>1. UNCHANGED <<remote, stored, links>> /\ jobs \in [Jobs -> JobRec] /\ Truthful(jobs[j])
      BY <2>1 DEF Start, remoteVars, tables, LinksInv, TypeOK
    <3> DEFINE r == [jobs[j] EXCEPT !.pc = "deployments", !.started = now,
                                    !.since = Since(lastSynced, jobs[j].backfill)]
    <3>2. jobs' = [jobs EXCEPT ![j] = r]
      BY <2>1, <3>1 DEF Start
    <3>3. r.todo = jobs[j].todo /\ r.unlinked = jobs[j].unlinked
      BY <3>1 DEF JobRec
    <3> HIDE DEF r
    <3>4. Truthful(r)
      BY <3>1, <3>3 DEF Truthful
    <3>5. QED BY <1>1, <3>1, <3>2, <3>4, TaskLinks, LinksRealStays
  <2>2. CASE FetchPage(j)
    BY <1>1, <2>2, FetchPageLinks
  <2>3. CASE Correlate(j)
    BY <1>1, <2>3, CorrelateLinks
  <2>4. CASE Sync(j)
    <3>1. UNCHANGED <<remote, stored, links>> /\ jobs' = [jobs EXCEPT ![j] = NoJob]
      BY <2>4 DEF Sync, remoteVars
    <3>2. Truthful(NoJob)
      BY DEF Truthful, NoJob
    <3>3. QED BY <1>1, <3>1, <3>2, TaskLinks, LinksRealStays
  <2>5. ASSUME NEW l \in jobs[j].todo, Store(j, l) PROVE LinksInv'
    BY <1>1, <2>5, StoreRowLinks DEF Store
  <2>6. ASSUME NEW d \in jobs[j].unlinked, Link(j, d) PROVE LinksInv'
    <3>1. UNCHANGED <<remote, stored>> /\ LinksReal'
      BY <2>6, LinkNextReal DEF Link
    <3>2. jobs \in [Jobs -> JobRec] /\ Truthful(jobs[j])
      BY DEF LinksInv, TypeOK
    <3> DEFINE r == [jobs[j] EXCEPT !.unlinked = @ \ {d}]
    <3>3. jobs' = [jobs EXCEPT ![j] = r]
      BY <2>6, <3>2 DEF Link
    <3>4. r.todo = jobs[j].todo /\ r.unlinked \subseteq jobs[j].unlinked
      BY <3>2 DEF JobRec
    <3> HIDE DEF r
    <3>5. Truthful(r)
      BY <3>2, <3>4 DEF Truthful
    <3>6. QED BY <1>1, <3>1, <3>3, <3>5, TaskLinks
  <2>7. CASE Expire(j)
    <3>1. UNCHANGED <<remote, stored, links>> /\ GiveBack(j)
      BY <2>7 DEF Expire, remoteVars, tables
    <3>2. QED BY <1>1, <3>1, GiveBackLinks, LinksRealStays
  <2>8. QED BY <1>5, <2>1, <2>2, <2>3, <2>4, <2>5, <2>6, <2>7 DEF Work
<1>6. ASSUME NEW j \in Jobs, Faulty(j) PROVE LinksInv'
  <2>1. CASE Fail(j)
    <3>1. UNCHANGED <<remote, stored, links>> /\ GiveBack(j)
      BY <2>1 DEF Fail, remoteVars, tables
    <3>2. QED BY <1>1, <3>1, GiveBackLinks, LinksRealStays
  <2>2. ASSUME NEW l \in jobs[j].todo, StoreUncommitted(j, l) PROVE LinksInv'
    BY <1>1, <2>2, StoreRowLinks DEF StoreUncommitted
  <2>3. ASSUME NEW d \in jobs[j].unlinked, LinkFails(j, d) PROVE LinksInv'
    <3>1. UNCHANGED <<remote, stored>> /\ LinksReal'
      BY <2>3, LinkNextReal DEF LinkFails
    <3>2. QED BY <1>1, <2>3, <3>1, GiveBackLinks DEF LinkFails
  <2>4. QED BY <1>6, <2>1, <2>2, <2>3 DEF Faulty
<1>7. ASSUME NEW j \in Jobs, NEW b \in BackfillDays, Enqueue(j, b) PROVE LinksInv'
  <2>1. UNCHANGED <<remote, stored, links>> /\ jobs \in [Jobs -> JobRec] /\ Truthful(jobs[j])
    BY <1>7 DEF Enqueue, remoteVars, tables, LinksInv, TypeOK
  <2> DEFINE r == [jobs[j] EXCEPT !.pc = "queued", !.backfill = b]
  <2>2. jobs' = [jobs EXCEPT ![j] = r]
    BY <1>7, <2>1 DEF Enqueue
  <2>3. r.todo = jobs[j].todo /\ r.unlinked = jobs[j].unlinked
    BY <2>1 DEF JobRec
  <2> HIDE DEF r
  <2>4. Truthful(r)
    BY <2>1, <2>3 DEF Truthful
  <2>5. QED BY <1>1, <2>1, <2>2, <2>4, TaskLinks, LinksRealStays
<1>8. CASE UNCHANGED vars
  BY <1>2, <1>8 DEF vars, remoteVars, tables
<1>9. QED BY <1>3, <1>4, <1>5, <1>6, <1>7, <1>8 DEF Next

\* However many runs overlap, and however old the rows they correlate, a link joins a
\* merge request that is merged to a deployment that succeeded, not before the merge.
THEOREM LinksAreReal == Spec => []LinksReal
<1>1. LinksInv => LinksReal
  BY DEF LinksInv
<1>2. QED BY <1>1, InitLinks, NextLinks, PTL DEF Spec

-----------------------------------------------------------------------------
(***************************************************************************)
(* With one worker a run that links has what it lists to itself: nothing   *)
(* is stored under it, and what it has linked stays linked.                *)
(***************************************************************************)

\* A non-empty set of naturals has a least element.
LEMMA LeastExists ==
  ASSUME NEW S \in SUBSET Nat, S # {}
  PROVE  \E i \in S : \A k \in S : i <= k
<1>1. PICK x \in S : \A y \in S : <<y, x>> \notin OpToRel(<, Nat)
  BY NatLessThanWellFounded, WFMin
<1>2. \A y \in S : ~ (y < x)
  BY <1>1 DEF OpToRel
<1>3. QED BY <1>2

\* One of naturals up to n has a greatest.
LEMMA GreatestExists ==
  ASSUME NEW n \in Nat, NEW S \in SUBSET (0..n), S # {}
  PROVE  \E i \in S : \A k \in S : k <= i
<1> DEFINE T == {n - i : i \in S}
<1>1. T \in SUBSET Nat /\ T # {}
  <2>1. \A i \in S : n - i \in Nat
    OBVIOUS
  <2>2. QED BY <2>1
<1>2. PICK t \in T : \A y \in T : t <= y
  <2> HIDE DEF T
  <2>1. QED BY <1>1, LeastExists
<1>3. PICK i \in S : t = n - i
  OBVIOUS
<1>4. ASSUME NEW k \in S PROVE k <= i
  <2>1. n - k \in T /\ i \in Int /\ k \in Int
    OBVIOUS
  <2>2. t <= n - k
    BY <1>2, <2>1
  <2>3. QED BY <1>3, <2>1, <2>2
<1>5. QED BY <1>4

\* The interval a deployment closes starts with the last one before it.
LEMMA FromPredecessor ==
  ASSUME NEW d, NEW closing \in SUBSET Closing,
         NEW e \in closing, e.at < d.at
  PROVE  \E b \in closing : b.at < d.at /\ From(d, closing) = b.at /\ e.at <= b.at
<1> DEFINE before == {c \in closing : c.at < d.at}
           times == {c.at : c \in before}
<1>1. MaxTime \in Nat /\ Time = 0..MaxTime
  BY CollectionAssumption DEF Time
<1>2. e \in before /\ \A c \in before : c.at \in 0..MaxTime
  BY <1>1 DEF Closing
<1>3. times \in SUBSET (0..MaxTime) /\ times # {}
  <2> HIDE DEF before
  <2>1. QED BY <1>2
<1>4. PICK t \in times : \A u \in times : u <= t
  <2> HIDE DEF times
  <2>1. QED BY <1>1, <1>3, GreatestExists
<1>5. \E c \in before : \A f \in before : f.at <= c.at
  <2> HIDE DEF before
  <2>1. PICK c \in before : c.at = t
    BY <1>4
  <2>2. QED BY <1>4, <2>1
<1> DEFINE b == CHOOSE c \in before : \A f \in before : f.at <= c.at
<1>6. b \in before /\ \A f \in before : f.at <= b.at
  <2> HIDE DEF before
  <2>1. QED BY <1>5
<1>7. From(d, closing) = b.at
  BY <1>2 DEF From
<1> HIDE DEF b
<1>8. QED BY <1>2, <1>6, <1>7

\* The successful production deployments in the tables.
Shipped == {[item |-> d, at |-> stored[d].at] : d \in {d \in Production : stored[d].status = "success"}}

LEMMA ShippedType == TypeOK => Shipped \subseteq Closing
<1> SUFFICES ASSUME TypeOK PROVE Shipped \subseteq Closing
  OBVIOUS
<1> DEFINE successful == {d \in Production : stored[d].status = "success"}
<1>1. \A d \in successful : d \in Deployments /\ stored[d].at \in Time
  BY CollectionAssumption DEF TypeOK, Row, Items
<1>2. Shipped = {[item |-> d, at |-> stored[d].at] : d \in successful}
  BY DEF Shipped
<1> HIDE DEF successful
<1>3. QED BY <1>1, <1>2 DEF Closing

Alone == \A j, k \in Active : j = k

\* A handler that links follows what the tables hold, and has linked what it is past.
LinkingSound(r) ==
  r.pc = "link" =>
    /\ r.todo = {} /\ r.closing = Shipped /\ r.unlinked \subseteq r.closing
    /\ \A d \in r.closing \ r.unlinked :
         {d.item} \X MergedIn(From(d, r.closing), d.at) \subseteq links

SerialInv == workers = 1 => Alone /\ \A j \in Jobs : LinkingSound(jobs[j])

\* The end of an attempt, or the start of a task.
Waits(j) ==
  \E r \in JobRec : /\ jobs' = [jobs EXCEPT ![j] = r]
                    /\ r.pc \in {"idle", "queued"} /\ r.todo \in {{}, jobs[j].todo}

\* A deployment's merge requests are linked, all or, when the attempt ends, some.
LinksSome(j) ==
  \E d \in jobs[j].unlinked :
    \E some \in SUBSET MergedIn(From(d, jobs[j].closing), d.at) : LinkNext(j, d, some)

\* What the steps are, seen from the tables and the handlers.
LEMMA Kinds ==
  ASSUME TypeOK, [Next]_vars
  PROVE  /\ workers' = workers
         /\ \/ /\ UNCHANGED <<stored, links, jobs>>
               /\ GitLab \/ (UNCHANGED <<remote, revision>> /\ now' \in {now, now + 1})
            \/ /\ UNCHANGED <<remote, revision, now>>
               /\ \E j \in Jobs :
                    \/ UNCHANGED stored /\ Waits(j) /\ (UNCHANGED links \/ LinksSome(j))
                    \/ Start(j) \/ FetchPage(j) \/ Correlate(j)
                    \/ \E d \in jobs[j].unlinked : Link(j, d)
                    \/ \E l \in jobs[j].todo, b \in BOOLEAN : StoreRow(j, l, b)
<1>1. ASSUME NEW j \in Jobs, GiveBack(j) PROVE Waits(j)
  BY <1>1, GiveBackType DEF Waits
<1>2. CASE Tick
  BY <1>2 DEF Tick, remoteVars, tables
<1>3. CASE GitLab
  BY <1>3 DEF GitLab, Deploy, Finish, Merge, Change, tables
<1>4. ASSUME NEW j \in Jobs, Work(j)
      PROVE  /\ workers' = workers /\ UNCHANGED <<remote, revision, now>>
             /\ \/ UNCHANGED stored /\ Waits(j) /\ (UNCHANGED links \/ LinksSome(j))
                \/ Start(j) \/ FetchPage(j) \/ Correlate(j)
                \/ \E d \in jobs[j].unlinked : Link(j, d)
                \/ \E l \in jobs[j].todo, b \in BOOLEAN : StoreRow(j, l, b)
  <2>1. CASE Start(j)
    BY <2>1 DEF Start, remoteVars
  <2>2. CASE FetchPage(j)
    BY <2>2 DEF FetchPage, remoteVars
  <2>3. CASE Correlate(j)
    BY <2>3 DEF Correlate, remoteVars
  <2>4. CASE Sync(j)
    <3>1. NoJob.pc = "idle" /\ NoJob.todo = {}
      BY DEF NoJob
    <3>2. jobs' = [jobs EXCEPT ![j] = NoJob]
      BY <2>4 DEF Sync
    <3>3. Waits(j)
      BY <3>1, <3>2, NoJobType DEF Waits
    <3>4. QED BY <2>4, <3>3 DEF Sync, remoteVars
  <2>5. ASSUME NEW l \in jobs[j].todo, Store(j, l)
        PROVE  StoreRow(j, l, TRUE) /\ workers' = workers /\ UNCHANGED <<remote, revision, now>>
    BY <2>5 DEF Store, StoreRow, remoteVars
  <2>6. ASSUME NEW d \in jobs[j].unlinked, Link(j, d)
        PROVE  workers' = workers /\ UNCHANGED <<remote, revision, now>>
    BY <2>6 DEF Link, LinkNext, remoteVars
  <2>7. CASE Expire(j)
    BY <1>1, <2>7 DEF Expire, remoteVars, tables
  <2>8. QED BY <1>4, <2>1, <2>2, <2>3, <2>4, <2>5, <2>6, <2>7 DEF Work
<1>5. ASSUME NEW j \in Jobs, Faulty(j)
      PROVE  /\ workers' = workers /\ UNCHANGED <<remote, revision, now>>
             /\ \/ UNCHANGED stored /\ Waits(j) /\ (UNCHANGED links \/ LinksSome(j))
                \/ \E l \in jobs[j].todo, b \in BOOLEAN : StoreRow(j, l, b)
  <2>1. CASE Fail(j)
    BY <1>1, <2>1 DEF Fail, remoteVars, tables
  <2>2. ASSUME NEW l \in jobs[j].todo, StoreUncommitted(j, l)
        PROVE  StoreRow(j, l, FALSE) /\ workers' = workers /\ UNCHANGED <<remote, revision, now>>
    BY <2>2 DEF StoreUncommitted, StoreRow, remoteVars
  <2>3. ASSUME NEW d \in jobs[j].unlinked, LinkFails(j, d)
        PROVE  /\ LinksSome(j) /\ Waits(j) /\ UNCHANGED stored
               /\ workers' = workers /\ UNCHANGED <<remote, revision, now>>
    <3>1. PICK some \in SUBSET MergedIn(From(d, jobs[j].closing), d.at) : LinkNext(j, d, some)
      BY <2>3 DEF LinkFails
    <3>2. LinksSome(j)
      BY <3>1 DEF LinksSome
    <3>3. QED BY <1>1, <2>3, <3>1, <3>2 DEF LinkFails, LinkNext, remoteVars
  <2>4. QED BY <1>5, <2>1, <2>2, <2>3 DEF Faulty
<1>6. ASSUME NEW j \in Jobs, NEW b \in BackfillDays, Enqueue(j, b)
      PROVE  /\ workers' = workers /\ UNCHANGED <<remote, revision, now>>
             /\ UNCHANGED stored /\ Waits(j) /\ UNCHANGED links
  <2> DEFINE r == [jobs[j] EXCEPT !.pc = "queued", !.backfill = b]
  <2>1. jobs \in [Jobs -> JobRec] /\ jobs' = [jobs EXCEPT ![j] = r]
    BY <1>6 DEF Enqueue, TypeOK
  <2>2. r \in JobRec /\ r.pc = "queued" /\ r.todo = jobs[j].todo
    BY <2>1 DEF JobRec
  <2> HIDE DEF r
  <2>3. Waits(j)
    BY <2>1, <2>2 DEF Waits
  <2>4. QED BY <1>6, <2>3 DEF Enqueue, remoteVars, tables
<1>7. CASE UNCHANGED vars
  BY <1>7 DEF vars, remoteVars, tables
<1>8. QED BY <1>2, <1>3, <1>4, <1>5, <1>6, <1>7 DEF Next

\* A task whose handler holds the worker, or takes it while it is free.
LEMMA SerialTask ==
  ASSUME TypeOK, workers = 1, SerialInv, NEW j \in Jobs, NEW r, jobs' = [jobs EXCEPT ![j] = r],
         r.pc \in Running => j \in Active \/ Active = {},
         UNCHANGED stored \/ j \in Active, links \subseteq links', LinkingSound(r)'
  PROVE  SerialInv'
<1>1. jobs \in [Jobs -> JobRec] /\ Alone /\ \A k \in Jobs : LinkingSound(jobs[k])
  BY DEF TypeOK, SerialInv
<1>2. jobs'[j] = r /\ \A k \in Jobs : k # j => jobs'[k] = jobs[k]
  BY <1>1
<1>3. Alone'
  <2>1. Active' \subseteq Active \cup {j} /\ (j \in Active' => j \in Active \/ Active = {})
    BY <1>2 DEF Active
  <2>2. QED BY <1>1, <2>1 DEF Alone
<1>4. ASSUME NEW k \in Jobs PROVE LinkingSound(jobs[k])'
  <2>1. CASE k = j
    BY <1>2, <2>1 DEF LinkingSound
  <2>2. CASE k # j /\ j \in Active
    <3>1. jobs[k].pc # "link"
      BY <1>1, <2>2 DEF Alone, Active, Running
    <3>2. QED BY <1>2, <2>2, <3>1 DEF LinkingSound
  <2>3. CASE k # j /\ UNCHANGED stored
    <3>1. Shipped' = Shipped /\ \A from, until : MergedIn(from, until)' = MergedIn(from, until)
      BY <2>3 DEF Shipped, MergedIn
    <3>2. QED BY <1>1, <1>2, <2>3, <3>1 DEF LinkingSound
  <2>4. QED BY <2>1, <2>2, <2>3
<1>5. QED BY <1>3, <1>4 DEF SerialInv

LEMMA SerialInit == Init => SerialInv
<1> SUFFICES ASSUME Init PROVE SerialInv
  OBVIOUS
<1>1. \A j \in Jobs : jobs[j].pc = "idle"
  BY DEF Init, NoJob
<1>2. Active = {}
  BY <1>1 DEF Active, Running
<1>3. QED BY <1>1, <1>2 DEF SerialInv, Alone, LinkingSound

\* The handler lists what the tables hold.
LEMMA CorrelateSerial ==
  ASSUME TypeOK, workers = 1, SerialInv, NEW j \in Jobs, Correlate(j)
  PROVE  SerialInv'
<1>0. PICK r : r = [jobs[j] EXCEPT !.pc = "link", !.closing = Shipped, !.unlinked = Shipped]
  OBVIOUS
<1>1. jobs \in [Jobs -> JobRec] /\ jobs[j] \in JobRec
  BY DEF TypeOK
<1>2. /\ jobs[j].pc = "correlate" /\ jobs[j].todo = {} /\ stored' = stored /\ links' = links
      /\ jobs' = [jobs EXCEPT ![j] = r]
  BY <1>0, <1>1 DEF Correlate, Shipped, tables
<1>3. r.pc = "link" /\ r.todo = {} /\ r.closing = Shipped /\ r.unlinked = Shipped
  BY <1>0, <1>1, <1>2 DEF JobRec
<1>4. Shipped' = Shipped
  BY <1>2 DEF Shipped
<1>5. LinkingSound(r)'
  BY <1>3, <1>4 DEF LinkingSound
<1>6. j \in Active
  BY <1>2 DEF Active, Running
<1>7. QED BY <1>2, <1>5, <1>6, SerialTask

\* The next deployment closes its interval.
LEMMA LinkSerial ==
  ASSUME TypeOK, workers = 1, SerialInv, NEW j \in Jobs, NEW d \in jobs[j].unlinked, Link(j, d)
  PROVE  SerialInv'
<1>0. PICK r, closing : r = [jobs[j] EXCEPT !.unlinked = jobs[j].unlinked \ {d}] /\ closing = jobs[j].closing
  OBVIOUS
<1>1. jobs \in [Jobs -> JobRec] /\ jobs[j] \in JobRec /\ LinkingSound(jobs[j])
  BY DEF TypeOK, SerialInv
<1>2. /\ jobs[j].pc = "link" /\ stored' = stored /\ jobs' = [jobs EXCEPT ![j] = r]
      /\ links' = links \cup ({d.item} \X MergedIn(From(d, closing), d.at))
  BY <1>0, <1>1 DEF Link, LinkNext
<1>3. /\ r.pc = "link" /\ r.todo = jobs[j].todo /\ r.closing = closing
      /\ r.unlinked = jobs[j].unlinked \ {d}
  BY <1>0, <1>1, <1>2 DEF JobRec
<1>4. Shipped' = Shipped /\ \A from, until : MergedIn(from, until)' = MergedIn(from, until)
  BY <1>2 DEF Shipped, MergedIn
<1>5. ASSUME NEW c \in r.closing \ r.unlinked
      PROVE  {c.item} \X MergedIn(From(c, r.closing), c.at)' \subseteq links'
  <2>1. CASE c = d
    BY <1>2, <1>3, <1>4, <2>1
  <2>2. CASE c # d
    <3>1. c \in jobs[j].closing \ jobs[j].unlinked
      BY <1>0, <1>3, <1>5, <2>2
    <3>2. {c.item} \X MergedIn(From(c, closing), c.at) \subseteq links
      BY <1>0, <1>1, <1>2, <3>1 DEF LinkingSound
    <3>3. QED BY <1>2, <1>3, <1>4, <3>2
  <2>3. QED BY <2>1, <2>2
<1>6. LinkingSound(r)'
  <2>1. /\ jobs[j].todo = {} /\ closing = Shipped /\ jobs[j].unlinked \subseteq closing
    BY <1>0, <1>1, <1>2 DEF LinkingSound
  <2>2. QED BY <1>3, <1>4, <1>5, <2>1 DEF LinkingSound
<1>7. j \in Active
  BY <1>2 DEF Active, Running
<1>8. links \subseteq links'
  BY <1>2
<1>9. QED BY <1>2, <1>6, <1>7, <1>8, SerialTask

LEMMA SerialNext == TypeOK /\ SerialInv /\ [Next]_vars => SerialInv'
<1> SUFFICES ASSUME TypeOK, SerialInv, [Next]_vars, workers = 1 PROVE SerialInv'
  BY Kinds DEF SerialInv
<1>1. jobs \in [Jobs -> JobRec] /\ Alone /\ \A k \in Jobs : LinkingSound(jobs[k])
  BY DEF TypeOK, SerialInv
<1>2. CASE UNCHANGED <<stored, links, jobs>>
  <2>1. Shipped' = Shipped /\ \A from, until : MergedIn(from, until)' = MergedIn(from, until)
    BY <1>2 DEF Shipped, MergedIn
  <2>2. Alone' /\ \A k \in Jobs : LinkingSound(jobs[k])'
    BY <1>1, <1>2, <2>1 DEF Alone, Active, LinkingSound
  <2>3. QED BY <2>2 DEF SerialInv
<1>3. ASSUME NEW j \in Jobs, UNCHANGED stored, Waits(j), UNCHANGED links \/ LinksSome(j)
      PROVE  SerialInv'
  <2>1. PICK r \in JobRec : jobs' = [jobs EXCEPT ![j] = r] /\ r.pc \in {"idle", "queued"}
    BY <1>3 DEF Waits
  <2>2. LinkingSound(r)' /\ r.pc \notin Running
    BY <2>1 DEF LinkingSound, Running
  <2>3. links \subseteq links'
    BY <1>3 DEF LinksSome, LinkNext
  <2>4. QED BY <1>3, <2>1, <2>2, <2>3, SerialTask
<1>4. ASSUME NEW j \in Jobs, Start(j) PROVE SerialInv'
  <2>0. PICK r : r = [jobs[j] EXCEPT !.pc = "deployments", !.started = now,
                                     !.since = Since(lastSynced, jobs[j].backfill)]
    OBVIOUS
  <2>1. jobs' = [jobs EXCEPT ![j] = r] /\ UNCHANGED <<stored, links>>
    BY <1>1, <1>4, <2>0 DEF Start, tables
  <2>2. r.pc = "deployments"
    BY <1>1, <2>0 DEF JobRec
  <2>3. LinkingSound(r)'
    BY <2>2 DEF LinkingSound
  <2>4. Active = {}
    <3>1. Cardinality(Active) < 1
      BY <1>4 DEF Start
    <3>2. IsFiniteSet(Active)
      BY CollectionAssumption, FS_Subset DEF Active
    <3>3. Cardinality(Active) \in Nat
      BY <3>2, FS_CardinalityType
    <3>4. Cardinality(Active) = 0
      BY <3>1, <3>3
    <3>5. QED BY <3>2, <3>4, FS_EmptySet
  <2>5. QED BY <2>1, <2>3, <2>4, SerialTask
<1>5. ASSUME NEW j \in Jobs, FetchPage(j) PROVE SerialInv'
  <2>1. PICK todo, page, pc : /\ jobs' = [jobs EXCEPT ![j].todo = todo, ![j].page = page, ![j].pc = pc]
                              /\ pc \in {"deployments", "mergeRequests", "correlate"}
    <3>1. jobs[j].pc \in {"deployments", "mergeRequests"}
      BY <1>5 DEF FetchPage
    <3>2. After(jobs[j].pc) \in {"mergeRequests", "correlate"}
      BY DEF After
    <3>3. \E new, page, pc :
            /\ jobs' = [jobs EXCEPT ![j].todo = @ \cup new, ![j].page = page, ![j].pc = pc]
            /\ pc \in {jobs[j].pc, After(jobs[j].pc)}
      BY <1>1, <1>5 DEF FetchPage
    <3>4. PICK new, page, pc :
            /\ jobs' = [jobs EXCEPT ![j].todo = jobs[j].todo \cup new, ![j].page = page, ![j].pc = pc]
            /\ pc \in {jobs[j].pc, After(jobs[j].pc)}
      BY <1>1, <3>3
    <3>5. PICK todo : todo = jobs[j].todo \cup new
      OBVIOUS
    <3>6. QED BY <3>1, <3>2, <3>4, <3>5
  <2>2. PICK r : r = [jobs[j] EXCEPT !.todo = todo, !.page = page, !.pc = pc]
    OBVIOUS
  <2>3. jobs' = [jobs EXCEPT ![j] = r] /\ r.pc = pc
    BY <1>1, <2>1, <2>2 DEF JobRec
  <2>4. LinkingSound(r)'
    BY <2>1, <2>3 DEF LinkingSound
  <2>5. j \in Active /\ UNCHANGED <<stored, links>>
    BY <1>5 DEF FetchPage, Active, Running, tables
  <2>6. QED BY <2>3, <2>4, <2>5, SerialTask
<1>6. ASSUME NEW j \in Jobs, NEW l \in jobs[j].todo, NEW b \in BOOLEAN, StoreRow(j, l, b)
      PROVE  SerialInv'
  <2>0. PICK r : r = [jobs[j] EXCEPT !.todo = jobs[j].todo \ {l}, !.clean = jobs[j].clean /\ b]
    OBVIOUS
  <2>1. jobs' = [jobs EXCEPT ![j] = r] /\ UNCHANGED links /\ jobs[j].pc \in Running
    BY <1>1, <1>6, <2>0 DEF StoreRow
  <2>2. r.pc = jobs[j].pc
    BY <1>1, <2>0 DEF JobRec
  <2>3. jobs[j].pc # "link"
    BY <1>1, <1>6 DEF LinkingSound
  <2>4. LinkingSound(r)' /\ j \in Active
    BY <2>1, <2>2, <2>3 DEF LinkingSound, Active
  <2>5. QED BY <2>1, <2>4, SerialTask
<1>7. QED BY <1>2, <1>3, <1>4, <1>5, <1>6, Kinds, CorrelateSerial, LinkSerial
  
LEMMA SerialHolds == Spec => []SerialInv
<1>1. QED BY SerialInit, SerialNext, TypeCorrect, PTL DEF Spec

\* A run that has followed its list to the end leaves no merge request of the tables
\* without its deployment: the first one after the merge closes an interval with it.
THEOREM LinksAreComplete == Spec => []SerialLinksComplete
<1>1. TypeOK /\ SerialInv => SerialLinksComplete
  <2> SUFFICES ASSUME TypeOK, SerialInv, workers = 1,
                      NEW j \in Jobs, jobs[j].pc = "link", jobs[j].unlinked = {},
                      NEW m \in MergeRequests, NEW d \in Production,
                      stored[m].status = "merged", stored[d].status = "success",
                      stored[m].at <= stored[d].at
               PROVE  \E l \in links : l[2] = m
    BY DEF SerialLinksComplete
  <2> DEFINE after == {c \in Shipped : stored[m].at <= c.at}
             times == {c.at : c \in after}
  <2>1. /\ MaxTime \in Nat /\ Time = 0..MaxTime /\ Month \in Nat /\ MaxTime < Month
        /\ \A c \in Shipped : c \in Closing /\ c.at \in Nat /\ c.at <= MaxTime
    BY CollectionAssumption, ShippedType DEF Time, Closing
  <2>2. stored[m].at \in Nat
    <3>1. m \in Items /\ stored[m] \in Row
      BY DEF TypeOK, Items
    <3>2. QED BY <2>1, <3>1 DEF Row
  <2>3. [item |-> d, at |-> stored[d].at] \in after
    BY DEF Shipped
  <2>4. times \in SUBSET Nat /\ times # {}
    <3> HIDE DEF after
    <3>1. \A c \in after : c.at \in Nat
      BY <2>1 DEF after
    <3>2. QED BY <2>3, <3>1
  <2>5. PICK t \in times : \A u \in times : t <= u
    <3> HIDE DEF times
    <3>1. QED BY <2>4, LeastExists
  <2>6. PICK c \in after : c.at = t
    OBVIOUS
  <2>7. \A e \in after : c.at <= e.at
    BY <2>5, <2>6
  <2>8. /\ jobs[j].closing = Shipped
        /\ {c.item} \X MergedIn(From(c, Shipped), c.at) \subseteq links
    BY <2>6 DEF SerialInv, LinkingSound
  <2>9. stored[m].at > From(c, Shipped)
    <3>1. CASE {e \in Shipped : e.at < c.at} = {}
      <4>1. From(c, Shipped) = c.at - Month
        BY <3>1 DEF From
      <4>2. QED BY <2>1, <2>2, <2>6, <4>1
    <3>2. CASE {e \in Shipped : e.at < c.at} # {}
      <4>1. PICK b \in Shipped : b.at < c.at /\ From(c, Shipped) = b.at
        BY <2>1, <3>2, FromPredecessor
      <4>2. b \notin after
        BY <2>1, <2>6, <2>7, <4>1
      <4>3. ~(stored[m].at <= b.at)
        BY <4>2
      <4>4. QED BY <2>1, <2>2, <4>1, <4>3
    <3>3. QED BY <3>1, <3>2
  <2>10. m \in MergedIn(From(c, Shipped), c.at)
    BY <2>6, <2>9 DEF MergedIn
  <2>11. <<c.item, m>> \in links
    BY <2>8, <2>10
  <2>12. QED BY <2>11
<1>2. QED BY <1>1, SerialHolds, TypeCorrect, PTL

-----------------------------------------------------------------------------
(***************************************************************************)
(* With one worker the tables never show a deployment without those that   *)
(* succeeded before it, as long as each listing fits on one page: rows are *)
(* stored in the order of their changes, and what a listing has outdated   *)
(* happened after all that it shows.  So the interval a deployment closes  *)
(* starts no earlier than the last success in GitLab.                      *)
(***************************************************************************)

Succeeded(d) == remote[d].status = "success"

\* GitLab's changes are in the order of its clock.
Timeline ==
  /\ \A o \in Items : remote[o].at <= now /\ remote[o].revision <= revision
  /\ \A c, d \in Deployments :
       Succeeded(c) /\ Succeeded(d) /\ remote[d].at < remote[c].at
         => remote[d].revision < remote[c].revision

StoredInOrder ==
  \A c, d \in Deployments :
    stored[c].status = "success" /\ Succeeded(d) /\ remote[d].at < stored[c].at => Current(d)

\* Before a success of the listing is stored, the earlier ones are.
ListedInOrder(r) ==
  \A l \in r.todo : \A d \in Deployments :
    l.item \in Deployments /\ l.row.status = "success" /\ Succeeded(d) /\ remote[d].at < l.row.at
      => Current(d) \/ \E k \in r.todo : k.item = d /\ k.row = RowOf(d) /\ k.revision < l.revision

OutdatedAreLast(r) ==
  \A l \in r.todo : l.item \in Deployments /\ l.row # RowOf(l.item) /\ Succeeded(l.item) =>
    /\ \A c \in Deployments : stored[c].status = "success" => stored[c].at < remote[l.item].at
    /\ \A k \in r.todo :
         k.item \in Deployments /\ k.row.status = "success" => k.row.at < remote[l.item].at

\* With nobody else to store older rows, a run asks for all that is not current.
WillAskAll(r) ==
  r.pc = "deployments" =>
    /\ r.todo = {} /\ r.since <= now
    /\ \A d \in Deployments : Current(d) \/ remote[d].updated >= r.since

InOrder(r) == ListedInOrder(r) /\ OutdatedAreLast(r) /\ WillAskAll(r)

OrderInv == workers = 1 => StoredInOrder /\ \A j \in Jobs : InOrder(jobs[j])

LEMMA Comparable ==
  ASSUME TypeOK
  PROVE  /\ now \in Nat /\ revision \in Nat
         /\ \A o \in Items : /\ remote[o].at \in Int /\ remote[o].updated \in Nat
                             /\ remote[o].revision \in Nat /\ stored[o].at \in Int
         /\ \A j \in Jobs : jobs[j] \in JobRec /\ jobs[j].since \in Int
         /\ \A j \in Jobs : \A l \in jobs[j].todo :
              l.item \in Items /\ l.row.at \in Int /\ l.revision \in Nat
<1>0. Time \subseteq Nat /\ \A t \in Time \cup {Never} : t \in Int
  BY CollectionAssumption DEF Time, Never
<1>1. \A r \in Row : r.at \in Int
  <2>1. \A r \in Row : r.at \in Time \cup {Never}
    BY DEF Row
  <2>2. QED BY <1>0, <2>1
<1>2. \A l \in Listed : l.item \in Items /\ l.row.at \in Int /\ l.revision \in Nat
  BY <1>1 DEF Listed
<1>3. \A j \in Jobs : jobs[j] \in JobRec /\ jobs[j].since \in Int /\ jobs[j].todo \subseteq Listed
  BY DEF TypeOK, JobRec
<1>4. \A o \in Items : /\ remote[o].at \in Int /\ remote[o].updated \in Nat
                       /\ remote[o].revision \in Nat /\ stored[o].at \in Int
  <2>1. \A o \in Items : stored[o] \in Row
    BY DEF TypeOK
  <2>2. \A o \in Items : remote[o].at \in Time \cup {Never} /\ remote[o].updated \in Time
                          /\ remote[o].revision \in Nat
    BY DEF TypeOK
  <2>3. QED BY <1>0, <1>1, <2>1, <2>2
<1>5. QED BY <1>0, <1>2, <1>3, <1>4 DEF TypeOK

\* A change in GitLab: an object that was not final, here and now.
LEMMA GitLabEffect ==
  ASSUME TypeOK, GitLab
  PROVE  \E o, new :
           /\ o \in Items
           /\ remote' = [remote EXCEPT ![o] = new] /\ remote[o].status \in {"none", "running"}
           /\ new.at \in {Never, now} /\ new.updated = now
           /\ new.revision = revision + 1 /\ revision' = revision + 1 /\ now' = now
           /\ new.status = "success" =>
                o \in Deployments /\ new.at = now /\ \A e \in Deployments : remote[e].at # now
<1>1. ASSUME NEW o \in Items, NEW status, NEW at, Change(o, status, at)
      PROVE  \E new : /\ remote' = [remote EXCEPT ![o] = new]
                      /\ new.at = at /\ new.status = status /\ new.updated = now
                      /\ new.revision = revision + 1 /\ revision' = revision + 1 /\ now' = now
  <2>1. /\ revision' = revision + 1 /\ now' = now
        /\ remote' = [remote EXCEPT ![o] = [status |-> status, at |-> at, updated |-> now,
                                            revision |-> revision']]
    BY <1>1 DEF Change
  <2>2. PICK new : new = [status |-> status, at |-> at, updated |-> now, revision |-> revision + 1]
    OBVIOUS
  <2>3. /\ new.at = at /\ new.status = status /\ new.updated = now
        /\ new.revision = revision + 1
    BY <2>2
  <2>4. remote' = [remote EXCEPT ![o] = new]
    BY <2>1, <2>2
  <2>5. QED BY <2>1, <2>3, <2>4
<1>2. ASSUME NEW d \in Deployments, Deploy(d)
      PROVE  d \in Items /\ remote[d].status = "none" /\ Change(d, "running", Never)
  BY <1>2 DEF Deploy, Items
<1>3. ASSUME NEW d \in Deployments, NEW status, Finish(d, status)
      PROVE  /\ d \in Items /\ remote[d].status = "running" /\ Change(d, status, now)
             /\ \A e \in Deployments : remote[e].at # now
  BY <1>3 DEF Finish, Items
<1>4. ASSUME NEW m \in MergeRequests, Merge(m)
      PROVE  m \in Items /\ remote[m].status = "none" /\ Change(m, "merged", now)
  BY <1>4 DEF Merge, Items
<1>5. CASE \E d \in Deployments : Deploy(d)
  <2>1. PICK d \in Deployments : d \in Items /\ remote[d].status = "none" /\ Change(d, "running", Never)
    BY <1>2, <1>5
  <2>2. QED BY <1>1, <2>1
<1>6. CASE \E d \in Deployments : Finish(d, "success") \/ Finish(d, "failed")
  <2>1. PICK d \in Deployments, status \in {"success", "failed"} : Finish(d, status)
    BY <1>6
  <2>2. QED BY <1>1, <1>3, <2>1
<1>7. CASE \E m \in MergeRequests : Merge(m)
  <2>1. PICK m \in MergeRequests : m \in Items /\ remote[m].status = "none" /\ Change(m, "merged", now)
    BY <1>4, <1>7
  <2>2. QED BY <1>1, <2>1
<1>8. QED BY <1>5, <1>6, <1>7 DEF GitLab

LEMMA TimelineNext == TypeOK /\ Timeline /\ [Next]_vars => Timeline'
<1> SUFFICES ASSUME TypeOK, Timeline, [Next]_vars PROVE Timeline'
  OBVIOUS
<1>1. CASE GitLab
  <2>1. PICK o, new :
          /\ o \in Items
          /\ remote' = [remote EXCEPT ![o] = new] /\ remote[o].status \in {"none", "running"}
          /\ new.at \in {Never, now} /\ new.updated = now
          /\ new.revision = revision + 1 /\ revision' = revision + 1 /\ now' = now
          /\ new.status = "success" =>
               o \in Deployments /\ new.at = now /\ \A e \in Deployments : remote[e].at # now
    BY <1>1, GitLabEffect
  <2>2. remote'[o] = new /\ \A p \in Items : p # o => remote'[p] = remote[p]
    BY <2>1 DEF TypeOK
  <2>3. /\ now \in Nat /\ revision \in Nat
        /\ \A p \in Items : remote[p].at \in Int /\ remote[p].revision \in Nat
    BY Comparable
  <2>4. ASSUME NEW p \in Items PROVE remote'[p].at <= now /\ remote'[p].revision <= revision + 1
    <3>1. CASE p = o
      BY <2>1, <2>2, <2>3, <3>1 DEF Never
    <3>2. CASE p # o
      BY <2>2, <2>3, <3>2 DEF Timeline
    <3>3. QED BY <3>1, <3>2
  <2>5. ASSUME NEW c \in Deployments, NEW d \in Deployments, remote'[c].status = "success",
               remote'[d].status = "success", remote'[d].at < remote'[c].at
        PROVE  remote'[d].revision < remote'[c].revision
    <3>1. c \in Items /\ d \in Items
      BY DEF Items
    <3>2. CASE d = o
      <4>1. now < remote'[c].at
        BY <2>1, <2>2, <2>5, <3>2
      <4>2. QED BY <2>3, <2>4, <3>1, <4>1, <2>1, <2>2, <2>5
    <3>3. CASE d # o /\ c = o
      BY <2>1, <2>2, <2>3, <3>1, <3>3 DEF Timeline
    <3>4. CASE d # o /\ c # o
      BY <2>2, <2>5, <3>1, <3>4 DEF Timeline, Succeeded
    <3>5. QED BY <3>2, <3>3, <3>4
  <2>6. QED BY <2>1, <2>4, <2>5 DEF Timeline, Succeeded
<1>2. CASE UNCHANGED <<remote, revision>> /\ now' \in {now, now + 1}
  <2>1. now \in Nat /\ \A p \in Items : remote[p].at \in Int
    BY Comparable
  <2>2. QED BY <1>2, <2>1 DEF Timeline, Succeeded
<1>3. QED BY <1>1, <1>2, Kinds

\* What the order rests on.
Ground == TypeOK /\ CollectionInv /\ LinksInv /\ SerialInv /\ Timeline

LEMMA OrderInit == Init => OrderInv
<1> SUFFICES ASSUME Init PROVE OrderInv
  OBVIOUS
<1>1. \A c \in Deployments : stored[c].status # "success"
  BY DEF Init, NoRow, Items
<1>2. \A j \in Jobs : jobs[j].pc = "idle" /\ jobs[j].todo = {}
  BY DEF Init, NoJob
<1>3. \A j \in Jobs : InOrder(jobs[j])
  BY <1>2 DEF InOrder, ListedInOrder, OutdatedAreLast, WillAskAll
<1>4. QED BY <1>1, <1>3 DEF OrderInv, StoredInOrder

\* Time passes; a success in GitLab is younger than all that is known.
LEMMA GitLabOrder ==
  ASSUME Ground, workers = 1, OrderInv, GitLab
  PROVE  StoredInOrder' /\ \A j \in Jobs : InOrder(jobs[j])'
<1>1. PICK o, new :
        /\ o \in Items
        /\ remote' = [remote EXCEPT ![o] = new] /\ remote[o].status \in {"none", "running"}
        /\ new.at \in {Never, now} /\ new.updated = now
        /\ new.revision = revision + 1 /\ revision' = revision + 1 /\ now' = now
        /\ new.status = "success" =>
             o \in Deployments /\ new.at = now /\ \A e \in Deployments : remote[e].at # now
  BY GitLabEffect DEF Ground
<1>2. remote'[o] = new /\ \A p \in Items : p # o => remote'[p] = remote[p] /\ RowOf(p)' = RowOf(p)
  BY <1>1 DEF Ground, TypeOK, RowOf
<1>3. stored' = stored /\ jobs' = jobs
  BY DEF GitLab, Deploy, Finish, Merge, Change, tables
<1>4. /\ now \in Nat
      /\ \A p \in Items : /\ remote[p].at \in Int /\ stored[p].at \in Int
                          /\ remote[p].at <= now
  BY Comparable DEF Ground, Timeline
<1>5. \A d \in Deployments : d \in Items
  BY DEF Items
<1>6. ASSUME NEW c \in Deployments, stored[c].status = "success"
      PROVE  stored[c].at <= now /\ (new.status = "success" => stored[c].at < now)
  <2>1. RowOf(c) = stored[c]
    BY <1>5, <1>6 DEF Ground, LinksInv, StoredTruth, Final
  <2>2. remote[c].at = stored[c].at
    BY <2>1 DEF RowOf
  <2>3. QED BY <1>1, <1>4, <1>5, <2>2
<1>7. ASSUME NEW j \in Jobs, NEW l \in jobs[j].todo, l.item \in Deployments,
             l.row.status = "success"
      PROVE  l.row.at <= now /\ (new.status = "success" => l.row.at < now)
  <2>1. RowOf(l.item) = l.row
    BY <1>7 DEF Ground, LinksInv, Truthful, Final
  <2>2. remote[l.item].at = l.row.at
    BY <2>1 DEF RowOf
  <2>3. QED BY <1>1, <1>4, <1>5, <1>7, <2>2
<1>8. StoredInOrder'
  <2> SUFFICES ASSUME NEW c \in Deployments, NEW d \in Deployments,
                      stored[c].status = "success", remote'[d].status = "success",
                      remote'[d].at < stored[c].at
               PROVE  stored[d] = RowOf(d)'
    BY <1>3 DEF StoredInOrder, Succeeded, Current
  <2>1. CASE d = o
    BY <1>1, <1>2, <1>4, <1>5, <1>6, <2>1
  <2>2. CASE d # o
    BY <1>2, <1>5, <2>2 DEF OrderInv, StoredInOrder, Succeeded, Current
  <2>3. QED BY <2>1, <2>2
<1>9. ASSUME NEW j \in Jobs PROVE ListedInOrder(jobs[j])'
  <2> SUFFICES ASSUME NEW l \in jobs[j].todo, NEW d \in Deployments, l.item \in Deployments,
                      l.row.status = "success", remote'[d].status = "success",
                      remote'[d].at < l.row.at
               PROVE  \/ stored[d] = RowOf(d)'
                      \/ \E k \in jobs[j].todo :
                           k.item = d /\ k.row = RowOf(d)' /\ k.revision < l.revision
    BY <1>3 DEF ListedInOrder, Succeeded, Current
  <2>1. CASE d = o
    <3>1. l.row.at \in Int
      BY Comparable DEF Ground
    <3>2. QED BY <1>1, <1>2, <1>4, <1>7, <2>1, <3>1
  <2>2. CASE d # o
    <3>1. RowOf(d)' = RowOf(d) /\ remote[d].status = "success" /\ remote[d].at < l.row.at
      BY <1>2, <1>5, <2>2
    <3>2. ListedInOrder(jobs[j])
      BY DEF OrderInv, InOrder
    <3>3. QED BY <3>1, <3>2 DEF ListedInOrder, Succeeded, Current
  <2>3. QED BY <2>1, <2>2
<1>10. ASSUME NEW j \in Jobs PROVE OutdatedAreLast(jobs[j])'
  <2> SUFFICES ASSUME NEW l \in jobs[j].todo, l.item \in Deployments, l.row # RowOf(l.item)',
                      remote'[l.item].status = "success"
               PROVE  /\ \A c \in Deployments :
                           stored[c].status = "success" => stored[c].at < remote'[l.item].at
                      /\ \A k \in jobs[j].todo :
                           k.item \in Deployments /\ k.row.status = "success"
                             => k.row.at < remote'[l.item].at
    BY <1>3 DEF OutdatedAreLast, Succeeded
  <2>1. CASE l.item = o
    BY <1>1, <1>2, <1>6, <1>7, <2>1
  <2>2. CASE l.item # o
    <3>1. RowOf(l.item)' = RowOf(l.item) /\ remote'[l.item] = remote[l.item]
      BY <1>2, <1>5, <2>2
    <3>2. OutdatedAreLast(jobs[j])
      BY DEF OrderInv, InOrder
    <3>3. QED BY <3>1, <3>2 DEF OutdatedAreLast, Succeeded
  <2>3. QED BY <2>1, <2>2
<1>11. ASSUME NEW j \in Jobs PROVE WillAskAll(jobs[j])'
  <2> SUFFICES ASSUME jobs[j].pc = "deployments"
               PROVE  /\ jobs[j].todo = {} /\ jobs[j].since <= now
                      /\ \A d \in Deployments :
                           stored[d] = RowOf(d)' \/ remote'[d].updated >= jobs[j].since
    BY <1>1, <1>3 DEF WillAskAll, Current
  <2>1. /\ jobs[j].todo = {} /\ jobs[j].since <= now /\ jobs[j].since \in Int
        /\ \A d \in Deployments : stored[d] = RowOf(d) \/ remote[d].updated >= jobs[j].since
    BY Comparable DEF Ground, OrderInv, InOrder, WillAskAll, Current
  <2>2. ASSUME NEW d \in Deployments
        PROVE  stored[d] = RowOf(d)' \/ remote'[d].updated >= jobs[j].since
    <3>1. CASE d = o
      BY <1>1, <1>2, <1>4, <2>1, <3>1
    <3>2. CASE d # o
      BY <1>2, <1>5, <2>1, <3>2
    <3>3. QED BY <3>1, <3>2
  <2>3. QED BY <2>1, <2>2
<1>12. QED BY <1>3, <1>8, <1>9, <1>10, <1>11 DEF InOrder

\* A step of one task that neither GitLab nor the tables take part in.
LEMMA TaskOrder ==
  ASSUME Ground, workers = 1, OrderInv, NEW j \in Jobs, NEW r, InOrder(r),
         jobs' = [jobs EXCEPT ![j] = r], UNCHANGED <<remote, stored, now>>
  PROVE  StoredInOrder' /\ \A k \in Jobs : InOrder(jobs[k])'
<1>1. StoredInOrder'
  BY DEF OrderInv, StoredInOrder, Succeeded, Current, RowOf
<1>2. ASSUME NEW k \in Jobs PROVE InOrder(jobs[k])'
  <2>1. jobs'[k] = r \/ jobs'[k] = jobs[k]
    BY DEF Ground, TypeOK
  <2>2. InOrder(jobs'[k])
    BY <2>1 DEF OrderInv
  <2>3. QED BY <2>2
    DEF InOrder, ListedInOrder, OutdatedAreLast, WillAskAll, Succeeded, Current, RowOf
<1>3. QED BY <1>1, <1>2

\* A handler that holds nothing, and is not about to ask for deployments.
LEMMA HoldsNothing ==
  ASSUME NEW r, r.todo = {}, r.pc # "deployments"
  PROVE  InOrder(r)
  BY DEF InOrder, ListedInOrder, OutdatedAreLast, WillAskAll

\* What the last run left behind is asked for.
LEMMA StartOrder ==
  ASSUME Ground, workers = 1, OrderInv, NEW j \in Jobs, Start(j), UNCHANGED <<remote, now>>
  PROVE  StoredInOrder' /\ \A k \in Jobs : InOrder(jobs[k])'
<1>1. jobs \in [Jobs -> JobRec] /\ jobs[j] \in JobRec /\ Sound(jobs[j]) /\ jobs[j].pc = "queued"
  BY DEF Ground, TypeOK, CollectionInv, Start
<1>2. PICK since : since = Since(lastSynced, jobs[j].backfill)
  OBVIOUS
<1>3. PICK r : r = [jobs[j] EXCEPT !.pc = "deployments", !.started = now, !.since = since]
  OBVIOUS
<1>4. jobs' = [jobs EXCEPT ![j] = r] /\ stored' = stored
  BY <1>1, <1>2, <1>3 DEF Start, tables
<1>5. r.pc = "deployments" /\ r.todo = {} /\ r.since = since
  BY <1>1, <1>3 DEF JobRec, Sound
<1>6. /\ since \in Int
      /\ lastSynced = Never => since <= now - Month
      /\ lastSynced # Never => since <= lastSynced - Overlap
  <2>1. jobs[j].backfill \in BackfillDays
    BY <1>1 DEF JobRec
  <2>2. QED BY <1>2, <2>1, SinceType DEF Ground
<1>7. /\ now \in Nat /\ lastSynced \in Int /\ Overlap \in Nat /\ Month \in Nat /\ now < Month
      /\ lastSynced <= now /\ \A o \in Items : remote[o].updated \in Nat
  BY Numbers DEF Ground, CollectionInv, Clocks
<1>8. since <= now
  BY <1>6, <1>7
<1>9. ASSUME NEW d \in Deployments PROVE Current(d) \/ remote[d].updated >= since
  <2>1. d \in Items
    BY DEF Items
  <2>2. CASE lastSynced = Never
    BY <1>6, <1>7, <2>1, <2>2
  <2>3. CASE lastSynced # Never
    <3>1. Current(d) \/ remote[d].updated >= lastSynced - Overlap
      BY <2>1, <2>3 DEF Ground, CollectionInv, NothingLost
    <3>2. QED BY <1>6, <1>7, <2>1, <2>3, <3>1
  <2>4. QED BY <2>2, <2>3
<1>10. InOrder(r)
  BY <1>5, <1>8, <1>9 DEF InOrder, ListedInOrder, OutdatedAreLast, WillAskAll
<1>11. QED BY <1>4, <1>10, TaskOrder

\* A listing of deployments shows all that the tables do not, as it is, and in the order
\* of its changes; one of merge requests shows no deployment.
LEMMA FetchPageOrder ==
  ASSUME OnePage, Ground, workers = 1, OrderInv, NEW j \in Jobs, FetchPage(j),
         UNCHANGED <<remote, now>>
  PROVE  StoredInOrder' /\ \A k \in Jobs : InOrder(jobs[k])'
<1>1. /\ jobs \in [Jobs -> JobRec] /\ jobs[j] \in JobRec /\ Sound(jobs[j])
      /\ jobs[j].pc \in {"deployments", "mergeRequests"} /\ jobs[j].todo = {}
  BY DEF Ground, TypeOK, CollectionInv, FetchPage, Sound
<1>2. PICK found : found = Found(jobs[j].pc, jobs[j].since)
  OBVIOUS
<1>3. PICK shown : shown = Shown(found)
  OBVIOUS
<1>4. PICK r : r = [jobs[j] EXCEPT !.todo = jobs[j].todo \cup shown, !.page = 1,
                                   !.pc = After(jobs[j].pc)]
  OBVIOUS
<1>5. jobs' = [jobs EXCEPT ![j] = r]
  BY <1>1, <1>2, <1>3, <1>4, OnePageFetched DEF Ground
<1>6. r.todo = shown /\ r.pc # "deployments"
  BY <1>1, <1>4 DEF JobRec, After
<1>7. \A l \in shown : /\ l.item \in found /\ l.row = RowOf(l.item)
                       /\ l.revision = remote[l.item].revision
  BY <1>3 DEF Shown
<1>8. ASSUME NEW l \in shown, NEW d \in Deployments, l.item \in Deployments,
             l.row.status = "success", Succeeded(d), remote[d].at < l.row.at
      PROVE  Current(d) \/ \E k \in shown : /\ k.item = d /\ k.row = RowOf(d)
                                           /\ k.revision < l.revision
  <2>1. jobs[j].pc = "deployments"
    BY <1>1, <1>2, <1>7, <1>8, CollectionAssumption DEF Found
  <2>2. Current(d) \/ d \in found
    BY <1>2, <2>1, <1>8 DEF OrderInv, InOrder, WillAskAll, Found, Succeeded
  <2>3. remote[d].revision < l.revision
    <3>1. Succeeded(l.item) /\ remote[d].at < remote[l.item].at
      <4>1. l.row = [status |-> remote[l.item].status, at |-> remote[l.item].at]
        BY <1>7, <1>8 DEF RowOf
      <4>2. QED BY <1>8, <4>1 DEF Succeeded
    <3>2. remote[d].revision < remote[l.item].revision
      BY <1>8, <3>1 DEF Ground, Timeline
    <3>3. QED BY <1>7, <3>2
  <2>4. d \in found => [item |-> d, row |-> RowOf(d), revision |-> remote[d].revision] \in shown
    BY <1>3 DEF Shown
  <2>5. QED BY <2>2, <2>3, <2>4
<1>9. InOrder(r)
  BY <1>6, <1>7, <1>8 DEF InOrder, ListedInOrder, OutdatedAreLast, WillAskAll
<1>10. stored' = stored
  BY DEF FetchPage, tables
<1>11. QED BY <1>5, <1>9, <1>10, TaskOrder

\* Storing a row: the earlier successes are stored, and an outdated row hides only what is
\* younger than all that is known.
LEMMA StoreRowOrder ==
  ASSUME Ground, workers = 1, OrderInv, NEW j \in Jobs, NEW l \in jobs[j].todo,
         NEW b \in BOOLEAN, StoreRow(j, l, b), UNCHANGED <<remote, now>>
  PROVE  StoredInOrder' /\ \A k \in Jobs : InOrder(jobs[k])'
<1> DEFINE o == l.item
           rest == jobs[j].todo \ {l}
<1>1. /\ jobs \in [Jobs -> JobRec] /\ jobs[j] \in JobRec /\ InOrder(jobs[j])
      /\ stored \in [Items -> Row] /\ o \in Items /\ \A d \in Deployments : d \in Items
  BY Comparable DEF Ground, TypeOK, OrderInv, Items
<1>2. /\ stored' = [stored EXCEPT ![o] = l.row] /\ jobs[j].pc \in Running
      /\ \A k \in jobs[j].todo : l.revision <= k.revision
  BY DEF StoreRow
<1>3. /\ \A k \in Jobs : \A i \in jobs[k].todo : i.row.at \in Int /\ i.revision \in Nat
      /\ \A p \in Items : remote[p].at \in Int /\ stored[p].at \in Int
  BY Comparable DEF Ground
<1>4. stored'[o] = l.row /\ \A p \in Items : p # o => stored'[p] = stored[p]
  BY <1>1, <1>2
<1>5. \A p \in Items : p # o => (stored'[p] = RowOf(p)) = Current(p)
  BY <1>4 DEF Current
<1>6. \A p \in Items : RowOf(p)' = RowOf(p)
  BY DEF RowOf
<1>7. l.row.status = "success" => l.row = RowOf(o)
  BY DEF Ground, LinksInv, Truthful, Final
<1>8. StoredInOrder'
  <2> SUFFICES ASSUME NEW c \in Deployments, NEW d \in Deployments,
                      stored'[c].status = "success", Succeeded(d), remote[d].at < stored'[c].at
               PROVE  stored'[d] = RowOf(d)
    BY <1>1, <1>6 DEF StoredInOrder, Succeeded, Current
  <2>1. CASE c = o
    <3>1. l.row.status = "success" /\ remote[d].at < l.row.at
      BY <1>1, <1>4, <2>1
    <3>2. d # o
      BY <1>1, <1>3, <1>7, <3>1 DEF RowOf
    <3>3. Current(d) \/ \E k \in jobs[j].todo : k.revision < l.revision
      BY <1>1, <2>1, <3>1 DEF InOrder, ListedInOrder
    <3>4. Current(d)
      BY <1>2, <1>3, <3>3
    <3>5. QED BY <1>1, <1>5, <3>2, <3>4
  <2>2. CASE c # o
    <3>1. stored[c].status = "success" /\ remote[d].at < stored[c].at
      BY <1>1, <1>4, <2>2
    <3>2. CASE d # o
      BY <1>1, <1>5, <3>1, <3>2 DEF OrderInv, StoredInOrder
    <3>3. CASE d = o /\ l.row # RowOf(o)
      <4>1. stored[c].at < remote[d].at
        BY <1>1, <3>1, <3>3 DEF InOrder, OutdatedAreLast
      <4>2. QED BY <1>1, <1>3, <3>1, <4>1
    <3>4. CASE d = o /\ l.row = RowOf(o)
      BY <1>4, <3>4
    <3>5. QED BY <3>2, <3>3, <3>4
  <2>3. QED BY <2>1, <2>2
<1>9. ASSUME NEW k \in Jobs, k # j PROVE InOrder(jobs[k])'
  <2>1. jobs[k].pc \notin Running
    BY <1>2, <1>9 DEF Ground, SerialInv, Alone, Active
  <2>2. jobs[k] \in JobRec /\ Sound(jobs[k])
    BY DEF Ground, CollectionInv, TypeOK
  <2>3. jobs[k].todo = {} /\ jobs[k].pc # "deployments"
    BY <2>1, <2>2 DEF Sound, JobRec, Running
  <2>4. jobs'[k] = jobs[k]
    BY <1>1, <1>9 DEF StoreRow
  <2>5. QED BY <2>3, <2>4 DEF InOrder, ListedInOrder, OutdatedAreLast, WillAskAll
<1>10. jobs'[j].todo = rest /\ jobs'[j].pc = jobs[j].pc
  BY <1>1 DEF StoreRow, JobRec
<1>11. ListedInOrder(jobs[j])'
  <2> SUFFICES ASSUME NEW i \in rest, NEW d \in Deployments, i.item \in Deployments,
                      i.row.status = "success", Succeeded(d), remote[d].at < i.row.at
               PROVE  \/ stored'[d] = RowOf(d)
                      \/ \E k \in rest : k.item = d /\ k.row = RowOf(d) /\ k.revision < i.revision
    BY <1>1, <1>6, <1>10 DEF ListedInOrder, Succeeded, Current
  <2>1. \/ Current(d)
        \/ \E k \in jobs[j].todo : k.item = d /\ k.row = RowOf(d) /\ k.revision < i.revision
    BY <1>1 DEF InOrder, ListedInOrder
  <2>2. CASE \E k \in rest : k.item = d /\ k.row = RowOf(d) /\ k.revision < i.revision
    BY <2>2
  <2>3. CASE d = o /\ l.row = RowOf(d)
    BY <1>4, <2>3
  <2>4. CASE d # o /\ Current(d)
    BY <1>1, <1>5, <2>4
  <2>5. CASE d = o /\ l.row # RowOf(d)
    <3>1. i.row.at < remote[d].at
      BY <1>1, <2>5 DEF InOrder, OutdatedAreLast
    <3>2. QED BY <1>1, <1>3, <3>1
  <2>6. QED BY <2>1, <2>2, <2>3, <2>4, <2>5
<1>12. OutdatedAreLast(jobs[j])'
  <2> SUFFICES ASSUME NEW i \in rest, i.item \in Deployments, i.row # RowOf(i.item),
                      Succeeded(i.item)
               PROVE  /\ \A c \in Deployments :
                           stored'[c].status = "success" => stored'[c].at < remote[i.item].at
                      /\ \A k \in rest :
                           k.item \in Deployments /\ k.row.status = "success"
                             => k.row.at < remote[i.item].at
    BY <1>1, <1>6, <1>10 DEF OutdatedAreLast, Succeeded
  <2>1. /\ \A c \in Deployments :
             stored[c].status = "success" => stored[c].at < remote[i.item].at
        /\ \A k \in jobs[j].todo :
             k.item \in Deployments /\ k.row.status = "success" => k.row.at < remote[i.item].at
    BY <1>1 DEF InOrder, OutdatedAreLast
  <2>2. QED BY <1>1, <1>4, <2>1
<1>13. WillAskAll(jobs[j])'
  <2>1. jobs[j].pc # "deployments"
    BY <1>1 DEF InOrder, WillAskAll
  <2>2. QED BY <1>10, <2>1 DEF WillAskAll
<1>14. QED BY <1>8, <1>9, <1>11, <1>12, <1>13 DEF InOrder

LEMMA OrderNext == OnePage /\ Ground /\ OrderInv /\ [Next]_vars => OrderInv'
<1> SUFFICES ASSUME OnePage, Ground, OrderInv, [Next]_vars, workers = 1
             PROVE  StoredInOrder' /\ \A j \in Jobs : InOrder(jobs[j])'
  BY Kinds DEF Ground, OrderInv
<1>0. /\ jobs \in [Jobs -> JobRec] /\ now \in Nat
      /\ \A j \in Jobs : InOrder(jobs[j]) /\ jobs[j].since \in Int
  BY Comparable DEF Ground, TypeOK, OrderInv
<1>1. CASE UNCHANGED <<stored, links, jobs, remote>> /\ now' \in {now, now + 1}
  <2>1. StoredInOrder'
    BY <1>1 DEF OrderInv, StoredInOrder, Succeeded, Current, RowOf
  <2>2. ASSUME NEW j \in Jobs PROVE InOrder(jobs[j])'
    <3>1. jobs[j].since <= now => jobs[j].since <= now'
      BY <1>0, <1>1
    <3>2. QED BY <1>0, <1>1, <3>1
      DEF InOrder, ListedInOrder, OutdatedAreLast, WillAskAll, Succeeded, Current, RowOf
  <2>3. QED BY <2>1, <2>2
<1>2. ASSUME NEW j \in Jobs, UNCHANGED <<remote, now, stored>>, Waits(j)
      PROVE  StoredInOrder' /\ \A k \in Jobs : InOrder(jobs[k])'
  <2>1. PICK r \in JobRec : /\ jobs' = [jobs EXCEPT ![j] = r]
                            /\ r.pc \in {"idle", "queued"} /\ r.todo \in {{}, jobs[j].todo}
    BY <1>2 DEF Waits
  <2>2. InOrder(r)
    BY <1>0, <2>1 DEF InOrder, ListedInOrder, OutdatedAreLast, WillAskAll
  <2>3. QED BY <1>2, <2>1, <2>2, TaskOrder
<1>3. ASSUME NEW j \in Jobs, UNCHANGED <<remote, now>>, Correlate(j)
      PROVE  StoredInOrder' /\ \A k \in Jobs : InOrder(jobs[k])'
  <2>1. \E listed : jobs' = [jobs EXCEPT ![j].pc = "link", ![j].closing = listed,
                                         ![j].unlinked = listed]
    BY <1>3 DEF Correlate
  <2>2. PICK listed : jobs' = [jobs EXCEPT ![j].pc = "link", ![j].closing = listed,
                                           ![j].unlinked = listed]
    BY <2>1
  <2>3. PICK r : r = [jobs[j] EXCEPT !.pc = "link", !.closing = listed, !.unlinked = listed]
    OBVIOUS
  <2>4. jobs' = [jobs EXCEPT ![j] = r]
    BY <1>0, <2>2, <2>3
  <2>5. jobs[j].todo = {} /\ stored' = stored /\ jobs[j] \in JobRec
    BY <1>0, <1>3 DEF Correlate, tables
  <2>6. r.todo = {} /\ r.pc = "link"
    BY <2>3, <2>5 DEF JobRec
  <2>7. QED BY <1>3, <2>4, <2>5, <2>6, HoldsNothing, TaskOrder
<1>4. ASSUME NEW j \in Jobs, UNCHANGED <<remote, now>>, NEW d \in jobs[j].unlinked, Link(j, d)
      PROVE  StoredInOrder' /\ \A k \in Jobs : InOrder(jobs[k])'
  <2>1. PICK r : r = [jobs[j] EXCEPT !.unlinked = jobs[j].unlinked \ {d}]
    OBVIOUS
  <2>2. jobs' = [jobs EXCEPT ![j] = r] /\ stored' = stored
    BY <1>0, <1>4, <2>1 DEF Link, LinkNext
  <2>3. r.todo = jobs[j].todo /\ r.pc = jobs[j].pc /\ r.since = jobs[j].since
    BY <1>0, <2>1 DEF JobRec
  <2>4. InOrder(r)
    BY <1>0, <2>3 DEF InOrder, ListedInOrder, OutdatedAreLast, WillAskAll
  <2>5. QED BY <1>4, <2>2, <2>4, TaskOrder
<1>5. QED
  BY <1>1, <1>2, <1>3, <1>4, Kinds, GitLabOrder, StartOrder, FetchPageOrder, StoreRowOrder DEF Ground

FirstInv == workers = 1 => LinkedToFirst

\* What a deployment closes has no earlier success after its merge.
LEMMA LinksToFirst ==
  ASSUME Ground, workers = 1, OrderInv, LinkedToFirst, NEW j \in Jobs, NEW c \in jobs[j].unlinked,
         NEW some \in SUBSET MergedIn(From(c, jobs[j].closing), c.at), LinkNext(j, c, some),
         UNCHANGED remote
  PROVE  LinkedToFirst'
<1>1. /\ jobs[j].pc = "link" /\ links' = links \cup ({c.item} \X some)
  BY DEF LinkNext
<1>2. jobs[j].closing = Shipped /\ c \in Shipped
  BY <1>1 DEF Ground, SerialInv, LinkingSound
<1>3. /\ c.item \in Deployments /\ stored[c.item].status = "success" /\ stored[c.item].at = c.at
      /\ \A d \in Production : d \in Deployments
      /\ \A d \in Deployments \cup MergeRequests : d \in Items
  BY <1>2, CollectionAssumption DEF Shipped, Items
<1>4. /\ \A p \in Items : remote[p].at \in Int /\ stored[p].at \in Int
      /\ \A p \in Items : stored[p].status \in Final => RowOf(p) = stored[p]
      /\ \A e \in Shipped : e.at \in Int
  BY Comparable, CollectionAssumption DEF Ground, LinksInv, StoredTruth, Shipped, Items
<1>5. remote[c.item].at = c.at
  <2>1. RowOf(c.item) = stored[c.item]
    BY <1>3, <1>4 DEF Final
  <2>2. QED BY <1>3, <2>1 DEF RowOf
<1>6. ASSUME NEW m \in some, NEW d \in Production, Succeeded(d), remote[m].at <= remote[d].at,
             remote[d].at < c.at
      PROVE  FALSE
  <2>1. /\ m \in Items /\ d \in Items /\ stored[m].status = "merged"
        /\ stored[m].at > From(c, Shipped)
    BY <1>2, <1>3 DEF MergedIn
  <2>2. remote[m].at = stored[m].at
    <3>1. RowOf(m) = stored[m]
      BY <1>4, <2>1 DEF Final
    <3>2. QED BY <3>1 DEF RowOf
  <2>3. Current(d)
    BY <1>3, <1>6 DEF OrderInv, StoredInOrder
  <2>4. stored[d].status = "success" /\ stored[d].at = remote[d].at
    BY <1>6, <2>3 DEF Current, RowOf, Succeeded
  <2>5. [item |-> d, at |-> remote[d].at] \in Shipped
    BY <2>4 DEF Shipped
  <2>6. PICK e \in Shipped : e.at = remote[d].at
    BY <2>5
  <2>7. PICK b \in Shipped : From(c, Shipped) = b.at /\ e.at <= b.at
    BY <1>6, <2>6, ShippedType, FromPredecessor DEF Ground
  <2>8. QED BY <1>4, <1>6, <2>1, <2>2, <2>6, <2>7
<1>7. SUFFICES ASSUME NEW l \in links', NEW d \in Production, Succeeded(d),
                      remote[l[2]].at <= remote[d].at
               PROVE  remote[l[1]].at <= remote[d].at
  BY DEF LinkedToFirst, Succeeded
<1>8. CASE l \in links
  BY <1>7, <1>8 DEF LinkedToFirst, Succeeded
<1>9. CASE l[1] = c.item /\ l[2] \in some
  <2>1. ~(remote[d].at < c.at)
    BY <1>6, <1>7, <1>9
  <2>2. remote[d].at \in Int /\ c.at \in Int
    BY <1>2, <1>3, <1>4
  <2>3. QED BY <1>5, <1>9, <2>1, <2>2
<1>10. QED BY <1>1, <1>7, <1>8, <1>9

LEMMA FirstNext == Ground /\ OrderInv /\ FirstInv /\ [Next]_vars => FirstInv'
<1> SUFFICES ASSUME Ground, OrderInv, FirstInv, [Next]_vars, workers = 1 PROVE LinkedToFirst'
  BY Kinds DEF Ground, FirstInv
<1>0. LinkedToFirst
  BY DEF FirstInv
<1>1. CASE UNCHANGED <<remote, links>>
  BY <1>0, <1>1 DEF LinkedToFirst
<1>2. CASE UNCHANGED links /\ GitLab
  <2>1. PICK o, new :
          /\ o \in Items
          /\ remote' = [remote EXCEPT ![o] = new] /\ remote[o].status \in {"none", "running"}
          /\ new.status = "success" => o \in Deployments /\ new.at = now
    BY <1>2, GitLabEffect DEF Ground
  <2>2. remote'[o] = new /\ \A p \in Items : p # o => remote'[p] = remote[p]
    BY <2>1 DEF Ground, TypeOK
  <2>3. SUFFICES ASSUME NEW l \in links, NEW d \in Production, remote'[d].status = "success",
                        remote'[l[2]].at <= remote'[d].at
                 PROVE  remote'[l[1]].at <= remote'[d].at
    BY <1>2 DEF LinkedToFirst
  <2>4. /\ l[1] \in Items /\ l[2] \in Items /\ d \in Items
        /\ remote[l[1]].status = "success" /\ remote[l[2]].status = "merged"
    BY CollectionAssumption DEF Ground, TypeOK, LinksInv, LinksReal, Items
  <2>5. remote'[l[1]] = remote[l[1]] /\ remote'[l[2]] = remote[l[2]]
    BY <2>1, <2>2, <2>4
  <2>6. CASE d = o
    BY <2>1, <2>2, <2>3, <2>4, <2>5, <2>6 DEF Ground, Timeline
  <2>7. CASE d # o
    BY <1>0, <2>2, <2>3, <2>4, <2>5, <2>7 DEF LinkedToFirst
  <2>8. QED BY <2>6, <2>7
<1>3. ASSUME NEW j \in Jobs, LinksSome(j), UNCHANGED remote PROVE LinkedToFirst'
  BY <1>0, <1>3, LinksToFirst DEF LinksSome
<1>4. ASSUME NEW j \in Jobs, NEW d \in jobs[j].unlinked, Link(j, d), UNCHANGED remote
      PROVE  LinkedToFirst'
  <2>1. PICK all : all = MergedIn(From(d, jobs[j].closing), d.at)
    OBVIOUS
  <2>2. LinkNext(j, d, all)
    BY <1>4, <2>1 DEF Link
  <2>3. QED BY <1>0, <1>4, <2>1, <2>2, LinksToFirst
<1>5. ASSUME NEW j \in Jobs, Start(j) \/ FetchPage(j) \/ Correlate(j) PROVE UNCHANGED links
  BY <1>5 DEF Start, FetchPage, Correlate, tables
<1>6. ASSUME NEW j \in Jobs, NEW l, NEW b, StoreRow(j, l, b) PROVE UNCHANGED links
  BY <1>6 DEF StoreRow
<1>7. QED BY <1>1, <1>2, <1>3, <1>4, <1>5, <1>6, Kinds DEF Ground

\* With one worker, and listings of one page, a merge request is linked to the first
\* production deployment that succeeded at or after its merge and to no later one,
\* whatever fails and is retried, and however late the rows are stored.
THEOREM LinksAreFirst ==
  ASSUME Cardinality(Items) <= PerPage
  PROVE  Spec => []SerialLinkedToFirst
<1>1. OnePage
  BY DEF OnePage
<1>2. CollectionInv /\ [Next]_vars => CollectionInv'
  BY <1>1, NextSound
<1>3. Init => Timeline
  <2> SUFFICES ASSUME Init PROVE Timeline
    OBVIOUS
  <2>1. \A o \in Items : remote[o].at = Never /\ remote[o].revision = 0 /\ remote[o].status = "none"
    BY DEF Init
  <2>2. now = 0 /\ revision = 0 /\ \A d \in Deployments : d \in Items
    BY DEF Init, Items
  <2>3. QED BY <2>1, <2>2 DEF Timeline, Succeeded, Never
<1>4. Spec => []Ground
  <2>1. Spec => []CollectionInv
    BY <1>2, InitSound, PTL DEF Spec
  <2>2. Spec => []Timeline
    BY <1>3, TimelineNext, TypeCorrect, PTL DEF Spec
  <2>3. Spec => []LinksInv
    BY InitLinks, NextLinks, PTL DEF Spec
  <2>4. QED BY <2>1, <2>2, <2>3, TypeCorrect, SerialHolds, PTL DEF Ground
<1>5. Spec => []OrderInv
  <2>1. Ground /\ OrderInv /\ [Next]_vars => OrderInv'
    BY <1>1, OrderNext
  <2>2. QED BY <1>4, <2>1, OrderInit, PTL DEF Spec
<1>6. Init => FirstInv
  BY DEF Init, FirstInv, LinkedToFirst
<1>7. FirstInv => SerialLinkedToFirst
  BY DEF FirstInv, SerialLinkedToFirst
<1>8. QED BY <1>4, <1>5, <1>6, <1>7, FirstNext, PTL DEF Spec
=============================================================================
