----------------------------- MODULE Collection -----------------------------
(***************************************************************************)
(* The mirror of one GitLab project: the collect:gitlab:deployments task   *)
(* (HandleCollectGitlab and correlateDeploymentsAndMRs in                  *)
(* internal/collector/handlers.go, the client in internal/collector/gitlab)*)
(* and the tables deployment, merge_request and deployment_mr_link.        *)
(*                                                                         *)
(* A run asks GitLab for what was updated since the last run, less an      *)
(* overlap, stores it row by row, links merge requests to the deployments  *)
(* that shipped them and, last of all, notes the time as last_synced_at.   *)
(* The scan, the reconciliation, webhooks and the CLI start runs of the    *)
(* same project that nothing serialises.                                   *)
(*                                                                         *)
(* Deployments are those of one default pattern's production environments  *)
(* or others, MergeRequests those of people into the default branch: the   *)
(* filters on bots and branches leave the rest out.  Timestamps that       *)
(* GitLab compares are distinct, as its own are to the millisecond:        *)
(* "revision" orders the changes within one unit of time.                  *)
(***************************************************************************)
EXTENDS Integers, FiniteSets

CONSTANTS
  Deployments, MergeRequests,
  Production,    \* the deployments to environments the pattern matches
  Jobs,          \* collect tasks that may be queued or running at a time
  Overlap,       \* 1 hour: how far before last_synced_at a run starts
  BackfillDays,  \* values of the payload's field: 0, and what reconciliation forces
  Month,         \* 30 days: the first backfill, and the reach of the first deployment
  Timeout,       \* asynq's default: 30 minutes for an attempt
  PerPage,       \* objects in a page of GitLab's answer
  MaxRetry,      \* asynq.MaxRetry of the task
  Concurrency,   \* values of asynq.Config.Concurrency, summed over the workers
  MaxTime,       \* bound: the clock stops
  MaxRuns,       \* bound: collect tasks ever enqueued
  MaxFaults      \* bound: crashes and failed calls in a behaviour

Items == Deployments \cup MergeRequests

\* Two attempts that time out one after the other fit in the overlap, and a
\* behaviour is shorter than the first backfill.
ASSUME CollectionAssumption ==
  /\ Production \subseteq Deployments /\ Deployments \cap MergeRequests = {}
  /\ IsFiniteSet(Items) /\ IsFiniteSet(Jobs)
  /\ Overlap \in Nat /\ Timeout \in Nat /\ 2 * Timeout <= Overlap
  /\ BackfillDays \subseteq Nat /\ 0 \in BackfillDays /\ PerPage \in Nat \ {0}
  /\ MaxRetry \in Nat /\ Concurrency \subseteq Nat /\ MaxFaults \in Nat
  /\ MaxTime \in Nat /\ MaxRuns \in Nat /\ Month \in Nat /\ MaxTime < Month

VARIABLES
  now,          \* time.Now()
  remote,       \* what GitLab has
  revision,     \* the number of the last change in GitLab
  stored,       \* platform.deployment and platform.merge_request
  firstCommit,  \* merge requests whose first_commit_at is not NULL
  links,        \* platform.deployment_mr_link
  lastSynced,   \* project.last_synced_at
  workers,      \* tasks that may run at a time, fixed when the workers start
  jobs,         \* the collect tasks and, while one runs, its handler's locals
  runs, faults  \* counters for the bounds

remoteVars == <<remote, revision>>
tables == <<stored, firstCommit, links, lastSynced>>
vars == <<now, remoteVars, tables, workers, jobs, runs, faults>>

-----------------------------------------------------------------------------
(* Rows and locals.  A definition marked "Wrong variant" belongs to no       *)
(* behaviour: put in the place of the one after it, it breaks a property.    *)

Never == -1   \* a timestamp that is NULL
Time == 0..MaxTime

\* "none" is an object that does not exist (a merge request not merged yet).
Status == {"none", "running", "success", "failed", "merged"}

\* "at" is finished_at of a deployment, merged_at of a merge request.
Row == {r \in [status : Status, at : Time \cup {Never}] :
          r.status \in {"none", "running"} <=> r.at = Never}
NoRow == [status |-> "none", at |-> Never]

RowOf(o) == [status |-> remote[o].status, at |-> remote[o].at]
Current(o) == stored[o] = RowOf(o)

\* An object as a page of GitLab's answer shows it.
Listed == [item : Items, row : Row, revision : Nat]

\* A production deployment as the correlation lists them.
Closing == [item : Deployments, at : Time]

\* Where a handler stands: about to list deployments, about to list merge requests,
\* about to correlate, linking.  What a listing found is stored before the next call.
Running == {"deployments", "mergeRequests", "correlate", "link"}

JobRec == [pc : {"idle", "queued"} \cup Running,
           backfill : BackfillDays, started : Time, since : Int, page : Nat,
           todo : SUBSET Listed, closing : SUBSET Closing, unlinked : SUBSET Closing,
           clean : BOOLEAN, retried : 0..MaxRetry]

Active == {j \in Jobs : jobs[j].pc \in Running}

NoJob == [pc |-> "idle", backfill |-> 0, started |-> 0, since |-> 0, page |-> 1, todo |-> {},
          closing |-> {}, unlinked |-> {}, clean |-> TRUE, retried |-> 0]

Init ==
  /\ now = 0 /\ revision = 0 /\ lastSynced = Never
  /\ remote = [o \in Items |-> [status |-> "none", at |-> Never, updated |-> 0, revision |-> 0]]
  /\ stored = [o \in Items |-> NoRow]
  /\ firstCommit = {} /\ links = {}
  /\ workers \in Concurrency
  /\ jobs = [j \in Jobs |-> NoJob]
  /\ runs = 0 /\ faults = 0

Fault == faults < MaxFaults /\ faults' = faults + 1

-----------------------------------------------------------------------------
(* GitLab, and the clock.                                                   *)

Tick ==
  /\ now < MaxTime /\ now' = now + 1
  /\ UNCHANGED <<remoteVars, tables, workers, runs, jobs, faults>>

Change(o, status, at) ==
  /\ revision' = revision + 1
  /\ remote' = [remote EXCEPT ![o] = [status |-> status, at |-> at, updated |-> now,
                                      revision |-> revision']]
  /\ UNCHANGED <<now, tables, workers, runs, jobs, faults>>

Deploy(d) == remote[d].status = "none" /\ Change(d, "running", Never)

Finish(d, status) ==
  /\ remote[d].status = "running"
  /\ \A e \in Deployments : remote[e].at # now
  /\ Change(d, status, now)

Merge(m) == remote[m].status = "none" /\ Change(m, "merged", now)

GitLab ==
  \/ \E d \in Deployments : Deploy(d) \/ Finish(d, "success") \/ Finish(d, "failed")
  \/ \E m \in MergeRequests : Merge(m)

-----------------------------------------------------------------------------
(* The task in its queue.                                                   *)

\* The scan and webhooks enqueue it with backfill 0, the reconciliation with
\* ReconcileBackfillDays.
Enqueue(j, backfill) ==
  /\ jobs[j].pc = "idle"
  /\ runs < MaxRuns /\ runs' = runs + 1
  /\ jobs' = [jobs EXCEPT ![j].pc = "queued", ![j].backfill = backfill]
  /\ UNCHANGED <<now, remoteVars, tables, workers, faults>>

\* Wrong variant: the retries never run out.
GiveBackAlways(j) ==
  jobs' = [jobs EXCEPT ![j] = [NoJob EXCEPT !.pc = "queued", !.retried = jobs[j].retried + 1]]

\* asynq retries a failed task, and sets it aside when the retries are used up.
GiveBack(j) ==
  jobs' = [jobs EXCEPT ![j] = IF jobs[j].retried = MaxRetry THEN NoJob
                              ELSE [NoJob EXCEPT !.pc = "queued",
                                                 !.backfill = jobs[j].backfill,
                                                 !.retried = jobs[j].retried + 1]]

\* A call of GitLab or of the database fails, or the worker dies: the attempt is
\* over, and what it stored stays.
Fail(j) ==
  /\ jobs[j].pc \in Running \cup {"queued"}
  /\ Fault /\ GiveBack(j)
  /\ UNCHANGED <<now, remoteVars, tables, workers, runs>>

InTime(j) == now <= jobs[j].started + Timeout

\* The context of the attempt has expired, and with it every call made with it.
Expire(j) ==
  /\ jobs[j].pc \in Running /\ ~InTime(j)
  /\ GiveBack(j)
  /\ UNCHANGED <<now, remoteVars, tables, workers, runs, faults>>

-----------------------------------------------------------------------------
(* HandleCollectGitlab.                                                     *)

EarlierOf(a, b) == IF b < a THEN b ELSE a

\* Wrong variant: a run takes up exactly where the last one ended.
SinceLastRun(synced, backfill) == IF synced = Never THEN now - Month ELSE synced

\* Where the listing starts: backfill of a new project, overlap of a known one,
\* and further back when the reconciliation says so.
Since(synced, backfill) ==
  LET incremental == IF synced = Never THEN now - Month ELSE synced - Overlap
  IN  IF backfill > 0 THEN EarlierOf(incremental, now - backfill) ELSE incremental

\* The project's row is read, and with it the last_synced_at the window follows.
Start(j) ==
  /\ jobs[j].pc = "queued" /\ Cardinality(Active) < workers
  /\ jobs' = [jobs EXCEPT ![j].pc = "deployments", ![j].started = now,
                          ![j].since = Since(lastSynced, jobs[j].backfill)]
  /\ UNCHANGED <<now, remoteVars, tables, workers, runs, faults>>

\* What a listing finds: everything of the kind updated since.
Found(kind, since) ==
  {o \in IF kind = "deployments" THEN Deployments ELSE MergeRequests :
     remote[o].status # "none" /\ remote[o].updated >= since}

\* Its place in the order the client asks for, oldest update first.
Position(o, found) == Cardinality({p \in found : remote[p].revision < remote[o].revision})

After(kind) == IF kind = "deployments" THEN "mergeRequests" ELSE "correlate"

\* One request for one page.  GitLab cuts the pages anew for each request.
FetchPage(j) ==
  LET job == jobs[j]
      found == Found(job.pc, job.since)
      batch == {o \in found : Position(o, found) \in (job.page - 1) * PerPage .. job.page * PerPage - 1}
      more == job.page * PerPage < Cardinality(found)
  IN  /\ job.pc \in {"deployments", "mergeRequests"} /\ (job.page = 1 => job.todo = {})
      /\ InTime(j)
      /\ jobs' = [jobs EXCEPT
           ![j].todo = @ \cup {[item |-> o, row |-> RowOf(o), revision |-> remote[o].revision] :
                                 o \in batch},
           ![j].page = IF more THEN @ + 1 ELSE 1,
           ![j].pc = IF more THEN @ ELSE After(@)]
      /\ UNCHANGED <<now, remoteVars, tables, workers, runs, faults>>

\* An upsert of the next object of the listing.  For a merge request GitLab is
\* asked for its commits first: when that fails, NULL is stored.
StoreRow(j, l, commitsListed) ==
  LET o == l.item
  IN  /\ jobs[j].pc \in Running /\ jobs[j].page = 1 /\ InTime(j)
      /\ l \in jobs[j].todo /\ \A k \in jobs[j].todo : l.revision <= k.revision
      /\ stored' = [stored EXCEPT ![o] = l.row]
      /\ firstCommit' = IF o \in Deployments THEN firstCommit
                        ELSE IF commitsListed THEN firstCommit \cup {o} ELSE firstCommit \ {o}
      /\ jobs' = [jobs EXCEPT ![j].todo = @ \ {l}, ![j].clean = @ /\ commitsListed]
      /\ UNCHANGED <<now, remoteVars, links, lastSynced, workers, runs>>

Store(j, l) == StoreRow(j, l, TRUE) /\ UNCHANGED faults

StoreUncommitted(j, l) == l.item \in MergeRequests /\ StoreRow(j, l, FALSE) /\ Fault

-----------------------------------------------------------------------------
(* correlateDeploymentsAndMRs.                                              *)

\* One query lists the successful production deployments; the loop follows it.
Correlate(j) ==
  LET listed == {[item |-> d, at |-> stored[d].at] :
                   d \in {d \in Production : stored[d].status = "success"}}
  IN  /\ jobs[j].pc = "correlate" /\ jobs[j].todo = {} /\ InTime(j)
      /\ jobs' = [jobs EXCEPT ![j].pc = "link", ![j].closing = listed, ![j].unlinked = listed]
      /\ UNCHANGED <<now, remoteVars, tables, workers, runs, faults>>

\* Wrong variant: every deployment closes thirty days.
FromMonth(d, closing) == d.at - Month

\* Where the interval starts that a deployment closes.
From(d, closing) ==
  LET before == {e \in closing : e.at < d.at}
  IN  IF before = {} THEN d.at - Month
      ELSE (CHOOSE e \in before : \A f \in before : f.at <= e.at).at

\* Wrong variant: the interval has no end.
MergedSince(from, until) ==
  {m \in MergeRequests : stored[m].status = "merged" /\ stored[m].at > from}

\* Wrong variant: what is merged as the deployment finishes is left out.
MergedBefore(from, until) ==
  {m \in MergeRequests : stored[m].status = "merged" /\ stored[m].at > from /\ stored[m].at < until}

\* The merge requests merged in (from, until].
MergedIn(from, until) ==
  {m \in MergeRequests : stored[m].status = "merged" /\ stored[m].at > from /\ stored[m].at <= until}

\* The next deployment's merge requests are read and linked; an error may come
\* after some of the links.
LinkNext(j, d, linked) ==
  /\ jobs[j].pc = "link" /\ InTime(j)
  /\ d \in jobs[j].unlinked /\ \A e \in jobs[j].unlinked : d.at <= e.at
  /\ links' = links \cup ({d.item} \X linked)
  /\ UNCHANGED <<now, remoteVars, stored, firstCommit, lastSynced, workers, runs>>

Link(j, d) ==
  /\ LinkNext(j, d, MergedIn(From(d, jobs[j].closing), d.at))
  /\ jobs' = [jobs EXCEPT ![j].unlinked = @ \ {d}]
  /\ UNCHANGED faults

LinkFails(j, d) ==
  /\ \E some \in SUBSET MergedIn(From(d, jobs[j].closing), d.at) : LinkNext(j, d, some)
  /\ Fault /\ GiveBack(j)

\* The last write is the time: not that of the listing, but of the write.
Sync(j) ==
  /\ jobs[j].pc = "link" /\ jobs[j].unlinked = {} /\ InTime(j)
  /\ lastSynced' = now
  /\ jobs' = [jobs EXCEPT ![j] = NoJob]
  /\ UNCHANGED <<now, remoteVars, stored, firstCommit, links, workers, runs, faults>>

-----------------------------------------------------------------------------
\* What the worker does for a task when nothing goes wrong.
Work(j) ==
  \/ Start(j) \/ FetchPage(j) \/ Correlate(j) \/ Sync(j)
  \/ \E l \in jobs[j].todo : Store(j, l)
  \/ \E d \in jobs[j].unlinked : Link(j, d)
  \/ Expire(j)

Faulty(j) ==
  \/ Fail(j)
  \/ \E l \in jobs[j].todo : StoreUncommitted(j, l)
  \/ \E d \in jobs[j].unlinked : LinkFails(j, d)

Next ==
  \/ Tick \/ GitLab
  \/ \E j \in Jobs : Work(j) \/ Faulty(j) \/ (\E b \in BackfillDays : Enqueue(j, b))

Spec == Init /\ [][Next]_vars

-----------------------------------------------------------------------------
(* Properties.                                                              *)

TypeOK ==
  /\ now \in Time /\ revision \in Nat
  /\ remote \in [Items -> [status : Status, at : Time \cup {Never}, updated : Time, revision : Nat]]
  /\ stored \in [Items -> Row] /\ \A o \in Items : RowOf(o) \in Row
  /\ firstCommit \subseteq MergeRequests /\ links \subseteq Deployments \X MergeRequests
  /\ lastSynced \in Time \cup {Never}
  /\ workers \in Concurrency /\ jobs \in [Jobs -> JobRec] /\ runs \in 0..MaxRuns /\ faults \in 0..MaxFaults

\* No update is lost between two runs: what the mirror does not show as GitLab
\* does is recent enough for the next run to ask for it.  A run notes the time
\* of its end, not of its listing, and a slow run may store an older answer over
\* a newer one: the overlap has to make up for both.
NothingLost ==
  lastSynced # Never =>
    \A o \in Items : Current(o) \/ remote[o].updated >= lastSynced - Overlap

\* A link joins a merge request that is merged to a deployment that succeeded after
\* the merge, however old the rows were it was made from.
LinksReal ==
  \A l \in links :
    /\ remote[l[1]].status = "success" /\ remote[l[2]].status = "merged"
    /\ remote[l[2]].at <= remote[l[1]].at

\* handlers.go:809-810: a merge request goes to the first successful production
\* deployment that finished at or after the merge.
LinkedToFirst ==
  \A l \in links : \A d \in Production :
    remote[d].status = "success" /\ remote[l[2]].at <= remote[d].at => remote[l[1]].at <= remote[d].at

\* It does when runs do not overlap, whatever fails and is retried.
SerialLinkedToFirst == workers = 1 => LinkedToFirst

\* A run that has linked everything left no merge request in the tables without
\* the deployment that shipped it.
SerialLinksComplete ==
  workers = 1 =>
    \A j \in Jobs : jobs[j].pc = "link" /\ jobs[j].unlinked = {} =>
      \A m \in MergeRequests, d \in Production :
        stored[m].status = "merged" /\ stored[d].status = "success" /\ stored[m].at <= stored[d].at
          => \E l \in links : l[2] = m
=============================================================================
