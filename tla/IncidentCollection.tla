------------------------- MODULE IncidentCollection -------------------------
(***************************************************************************)
(* Collection of incidents: the collect:jira:incidents task                *)
(* (HandleCollectJira), its two sources in internal/collector/jira, and    *)
(* the tables incident and deployment_incident_link of one project.        *)
(*                                                                         *)
(* A run lists the project's incidents, through Atlassian's MCP server     *)
(* when there is a token and page by page through REST otherwise, then     *)
(* stores each one and links it to the latest deployment known.  Nothing   *)
(* keeps two runs of a project apart, Jira goes on changing while a run    *)
(* lists, and deployments become known when GitLab is collected, in any    *)
(* order.  A project that is gone, has no Jira key or has no Jira source   *)
(* ends the run at once, which changes nothing.                            *)
(***************************************************************************)
EXTENDS Integers, FiniteSets, FiniteSetsExt, Functions

CONSTANTS
  Issues, Deployments, Runs,
  Lookback,    \* IncidentLinkLookback, 24 hours
  Window,      \* windowDays, 30 days unless the payload asks for more
  PageSize,    \* 100
  MaxTime, MaxChanges, MaxFaults   \* bounds

ASSUME IncidentAssumption ==
  /\ {Lookback, Window, MaxTime, MaxChanges, MaxFaults} \subseteq Nat
  /\ PageSize \in Nat \ {0}
  /\ IsFiniteSet(Issues)

VARIABLES
  now,
  jira,       \* Jira: per issue, when it was created and how often it changed
  deploy,     \* per successful production deployment, when it finished, and
              \* whether it is stored; other deployments are never chosen
  incident,   \* per issue, the version of it in its row; -1: no row
  link,       \* deployment_incident_link: the deployments linked to an issue
  run,        \* where each run is and what it holds
  late,       \* history: issues whose latest deployment came after an earlier link
  overlapped, \* history: of the runs now running, two ran at a time
  faults

world == <<now, jira, deploy>>
rows  == <<incident, link>>
hist  == <<late, overlapped>>
vars  == <<now, jira, deploy, incident, link, run, late, overlapped, faults>>

-----------------------------------------------------------------------------
NotYet == -1

\* An issue is open, and resolved or reopened by every change.
Resolved(version) == version % 2 = 1

Idle == [pc |-> "idle"]

Fault == faults < MaxFaults /\ faults' = faults + 1

Init ==
  /\ now = 0
  /\ jira = [i \in Issues |-> [created |-> NotYet, version |-> 0]]
  /\ deploy = [d \in Deployments |-> [finished |-> NotYet, stored |-> FALSE]]
  /\ incident = [i \in Issues |-> NotYet]
  /\ link = [i \in Issues |-> {}]
  /\ run = [r \in Runs |-> Idle]
  /\ late = {}
  /\ overlapped = FALSE
  /\ faults = 0

-----------------------------------------------------------------------------
(* The world around.                                                        *)

Tick ==
  /\ now < MaxTime
  /\ now' = now + 1
  /\ UNCHANGED <<jira, deploy, rows, run, hist, faults>>

Report(i) ==
  /\ jira[i].created = NotYet
  /\ jira' = [jira EXCEPT ![i].created = now]
  /\ UNCHANGED <<now, deploy, rows, run, hist, faults>>

ResolveOrReopen(i) ==
  /\ jira[i].created # NotYet /\ jira[i].version < MaxChanges
  /\ jira' = [jira EXCEPT ![i].version = @ + 1]
  /\ UNCHANGED <<now, deploy, rows, run, hist, faults>>

Deploy(d) ==
  /\ deploy[d].finished = NotYet
  /\ deploy' = [deploy EXCEPT ![d].finished = now]
  /\ UNCHANGED <<now, jira, rows, run, hist, faults>>

\* The WHERE clause of FindDeploymentForIncident.
\* A definition marked "Wrong variant" belongs to no behaviour: put in the place
\* of the one after it, it breaks a property.

\* Wrong variant: a deployment after the incident is not left out.
InWindowOpen(d, created) == deploy[d].finished >= created - Lookback

InWindow(d, created) == deploy[d].finished \in created - Lookback .. created

Candidates(created) == {d \in Deployments : deploy[d].stored /\ InWindow(d, created)}

\* Wrong variant: any of them.
ChosenAny(D) == D

\* ORDER BY finished_at DESC LIMIT 1.
Chosen(D) == {d \in D : \A e \in D : deploy[e].finished <= deploy[d].finished}

\* Issues that have a link, or are about to get one.
Blaming == {i \in Issues : link[i] # {} \/ \E r \in Runs : run[r].pc = "link" /\ run[r].issue = i}

\* GitLab is collected and the deployment stored.
Learn(d) ==
  /\ deploy[d].finished # NotYet /\ ~deploy[d].stored
  /\ deploy' = [deploy EXCEPT ![d].stored = TRUE]
  /\ late' = late \cup {i \in Blaming :
       /\ InWindow(d, jira[i].created)
       /\ \A e \in Candidates(jira[i].created) : deploy[e].finished <= deploy[d].finished}
  /\ UNCHANGED <<now, jira, rows, run, overlapped, faults>>

-----------------------------------------------------------------------------
(* Listing.                                                                 *)

\* The JQL: created in the window.
Matching(since) == {i \in Issues : jira[i].created # NotYet /\ jira[i].created >= since}

Running == {r \in Runs : run[r] # Idle}

\* The source is MCP if the tenant's connection or the environment yields a
\* token, and REST otherwise.
\* While it runs it remembers what a complete run owes: the versions and the
\* deployments of its beginning.
Start(r, source) ==
  /\ run[r] = Idle
  /\ run' = [run EXCEPT ![r] =
       [pc     |-> source,
        since  |-> now - Window,
        listed |-> [i \in {} |-> 0],
        owes   |-> [i \in Matching(now - Window) |-> jira[i].version],
        known  |-> {d \in Deployments : deploy[d].stored}]]
  /\ overlapped' = (overlapped \/ Running # {})
  /\ UNCHANGED <<world, rows, late, faults>>

\* MCPSource.useFallback: the handshake or the call failed, or its answer could
\* not be read.
UseFallback(r) ==
  /\ run[r].pc = "mcp" /\ Fault
  /\ run' = [run EXCEPT ![r].pc = "rest"]
  /\ UNCHANGED <<world, rows, hist>>

\* The tool answers with one page, however many issues there are, and those
\* that decodeIssue cannot read are passed over.
ToolAnswers(since) == SUBSET Matching(since)

SearchByMCP(r) ==
  /\ run[r].pc = "mcp"
  /\ LET q == run[r] IN
     \E I \in ToolAnswers(q.since) :
       run' = [run EXCEPT ![r] =
         [q EXCEPT !.pc = "store",
                   !.owes = Restrict(q.owes, DOMAIN q.owes \cap I),
                   !.listed = [i \in I |-> jira[i].version]]]
  /\ UNCHANGED <<world, rows, hist, faults>>

\* The next issues of a listing by creation date, and what the page shows of
\* them.
NextPages(r) ==
  LET rest == Matching(run[r].since) \ DOMAIN run[r].listed IN
  {P \in SUBSET rest : /\ Cardinality(P) = Min({PageSize, Cardinality(rest)})
                       /\ \A i \in P, j \in rest \ P : jira[i].created <= jira[j].created}

\* Wrong variant: nextPageToken is not sent.
HasNextPageNever(r, P) == FALSE

\* A nextPageToken came with a page that was not the last.
HasNextPage(r, P) == P # {} /\ Matching(run[r].since) \ (DOMAIN run[r].listed \cup P) # {}

\* One request of RESTSource.SearchIssues.
SearchPage(r) ==
  /\ run[r].pc = "rest"
  /\ LET q == run[r] IN
     \E P \in NextPages(r) :
       run' = [run EXCEPT ![r] =
         [q EXCEPT !.pc = IF HasNextPage(r, P) THEN "rest" ELSE "store",
                   !.listed = [i \in DOMAIN q.listed \cup P |->
                                 IF i \in P THEN jira[i].version ELSE q.listed[i]]]]
  /\ UNCHANGED <<world, rows, hist, faults>>

-----------------------------------------------------------------------------
(* Storing.                                                                 *)

\* Issues are stored by creation date.
NextIssues(r) == {i \in DOMAIN run[r].listed :
                    \A j \in DOMAIN run[r].listed : jira[i].created <= jira[j].created}

\* The INSERT ... ON CONFLICT DO UPDATE.
UpsertIncident(i, version) == incident' = [incident EXCEPT ![i] = version]

Store(r) ==
  /\ run[r].pc = "store"
  /\ \E i \in NextIssues(r) :
       /\ UpsertIncident(i, run[r].listed[i])
       /\ run' = [run EXCEPT ![r] = [pc |-> "find", issue |-> i, owes |-> @.owes, known |-> @.known,
                                    listed |-> Restrict(@.listed, DOMAIN @.listed \ {i})]]
  /\ UNCHANGED <<world, link, hist, faults>>

\* The deployment to blame is looked up; without one the run goes on.
FindDeployment(r) ==
  /\ run[r].pc = "find"
  /\ LET D == Chosen(Candidates(jira[run[r].issue].created)) IN
     \/ D = {} /\ run' = [run EXCEPT ![r].pc = "store"]
     \/ \E d \in D : run' = [run EXCEPT ![r] =
          [pc |-> "link", issue |-> @.issue, found |-> d, owes |-> @.owes, known |-> @.known,
           listed |-> @.listed]]
  /\ UNCHANGED <<world, rows, hist, faults>>

\* UpsertDeploymentIncidentLink: ON CONFLICT DO NOTHING, and no link is ever
\* taken back.
Link(r) ==
  /\ run[r].pc = "link"
  /\ link' = [link EXCEPT ![run[r].issue] = @ \cup {run[r].found}]
  /\ run' = [run EXCEPT ![r].pc = "store"]
  /\ UNCHANGED <<world, incident, hist, faults>>

\* Every issue listed is stored: the handler returns nil.
Complete(r) ==
  /\ run[r].pc = "store" /\ DOMAIN run[r].listed = {}
  /\ run' = [run EXCEPT ![r] = Idle]
  /\ overlapped' = (overlapped /\ Running # {r})
  /\ UNCHANGED <<world, rows, late, faults>>

\* A token cannot be resolved, a request or a statement fails, REST sends an
\* issue that cannot be read, or the worker dies: what is stored stays, and a
\* retry starts over.
Fail(r) ==
  /\ run[r] # Idle /\ Fault
  /\ run' = [run EXCEPT ![r] = Idle]
  /\ overlapped' = (overlapped /\ Running # {r})
  /\ UNCHANGED <<world, rows, late>>

-----------------------------------------------------------------------------
Collect(r) ==
  \/ \E source \in {"mcp", "rest"} : Start(r, source)
  \/ SearchByMCP(r) \/ UseFallback(r) \/ SearchPage(r)
  \/ Store(r) \/ FindDeployment(r) \/ Link(r) \/ Complete(r) \/ Fail(r)

Next ==
  \/ Tick
  \/ \E i \in Issues : Report(i) \/ ResolveOrReopen(i)
  \/ \E d \in Deployments : Deploy(d) \/ Learn(d)
  \/ \E r \in Runs : Collect(r)

Spec == Init /\ [][Next]_vars

-----------------------------------------------------------------------------
(* Properties.                                                              *)

Listings == UNION {[I -> 0..MaxChanges] : I \in SUBSET Issues}

\* A run that searches, or has; one that looks a deployment up; one that links it.
Search  == [pc : {"mcp", "rest", "store"}, since : Int, listed : Listings, owes : Listings,
            known : SUBSET Deployments]
Lookup  == [pc : {"find", "store"}, issue : Issues, owes : Listings, known : SUBSET Deployments,
            listed : Listings]
Linking == [pc : {"link", "store"}, issue : Issues, found : Deployments, owes : Listings,
            known : SUBSET Deployments, listed : Listings]

TypeOK ==
  /\ now \in 0..MaxTime
  /\ jira \in [Issues -> [created : NotYet..MaxTime, version : 0..MaxChanges]]
  /\ deploy \in [Deployments -> [finished : NotYet..MaxTime, stored : BOOLEAN]]
  /\ incident \in [Issues -> NotYet..MaxChanges]
  /\ link \in [Issues -> SUBSET Deployments]
  /\ run \in [Runs -> {Idle} \cup Search \cup Lookup \cup Linking]
  /\ late \subseteq Issues
  /\ overlapped \in BOOLEAN
  /\ faults \in 0..MaxFaults

RowsAsNew(r) == \A i \in DOMAIN run[r].owes : incident[i] >= run[r].owes[i]

\* Unless another run overlapped it, a run that completes leaves every issue
\* of the window in a row at least as new as the issue was when the run began:
\* pages, the way through MCP and back, failures and retries lose nothing.
\* Through MCP this holds of the issues its one page showed.
Mirrored == [][\A r \in Runs : Complete(r) /\ ~overlapped => RowsAsNew(r)]_vars

\* A run that completes leaves every incident of the window linked to the latest
\* deployment before it that was known when the run began, or to a later one,
\* whatever other runs did.
LatestLinked ==
  [][\A r \in Runs : Complete(r) =>
       \A i \in DOMAIN run[r].owes : \A c \in run[r].known \cap Candidates(jira[i].created) :
         \E d \in link[i] : deploy[d].finished >= deploy[c].finished]_vars

\* Links blame successful production deployments of the 24 hours before the
\* incident, and one only, unless one that finished later was stored after an
\* earlier one had been found.
OneBlamed ==
  \A i \in Issues :
    /\ \A d \in link[i] : deploy[d].finished \in jira[i].created - Lookback .. jira[i].created
    /\ i \notin late => \A d, e \in link[i] : deploy[d].finished = deploy[e].finished
=============================================================================
