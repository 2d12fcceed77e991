------------------------------- MODULE People --------------------------------
(***************************************************************************)
(* Who an event belongs to (internal/api/people.go, internal/identities,   *)
(* the people commands of cmd/cli).  Merge requests and deployments carry  *)
(* a GitLab username; the backfill makes an identity of each, somebody     *)
(* links identities to people, and the link is copied to the rows of the   *)
(* events by two UPDATEs, one per table, over all tenants.                 *)
(*                                                                         *)
(* Requests of the API and commands of the CLI run at the same time, each  *)
(* query a step, while the collection goes on storing events, with no      *)
(* person, and renaming the authors of those it stored.  The two UPDATEs   *)
(* take two steps each: they join the links as they are when the statement *)
(* starts, and their rows are seen when it commits.  PostgreSQL runs them  *)
(* READ COMMITTED: a row that another statement has written in between is  *)
(* waited for and read again, the join is not.                             *)
(***************************************************************************)
EXTENDS Integers, FiniteSets

CONSTANTS
  Tenants,
  Names,        \* usernames, as they are written
  Lower,        \* the name in lower case
  Bots,         \* names the collection takes for bots
  Persons,
  Events,       \* merge requests and deployments
  Kind,         \* of each event, "mr" or "deployment"
  Linkers,      \* requests and commands that link or propagate
  MaxLoaded, MaxRenames, MaxFaults   \* bounds

ASSUME PeopleAssumption ==
  /\ Lower \in [Names -> Names] /\ \A n \in Names : Lower[Lower[n]] = Lower[n]
  /\ Bots \subseteq Names
  /\ Kind \in [Events -> {"mr", "deployment"}]
  /\ MaxLoaded \in Nat /\ MaxRenames \in Nat /\ MaxFaults \in Nat

Kinds  == {"gitlab", "jira"}
Tables == {"mr", "deployment"}

\* The unique key of person_identity; its names are in lower case, as the backfill
\* writes them.
Keys == Tenants \X Kinds \X {Lower[n] : n \in Names}

VARIABLES
  tenantOf,   \* per person, its tenant; "" when there is no such person
  identity,   \* per key, the row of person_identity, or NoRow
  event,      \* per event, its row, or NoEvent
  linker,     \* where each request or command is
  excused,    \* history: events whose rows may lag behind the links
  linkedEver, \* history: links there have been
  renames, faults

vars == <<tenantOf, identity, event, linker, excused, linkedEver, renames, faults>>

-----------------------------------------------------------------------------
Nobody  == "nobody"
NoRow   == [none |-> ""]
NoEvent == [name |-> ""]
Idle    == [pc |-> "idle"]

Rows     == {k \in Keys : identity[k] # NoRow}
Stored   == {e \in Events : event[e] # NoEvent}
People   == {p \in Persons : tenantOf[p] # ""}

\* The key under which an event's name is looked up.
KeyOf(e) == <<event[e].tenant, "gitlab", Lower[event[e].name]>>

EventsOf(k) == {e \in Stored : KeyOf(e) = k}

\* The rows a running UPDATE is to write.
Writes(l) == {e \in Events : linker[l].found[e] # Nobody}

\* History: the names or links of some events change while UPDATEs run that are to
\* write them from the old ones.
Overtake(some) == [l \in Linkers |->
  IF linker[l].pc \in Tables
  THEN [linker[l] EXCEPT !.changed = @ \cup (Writes(l) \cap some)]
  ELSE linker[l]]

Fault == faults < MaxFaults /\ faults' = faults + 1

\* No code makes identities of Jira: an installation may start with a few identities
\* loaded into the table.
Init ==
  /\ tenantOf = [p \in Persons |-> ""]
  /\ \E loaded \in SUBSET Keys :
       /\ Cardinality(loaded) <= MaxLoaded
       /\ identity = [k \in Keys |-> IF k \in loaded THEN [person |-> Nobody] ELSE NoRow]
  /\ event = [e \in Events |-> NoEvent]
  /\ linker = [l \in Linkers |-> Idle]
  /\ excused = {}
  /\ linkedEver = {}
  /\ renames = 0
  /\ faults = 0

-----------------------------------------------------------------------------
(* The collection.                                                          *)

\* A deployment or a merge request is stored for the first time.
StoreEvent(e, t, n) ==
  /\ event[e] = NoEvent
  /\ event' = [event EXCEPT ![e] = [tenant |-> t, name |-> n, names |-> {n}, person |-> Nobody]]
  /\ excused' = excused \cup {e}
  /\ UNCHANGED <<tenantOf, identity, linker, linkedEver, renames, faults>>

\* UpsertMergeRequest takes over the author's present name and leaves the person
\* alone; UpsertDeployment leaves triggered_by alone too.
UpsertMergeRequest(e, n) ==
  /\ Kind[e] = "mr" /\ event[e] # NoEvent /\ event[e].name # n
  /\ renames < MaxRenames /\ renames' = renames + 1
  /\ event' = [event EXCEPT ![e].name = n, ![e].names = @ \cup {n}]
  /\ excused' = excused \cup {e}
  /\ linker' = Overtake({e})
  /\ UNCHANGED <<tenantOf, identity, linkedEver, faults>>

-----------------------------------------------------------------------------
(* Identities.                                                              *)

\* The names of merge requests not by bots, and of deployments, in lower case.
ListGitlabUsernamesFromEvents(t) ==
  {Lower[event[e].name] : e \in {f \in Stored :
     event[f].tenant = t /\ (Kind[f] = "mr" => event[f].name \notin Bots)}}

\* On conflict the person is kept.
UpsertPersonIdentity(k) ==
  identity' = [identity EXCEPT ![k] = IF @ = NoRow THEN [person |-> Nobody] ELSE @]

\* people backfill: one name at a time.
Backfill(t, n) ==
  /\ n \in ListGitlabUsernamesFromEvents(t) /\ identity[<<t, "gitlab", n>>] = NoRow
  /\ UpsertPersonIdentity(<<t, "gitlab", n>>)
  /\ UNCHANGED <<tenantOf, event, linker, excused, linkedEver, renames, faults>>

\* The UPDATE by id; a link there was is overwritten.
LinkIdentityToPerson(k, p) ==
  /\ identity' = [identity EXCEPT ![k].person = p]
  /\ linkedEver' = linkedEver \cup {<<k, p>>}

-----------------------------------------------------------------------------
(* Creating people.                                                         *)

\* POST /people and people create.
CreatePerson(l, p, t, some) ==
  /\ linker[l] = Idle /\ tenantOf[p] = ""
  /\ tenantOf' = [tenantOf EXCEPT ![p] = t]
  /\ linker' = [linker EXCEPT ![l] =
       IF some = {} THEN Idle ELSE [pc |-> "creating", person |-> p, todo |-> some]]
  /\ UNCHANGED <<identity, event, excused, linkedEver, renames, faults>>

\* The identities given are linked one by one, failures skipped; nothing is
\* propagated.
LinkOnCreate(l, k) ==
  /\ linker[l].pc = "creating" /\ k \in linker[l].todo
  /\ LET rest == IF linker[l].todo = {k} THEN Idle ELSE [linker[l] EXCEPT !.todo = @ \ {k}] IN
     \/ /\ LinkIdentityToPerson(k, linker[l].person)
        /\ excused' = excused \cup EventsOf(k)
        /\ linker' = [Overtake(EventsOf(k)) EXCEPT ![l] = rest]
        /\ UNCHANGED faults
     \/ /\ Fault
        /\ linker' = [linker EXCEPT ![l] = rest]
        /\ UNCHANGED <<identity, linkedEver, excused>>
  /\ UNCHANGED <<tenantOf, event, renames>>

-----------------------------------------------------------------------------
(* Linking and propagating.                                                 *)

\* POST /identities/{id}/link and people link: any identity, any person.
LinkIdentity(l, k, p) ==
  /\ linker[l] = Idle /\ identity[k] # NoRow /\ p \in People
  /\ LinkIdentityToPerson(k, p)
  /\ linker' = [Overtake(EventsOf(k)) EXCEPT ![l] = [pc |-> "linked"]]
  /\ UNCHANGED <<tenantOf, event, excused, renames, faults>>

\* people propagate.
PeoplePropagate(l) ==
  /\ linker[l] = Idle
  /\ linker' = [linker EXCEPT ![l] = [pc |-> "linked"]]
  /\ UNCHANGED <<tenantOf, identity, event, excused, linkedEver, renames, faults>>

\* A definition marked "Wrong variant" belongs to no behaviour: put in the place
\* of the one after it, it breaks a property.

\* Wrong variant: the tenant is left out of the join.
MatchOfAnyTenant(e) ==
  {k \in Rows : k[2] = "gitlab" /\ identity[k].person # Nobody
                /\ k[3] = Lower[event[e].name]}

\* The linked identities an event's row joins.
Match(e) ==
  {k \in Rows : k[1] = event[e].tenant /\ k[2] = "gitlab" /\ identity[k].person # Nobody
                /\ k[3] = Lower[event[e].name]}

\* Wrong variant: only rows with no person yet are written.
FoundNew(table) == [e \in Events |->
  IF e \in Stored /\ Kind[e] = table /\ event[e].person = Nobody /\ Match(e) # {}
  THEN identity[CHOOSE k \in Match(e) : TRUE].person
  ELSE Nobody]

\* What the join finds: the person of every row that has another one or none.
Found(table) == [e \in Events |->
  IF /\ e \in Stored /\ Kind[e] = table
     /\ \E k \in Match(e) : identity[k].person # event[e].person
  THEN identity[CHOOSE k \in Match(e) : TRUE].person
  ELSE Nobody]

\* The UPDATE of each table, first merge requests: it starts.
StartUpdate(l) ==
  /\ linker[l].pc \in {"linked", "half"}
  /\ LET table == IF linker[l].pc = "linked" THEN "mr" ELSE "deployment" IN
     linker' = [linker EXCEPT ![l] = [pc |-> table, found |-> Found(table), changed |-> {}]]
  /\ UNCHANGED <<tenantOf, identity, event, excused, linkedEver, renames, faults>>

AfterUpdate(l) == IF linker[l].pc = "mr" THEN [pc |-> "half"] ELSE Idle

\* It commits: the rows found get the person found, whatever has become of them and
\* of the links since.
CommitUpdate(l) ==
  /\ linker[l].pc \in Tables
  /\ event' = [e \in Events |->
       IF e \in Writes(l) THEN [event[e] EXCEPT !.person = linker[l].found[e]] ELSE event[e]]
  /\ excused' = (excused \ Writes(l)) \cup linker[l].changed
  /\ linker' = [linker EXCEPT ![l] = AfterUpdate(l)]
  /\ UNCHANGED <<tenantOf, identity, linkedEver, renames, faults>>

\* It fails, with nothing written.  A link passes over it.
FailUpdate(l) ==
  /\ linker[l].pc \in Tables /\ Fault
  /\ excused' = excused \cup Writes(l)
  /\ linker' = [linker EXCEPT ![l] = AfterUpdate(l)]
  /\ UNCHANGED <<tenantOf, identity, event, linkedEver, renames>>

\* A row that l is still to write with the present link.
OnTheWay(l, e) ==
  \/ linker[l].pc = "linked"
  \/ linker[l].pc \in {"mr", "half"} /\ Kind[e] = "deployment"
  \/ linker[l].pc = Kind[e] /\ e \in Writes(l) \ linker[l].changed

\* The propagate command ends at the first failure; a request or a command may be
\* cut off at any of its queries.
LinkerDies(l) ==
  /\ linker[l] # Idle /\ Fault
  /\ linker' = [linker EXCEPT ![l] = Idle]
  /\ excused' = excused \cup {e \in Stored : OnTheWay(l, e)}
  /\ UNCHANGED <<tenantOf, identity, event, linkedEver, renames>>

-----------------------------------------------------------------------------
Next ==
  \/ \E e \in Events, t \in Tenants, n \in Names : StoreEvent(e, t, n)
  \/ \E e \in Events, n \in Names : UpsertMergeRequest(e, n)
  \/ \E t \in Tenants, n \in Names : Backfill(t, n)
  \/ \E l \in Linkers, p \in Persons, t \in Tenants, some \in SUBSET Rows :
       CreatePerson(l, p, t, some)
  \/ \E l \in Linkers, k \in Keys : LinkOnCreate(l, k)
  \/ \E l \in Linkers, k \in Keys, p \in Persons : LinkIdentity(l, k, p)
  \/ \E l \in Linkers : 
       PeoplePropagate(l) \/ StartUpdate(l) \/ CommitUpdate(l) \/ FailUpdate(l) \/ LinkerDies(l)

Spec == Init /\ [][Next]_vars

-----------------------------------------------------------------------------
(* Properties.                                                              *)

Identities == [person : Persons \cup {Nobody}]
EventRows  == [tenant : Tenants, name : Names, names : SUBSET Names, person : Persons \cup {Nobody}]
Updates    == [pc : Tables, found : [Events -> Persons \cup {Nobody}], changed : SUBSET Events]

\* The type of the state: a caller that creates a person links rows there are, and an
\* UPDATE writes rows there are.
TypeOK ==
  /\ tenantOf \in [Persons -> Tenants \cup {""}]
  /\ identity \in [Keys -> {NoRow} \cup Identities]
  /\ event \in [Events -> {NoEvent} \cup EventRows]
  /\ linker \in [Linkers -> [pc : {"idle", "linked", "half"}]
       \cup [pc : {"creating"}, person : Persons, todo : SUBSET Keys] \cup Updates]
  /\ \A l \in Linkers :
       /\ linker[l].pc = "creating" => linker[l].todo \subseteq Rows
       /\ linker[l].pc \in Tables => Writes(l) \subseteq Stored
  /\ excused \subseteq Events
  /\ linkedEver \subseteq Keys \X Persons
  /\ renames \in 0..MaxRenames /\ faults \in 0..MaxFaults

\* A row is behind if the identity of its name, in its tenant, is linked to another
\* person than the row's.
Behind(e) ==
  /\ e \in Stored /\ KeyOf(e) \in Rows
  /\ identity[KeyOf(e)].person \notin {Nobody, event[e].person}

\* However links, relinks and propagations overlap, a row follows the present link
\* unless a propagation is still to write it; or, since the last one that wrote it from
\* links nobody had changed, it was stored, renamed or linked with a new person,
\* one failed to write it, or one wrote it that had started before a link or a name it
\* read was changed.
RowsFollowLinks ==
  \A e \in Events : Behind(e) => e \in excused \/ \E l \in Linkers : OnTheWay(l, e)

\* The person of an event was once linked to an identity of the event's own tenant
\* with a name the event has had.
AttributedByLink ==
  \A e \in Stored : event[e].person # Nobody =>
    \E n \in event[e].names : <<<<event[e].tenant, "gitlab", Lower[n]>>, event[e].person>> \in linkedEver
=============================================================================
