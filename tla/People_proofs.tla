---------------------------- MODULE People_proofs ----------------------------
(***************************************************************************)
(* Proofs about People, for every set of tenants, names, people, events    *)
(* and callers, and any number of failures and renames.                    *)
(***************************************************************************)
EXTENDS People, TLAPS

-----------------------------------------------------------------------------
(* Names and their identities.                                              *)

\* What a key is made of.
LEMMA KeyParts ==
  ASSUME NEW k \in Keys
  PROVE  /\ k[1] \in Tenants /\ k[2] \in Kinds /\ k[3] \in {Lower[n] : n \in Names}
         /\ k = <<k[1], k[2], k[3]>>
BY DEF Keys

\* The name of a stored event has a key, in its tenant.
LEMMA KeyOfStored ==
  ASSUME TypeOK, NEW e \in Stored
  PROVE  KeyOf(e) \in Keys
<1>1. event[e].tenant \in Tenants /\ event[e].name \in Names
  BY DEF TypeOK, Stored, EventRows
<1>2. QED BY <1>1 DEF KeyOf, Keys, Kinds

\* At most one linked identity joins an event: the one of its key.
LEMMA MatchIsKey ==
  ASSUME NEW e \in Events, NEW k \in Match(e)
  PROVE  k = KeyOf(e)
<1>1. k \in Keys
  BY DEF Match, Rows
<1>2. QED BY <1>1, KeyParts DEF Match, KeyOf

\* Whose identity is linked, is joined.
LEMMA LinkedIsMatched ==
  ASSUME TypeOK, NEW e \in Stored, KeyOf(e) \in Rows, identity[KeyOf(e)].person # Nobody
  PROVE  KeyOf(e) \in Match(e)
BY DEF KeyOf, Match

\* What an UPDATE finds: the person of the link under the name of a stored row; and
\* every row of its table that is behind is found.
LEMMA FoundIsLink ==
  ASSUME TypeOK, NEW table \in Tables, NEW e \in Events
  PROVE  /\ Found(table)[e] \in Persons \cup {Nobody}
         /\ Found(table)[e] # Nobody =>
              /\ e \in Stored /\ KeyOf(e) \in Rows
              /\ Found(table)[e] = identity[KeyOf(e)].person
         /\ Behind(e) /\ Kind[e] = table => Found(table)[e] # Nobody
<1> DEFINE finds == e \in Stored /\ Kind[e] = table
                      /\ \E k \in Match(e) : identity[k].person # event[e].person
<1>1. Found(table)[e] = IF finds THEN identity[CHOOSE k \in Match(e) : TRUE].person ELSE Nobody
  BY DEF Found
<1>2. CASE finds
  <2>1. (CHOOSE k \in Match(e) : TRUE) \in Match(e)
    BY <1>2
  <2>2. (CHOOSE k \in Match(e) : TRUE) = KeyOf(e)
    BY <2>1, MatchIsKey
  <2>3. KeyOf(e) \in Rows /\ identity[KeyOf(e)].person # Nobody
    BY <2>1, <2>2 DEF Match
  <2>4. identity[KeyOf(e)].person \in Persons
    BY <2>3 DEF TypeOK, Rows, Identities
  <2>5. QED BY <1>1, <1>2, <2>2, <2>3, <2>4
<1>3. CASE ~ finds
  <2>1. ASSUME Behind(e), Kind[e] = table PROVE FALSE
    <3>1. e \in Stored /\ KeyOf(e) \in Match(e)
      BY <2>1, LinkedIsMatched DEF Behind
    <3>2. identity[KeyOf(e)].person # event[e].person
      BY <2>1 DEF Behind
    <3>3. QED BY <1>3, <2>1, <3>1, <3>2
  <2>2. QED BY <1>1, <1>3, <2>1
<1>4. QED BY <1>2, <1>3

-----------------------------------------------------------------------------
(* Types.                                                                   *)

\* Linking a row writes its person only: rows stay rows.
LEMMA LinkWrites ==
  ASSUME TypeOK, NEW k \in Rows, NEW p \in Persons, LinkIdentityToPerson(k, p)
  PROVE  /\ identity' \in [Keys -> {NoRow} \cup Identities]
         /\ identity'[k].person = p
         /\ \A j \in Keys : j # k => identity'[j] = identity[j]
         /\ Rows' = Rows
         /\ linkedEver' = linkedEver \cup {<<k, p>>}
         /\ linkedEver' \subseteq Keys \X Persons
<1>1. k \in Keys /\ identity[k] \in Identities
  BY DEF TypeOK, Rows
<1>2. identity' = [identity EXCEPT ![k] = [identity[k] EXCEPT !.person = p]]
  BY DEF LinkIdentityToPerson
<1>3. [identity[k] EXCEPT !.person = p] \in Identities /\ [identity[k] EXCEPT !.person = p].person = p
  BY <1>1 DEF Identities
<1>4. identity'[k] = [identity[k] EXCEPT !.person = p]
  BY <1>1, <1>2 DEF TypeOK
<1>5. identity'[k].person = p
  BY <1>3, <1>4
<1>6. \A j \in Keys : j # k => identity'[j] = identity[j]
  BY <1>1, <1>2 DEF TypeOK
<1>7. identity' \in [Keys -> {NoRow} \cup Identities]
  BY <1>1, <1>2, <1>3 DEF TypeOK
<1>8. identity'[k] # NoRow
  BY <1>3, <1>4 DEF NoRow, Identities
<1>9. Rows' = Rows
  BY <1>6, <1>8 DEF Rows
<1>10. linkedEver' = linkedEver \cup {<<k, p>>}
  BY DEF LinkIdentityToPerson
<1>11. linkedEver \subseteq Keys \X Persons
  BY DEF TypeOK
<1>12. <<k, p>> \in Keys \X Persons
  BY <1>1
<1>13. linkedEver' \subseteq Keys \X Persons
  BY <1>10, <1>11, <1>12
<1>14. QED BY <1>5, <1>6, <1>7, <1>9, <1>10, <1>13

\* The first time a name is met, a row is made for it, with no person.
LEMMA BackfillWrites ==
  ASSUME TypeOK, NEW t \in Tenants, NEW n \in Names, Backfill(t, n)
  PROVE  /\ <<t, "gitlab", n>> \in Keys \ Rows
         /\ identity' = [identity EXCEPT ![<<t, "gitlab", n>>] = [person |-> Nobody]]
         /\ identity' \in [Keys -> {NoRow} \cup Identities]
         /\ Rows' = Rows \cup {<<t, "gitlab", n>>}
         /\ \A j \in Rows : identity'[j] = identity[j]
<1> DEFINE k == <<t, "gitlab", n>>
<1>1. n \in {Lower[m] : m \in Names}
  BY DEF Backfill, ListGitlabUsernamesFromEvents, Stored, TypeOK, EventRows
<1>2. k \in Keys
  BY <1>1 DEF Keys, Kinds
<1>3. identity' = [identity EXCEPT ![k] = [person |-> Nobody]]
  BY <1>2 DEF Backfill, UpsertPersonIdentity, TypeOK
<1>4. [person |-> Nobody] \in Identities /\ [person |-> Nobody] # NoRow
  BY DEF Identities, NoRow
<1>5. identity' \in [Keys -> {NoRow} \cup Identities]
  BY <1>2, <1>3, <1>4 DEF TypeOK
<1>6. k \notin Rows
  BY DEF Backfill, Rows
<1>7. identity'[k] # NoRow /\ \A j \in Keys : j # k => identity'[j] = identity[j]
  BY <1>2, <1>3, <1>4 DEF TypeOK
<1>8. Rows' = Rows \cup {k}
  BY <1>2, <1>7 DEF Rows
<1>9. \A j \in Rows : identity'[j] = identity[j]
  BY <1>6, <1>7 DEF Rows
<1>10. QED BY <1>2, <1>3, <1>5, <1>6, <1>8, <1>9

\* Who is in an UPDATE is where a caller with one is.
LEMMA InUpdate ==
  ASSUME TypeOK, NEW l \in Linkers, linker[l].pc \in Tables
  PROVE  linker[l] \in Updates
<1>1. linker[l] \in [pc : {"idle", "linked", "half"}]
       \cup [pc : {"creating"}, person : Persons, todo : SUBSET Keys] \cup Updates
  BY DEF TypeOK
<1>2. QED BY <1>1 DEF Tables, Updates

\* What is noted of the rows others change touches nobody's place, nor what an UPDATE
\* has found.
LEMMA OvertakeNotes ==
  ASSUME TypeOK, NEW some, NEW m \in Linkers
  PROVE  /\ Overtake(some)[m].pc = linker[m].pc
         /\ linker[m].pc \notin Tables => Overtake(some)[m] = linker[m]
         /\ linker[m].pc \in Tables =>
              /\ Overtake(some)[m] \in Updates
              /\ Overtake(some)[m].found = linker[m].found
              /\ Overtake(some)[m].changed = linker[m].changed \cup (Writes(m) \cap some)
<1>1. CASE linker[m].pc \in Tables
  <2>1. linker[m] \in Updates
    BY <1>1, InUpdate
  <2>2. Overtake(some)[m] = [linker[m] EXCEPT !.changed = linker[m].changed \cup (Writes(m) \cap some)]
    BY <1>1 DEF Overtake
  <2>3. Writes(m) \subseteq Events
    BY DEF Writes
  <2>4. QED BY <1>1, <2>1, <2>2, <2>3 DEF Updates
<1>2. CASE linker[m].pc \notin Tables
  BY <1>2 DEF Overtake
<1>3. QED BY <1>1, <1>2

\* The types of the callers are kept by whatever notes changes and moves one of them
\* to a place with no UPDATE.
LinkersOK == linker \in [Linkers -> [pc : {"idle", "linked", "half"}]
       \cup [pc : {"creating"}, person : Persons, todo : SUBSET Keys] \cup Updates]

Places == [pc : {"idle", "linked", "half"}] \cup [pc : {"creating"}, person : Persons, todo : SUBSET Keys]

LEMMA NotedAndMoved ==
  ASSUME TypeOK, NEW some, NEW l \in Linkers, NEW to \in Places,
         linker' = [Overtake(some) EXCEPT ![l] = to]
  PROVE  /\ LinkersOK' /\ linker'[l] = to
         /\ \A m \in Linkers : m # l => linker'[m] = Overtake(some)[m]
         /\ \A m \in Linkers : linker'[m].pc \in Tables =>
              m # l /\ linker[m].pc \in Tables /\ Writes(m)' = Writes(m)
<1>1. Overtake(some) = [m \in Linkers |-> Overtake(some)[m]]
  BY DEF Overtake
<1>2. linker'[l] = to /\ \A m \in Linkers : m # l => linker'[m] = Overtake(some)[m]
  BY <1>1
<1>3. ASSUME NEW m \in Linkers PROVE Overtake(some)[m] \in Places \cup Updates
  BY OvertakeNotes DEF TypeOK, Places
<1>4. LinkersOK'
  BY <1>1, <1>3 DEF LinkersOK, Places
<1>5. ASSUME NEW m \in Linkers, linker'[m].pc \in Tables
      PROVE  m # l /\ linker[m].pc \in Tables /\ Writes(m)' = Writes(m)
  <2>1. m # l
    BY <1>2, <1>5 DEF Places, Tables
  <2>2. linker[m].pc \in Tables /\ linker'[m].found = linker[m].found
    BY <1>2, <1>5, <2>1, OvertakeNotes
  <2>3. QED BY <2>1, <2>2 DEF Writes
<1>6. QED BY <1>2, <1>4, <1>5

\* The same when nothing is noted.
LEMMA Moved ==
  ASSUME TypeOK, NEW l \in Linkers, NEW to \in Places, linker' = [linker EXCEPT ![l] = to]
  PROVE  /\ LinkersOK' /\ linker'[l] = to
         /\ \A m \in Linkers : m # l => linker'[m] = linker[m]
         /\ \A m \in Linkers : linker'[m].pc \in Tables =>
              m # l /\ linker[m].pc \in Tables /\ Writes(m)' = Writes(m)
<1>1. linker'[l] = to /\ \A m \in Linkers : m # l => linker'[m] = linker[m]
  BY DEF TypeOK
<1>2. LinkersOK'
  BY DEF TypeOK, LinkersOK, Places
<1>3. ASSUME NEW m \in Linkers, linker'[m].pc \in Tables
      PROVE  m # l /\ linker[m].pc \in Tables /\ Writes(m)' = Writes(m)
  <2>1. m # l
    BY <1>1, <1>3 DEF Places, Tables
  <2>2. linker'[m] = linker[m]
    BY <1>1, <2>1
  <2>3. QED BY <1>3, <2>1, <2>2 DEF Writes
<1>4. QED BY <1>1, <1>2, <1>3

\* The row of an event is a row.
LEMMA RowsAreNot == ASSUME NEW r \in EventRows PROVE r # NoEvent
<1>1. r = [tenant |-> r.tenant, name |-> r.name, names |-> r.names, person |-> r.person]
  BY DEF EventRows
<1>2. DOMAIN r = {"tenant", "name", "names", "person"}
  BY <1>1
<1>3. DOMAIN NoEvent = {"name"}
  BY DEF NoEvent
<1>4. "tenant" \in DOMAIN r /\ "tenant" \notin DOMAIN NoEvent
  BY <1>2, <1>3
<1>5. QED BY <1>4

\* What a commit writes.
LEMMA CommitWrites ==
  ASSUME TypeOK, NEW l \in Linkers, CommitUpdate(l)
  PROVE  /\ AfterUpdate(l) \in Places
         /\ event' \in [Events -> {NoEvent} \cup EventRows]
         /\ Stored' = Stored
         /\ \A e \in Events :
              /\ e \notin Writes(l) => event'[e] = event[e]
              /\ e \in Writes(l) =>
                   /\ e \in Stored
                   /\ event'[e].person = linker[l].found[e]
                   /\ event'[e].tenant = event[e].tenant /\ event'[e].name = event[e].name
                   /\ event'[e].names = event[e].names
         /\ linker[l].changed \subseteq Events
<1>1. linker[l].pc \in Tables /\ linker[l] \in Updates
  BY InUpdate DEF CommitUpdate
<1>2. \A e \in Events : event'[e] =
        IF e \in Writes(l) THEN [event[e] EXCEPT !.person = linker[l].found[e]] ELSE event[e]
  BY DEF CommitUpdate
<1>3. ASSUME NEW e \in Writes(l)
      PROVE  /\ e \in Stored /\ event'[e] \in EventRows /\ event'[e] # NoEvent
             /\ event'[e].person = linker[l].found[e]
             /\ event'[e].tenant = event[e].tenant /\ event'[e].name = event[e].name
             /\ event'[e].names = event[e].names
  <2>1. e \in Events /\ e \in Stored
    BY <1>1 DEF TypeOK, Writes
  <2>2. event[e] \in EventRows
    BY <2>1 DEF TypeOK, Stored
  <2>3. linker[l].found[e] \in Persons \cup {Nobody}
    BY <1>1, <2>1 DEF Updates
  <2>4. event'[e] = [event[e] EXCEPT !.person = linker[l].found[e]]
    BY <1>2, <2>1
  <2>5. event'[e] \in EventRows
    BY <2>2, <2>3, <2>4 DEF EventRows
  <2>6. event'[e] # NoEvent
    BY <2>5, RowsAreNot
  <2>7. QED BY <2>1, <2>2, <2>4, <2>5, <2>6 DEF EventRows
<1>4. \A e \in Events : event'[e] \in {NoEvent} \cup EventRows
  BY <1>2, <1>3 DEF TypeOK
<1>5. event' = [e \in Events |-> event'[e]]
  BY DEF CommitUpdate
<1>6. event' \in [Events -> {NoEvent} \cup EventRows]
  BY <1>4, <1>5
<1>7. Stored' = Stored
  BY <1>2, <1>3 DEF Stored
<1>8. AfterUpdate(l) \in Places
  BY DEF AfterUpdate, Places, Idle
<1>9. linker[l].changed \subseteq Events
  BY <1>1 DEF Updates
<1>10. QED BY <1>2, <1>3, <1>6, <1>7, <1>8, <1>9

\* What the bounds count stays within them.
LEMMA FaultsCounted ==
  ASSUME faults \in 0..MaxFaults, Fault PROVE faults' \in 0..MaxFaults
<1>1. MaxFaults \in Nat
  BY PeopleAssumption
<1>2. QED BY <1>1 DEF Fault

LEMMA RenamesCounted ==
  ASSUME renames \in 0..MaxRenames, renames < MaxRenames, renames' = renames + 1
  PROVE  renames' \in 0..MaxRenames
<1>1. MaxRenames \in Nat
  BY PeopleAssumption
<1>2. QED BY <1>1

\* At the start there are but a few identities, linked to nobody.
LEMMA NobodyLinked ==
  ASSUME Init
  PROVE  /\ identity \in [Keys -> {NoRow} \cup Identities]
         /\ \A k \in Rows : identity[k].person = Nobody
<1>1. PICK loaded \in SUBSET Keys :
        identity = [k \in Keys |-> IF k \in loaded THEN [person |-> Nobody] ELSE NoRow]
  BY DEF Init
<1>2. QED BY <1>1 DEF Rows, Identities

\* The initial state is well typed.
LEMMA TypeInit == ASSUME Init PROVE TypeOK
<1>1. identity \in [Keys -> {NoRow} \cup Identities]
  BY NobodyLinked
<1>2. MaxRenames \in Nat /\ MaxFaults \in Nat
  BY PeopleAssumption
<1>3. renames \in 0..MaxRenames /\ faults \in 0..MaxFaults
  <2>1. renames = 0 /\ faults = 0
    BY DEF Init
  <2>2. QED BY <1>2, <2>1
<1>4. linker = [l \in Linkers |-> [pc |-> "idle"]]
  BY DEF Init, Idle
<1>5. linker \in [Linkers -> [pc : {"idle", "linked", "half"}]]
  BY <1>4
<1>6. \A l \in Linkers : linker[l].pc \notin Tables \cup {"creating"}
  BY <1>4 DEF Tables
<1>7. QED BY <1>1, <1>3, <1>5, <1>6 DEF Init, TypeOK

\* Every step keeps the types.
LEMMA TypeNext == ASSUME TypeOK, [Next]_vars PROVE TypeOK'
<1>0. /\ tenantOf \in [Persons -> Tenants \cup {""}]
      /\ identity \in [Keys -> {NoRow} \cup Identities]
      /\ event \in [Events -> {NoEvent} \cup EventRows]
      /\ LinkersOK
      /\ \A l \in Linkers : linker[l].pc = "creating" => linker[l].todo \subseteq Rows
      /\ \A l \in Linkers : linker[l].pc \in Tables => Writes(l) \subseteq Stored
      /\ excused \subseteq Events /\ linkedEver \subseteq Keys \X Persons
      /\ renames \in 0..MaxRenames /\ faults \in 0..MaxFaults
  BY DEF TypeOK, LinkersOK
<1> DEFINE Refers ==
      /\ \A l \in Linkers : linker[l].pc = "creating" => linker[l].todo \subseteq Rows
      /\ \A l \in Linkers : linker[l].pc \in Tables => Writes(l) \subseteq Stored
<1>1. ASSUME NEW e \in Events, NEW t \in Tenants, NEW n \in Names, StoreEvent(e, t, n)
      PROVE  TypeOK'
  <2>1. Rows' = Rows
    BY <1>1 DEF StoreEvent, Rows
  <2>2. [tenant |-> t, name |-> n, names |-> {n}, person |-> Nobody] \in EventRows
    BY DEF EventRows
  <2>3. event' \in [Events -> {NoEvent} \cup EventRows]
    BY <1>0, <1>1, <2>2 DEF StoreEvent
  <2>4. [tenant |-> t, name |-> n, names |-> {n}, person |-> Nobody] # NoEvent
    BY DEF NoEvent
  <2>5. Stored \subseteq Stored'
    BY <1>0, <1>1, <2>4 DEF StoreEvent, Stored
  <2>6. linker' = linker
    BY <1>1 DEF StoreEvent
  <2>7. \A l \in Linkers : Writes(l)' = Writes(l)
    BY <2>6 DEF Writes
  <2>8. Refers'
    BY <1>0, <2>1, <2>5, <2>6, <2>7
  <2>9. LinkersOK'
    BY <1>0, <2>6 DEF LinkersOK
  <2>10. excused' \subseteq Events
    BY <1>0, <1>1 DEF StoreEvent
  <2>11. UNCHANGED <<tenantOf, identity, linkedEver, renames, faults>>
    BY <1>1 DEF StoreEvent
  <2>12. QED BY <1>0, <2>3, <2>8, <2>9, <2>10, <2>11 DEF TypeOK, LinkersOK
<1>2. ASSUME NEW e \in Events, NEW n \in Names, UpsertMergeRequest(e, n)
      PROVE  TypeOK'
  <2>1. event[e] \in EventRows
    BY <1>0, <1>2 DEF UpsertMergeRequest
  <2>2. event' = [event EXCEPT ![e] = [event[e] EXCEPT !.name = n, !.names = event[e].names \cup {n}]]
    BY <1>2 DEF UpsertMergeRequest
  <2>3. [event[e] EXCEPT !.name = n, !.names = event[e].names \cup {n}] \in EventRows
    BY <2>1 DEF EventRows
  <2>4. event' \in [Events -> {NoEvent} \cup EventRows]
    BY <1>0, <2>2, <2>3
  <2>5. renames' \in 0..MaxRenames
    BY <1>0, <1>2, RenamesCounted DEF UpsertMergeRequest
  <2>6. Rows' = Rows
    BY <1>2 DEF UpsertMergeRequest, Rows
  <2>7. [event[e] EXCEPT !.name = n, !.names = event[e].names \cup {n}] # NoEvent
    BY <2>3, RowsAreNot
  <2>8. Stored \subseteq Stored'
    BY <1>0, <2>2, <2>7 DEF Stored
  <2>9. linker' = Overtake({e})
    BY <1>2 DEF UpsertMergeRequest
  <2>10. LinkersOK'
    <3>1. \A m \in Linkers : Overtake({e})[m] \in Places \cup Updates
      BY <1>0, OvertakeNotes DEF LinkersOK, Places
    <3>2. QED BY <2>9, <3>1 DEF LinkersOK, Overtake, Places
  <2>11. \A m \in Linkers : linker'[m].pc \in Tables => linker[m].pc \in Tables /\ Writes(m)' = Writes(m)
    BY <2>9, OvertakeNotes DEF Writes
  <2>12. \A m \in Linkers : linker'[m].pc = "creating" => linker'[m] = linker[m]
    BY <2>9, OvertakeNotes DEF Tables
  <2>13. Refers'
    BY <1>0, <2>6, <2>8, <2>11, <2>12
  <2>14. excused' \subseteq Events /\ UNCHANGED <<tenantOf, identity, linkedEver, faults>>
    BY <1>0, <1>2 DEF UpsertMergeRequest
  <2>15. QED BY <1>0, <2>4, <2>5, <2>10, <2>13, <2>14 DEF TypeOK, LinkersOK
<1>3. ASSUME NEW t \in Tenants, NEW n \in Names, Backfill(t, n)
      PROVE  TypeOK'
  <2>1. identity' \in [Keys -> {NoRow} \cup Identities] /\ Rows \subseteq Rows'
    BY <1>3, BackfillWrites
  <2>2. UNCHANGED <<tenantOf, event, linker, excused, linkedEver, renames, faults>>
    BY <1>3 DEF Backfill
  <2>3. Stored' = Stored /\ \A l \in Linkers : Writes(l)' = Writes(l)
    BY <2>2 DEF Stored, Writes
  <2>4. QED BY <1>0, <2>1, <2>2, <2>3 DEF TypeOK, LinkersOK
<1>4. ASSUME NEW l \in Linkers, NEW p \in Persons, NEW t \in Tenants, NEW some \in SUBSET Rows,
             CreatePerson(l, p, t, some)
      PROVE  TypeOK'
  <2> DEFINE to == IF some = {} THEN Idle ELSE [pc |-> "creating", person |-> p, todo |-> some]
  <2>1. /\ linker' = [linker EXCEPT ![l] = to]
        /\ UNCHANGED <<identity, event, excused, linkedEver, renames, faults>>
        /\ tenantOf' \in [Persons -> Tenants \cup {""}]
    BY <1>0, <1>4 DEF CreatePerson
  <2>2. to \in Places /\ (to.pc = "creating" => to.todo \subseteq Rows)
    BY DEF Places, Idle, Rows
  <2>3. Rows' = Rows /\ Stored' = Stored
    BY <2>1 DEF Rows, Stored
  <2> HIDE DEF to
  <2>4. LinkersOK' /\ linker'[l] = to /\ (\A m \in Linkers : m # l => linker'[m] = linker[m])
    BY <2>1, <2>2, Moved
  <2>5. \A m \in Linkers : linker'[m].pc \in Tables => linker[m].pc \in Tables /\ Writes(m)' = Writes(m)
    BY <2>1, <2>2, Moved
  <2>6. Refers'
    BY <1>0, <2>2, <2>3, <2>4, <2>5
  <2>7. QED BY <1>0, <2>1, <2>4, <2>6 DEF TypeOK, LinkersOK
<1>5. ASSUME NEW l \in Linkers, NEW k \in Keys, LinkOnCreate(l, k)
      PROVE  TypeOK'
  <2> DEFINE to == IF linker[l].todo = {k} THEN Idle ELSE [linker[l] EXCEPT !.todo = linker[l].todo \ {k}]
  <2>1. /\ linker[l] \in [pc : {"creating"}, person : Persons, todo : SUBSET Keys]
        /\ k \in Rows /\ linker[l].todo \subseteq Rows
    BY <1>0, <1>5 DEF LinkOnCreate, LinkersOK, Updates, Tables
  <2>2. /\ \/ /\ LinkIdentityToPerson(k, linker[l].person)
              /\ excused' = excused \cup EventsOf(k)
              /\ linker' = [Overtake(EventsOf(k)) EXCEPT ![l] = to]
              /\ UNCHANGED faults
           \/ /\ Fault /\ linker' = [linker EXCEPT ![l] = to]
              /\ UNCHANGED <<identity, linkedEver, excused>>
        /\ UNCHANGED <<tenantOf, event, renames>>
    BY <1>5 DEF LinkOnCreate
  <2>3. to \in Places /\ (to.pc = "creating" => to.todo \subseteq Rows)
    BY <2>1 DEF Places, Idle
  <2> HIDE DEF to
  <2>4. /\ identity' \in [Keys -> {NoRow} \cup Identities]
        /\ Rows' = Rows
        /\ linkedEver' \subseteq Keys \X Persons
        /\ excused' \subseteq Events /\ faults' \in 0..MaxFaults
    <3>1. CASE LinkIdentityToPerson(k, linker[l].person) /\ excused' = excused \cup EventsOf(k)
               /\ UNCHANGED faults
      BY <1>0, <2>1, <3>1, LinkWrites DEF EventsOf, Stored
    <3>2. CASE Fault /\ UNCHANGED <<identity, linkedEver, excused>>
      BY <1>0, <3>2, FaultsCounted DEF Rows
    <3>3. QED BY <2>2, <3>1, <3>2
  <2>5. Stored' = Stored
    BY <2>2 DEF Stored
  <2>6. /\ LinkersOK' /\ linker'[l] = to
        /\ \A m \in Linkers : linker'[m].pc \in Tables => linker[m].pc \in Tables /\ Writes(m)' = Writes(m)
        /\ \A m \in Linkers : m # l /\ linker'[m].pc = "creating" => linker'[m] = linker[m]
    <3>1. CASE linker' = [Overtake(EventsOf(k)) EXCEPT ![l] = to]
      <4>1. /\ LinkersOK' /\ linker'[l] = to
            /\ \A m \in Linkers : m # l => linker'[m] = Overtake(EventsOf(k))[m]
            /\ \A m \in Linkers : linker'[m].pc \in Tables =>
                 m # l /\ linker[m].pc \in Tables /\ Writes(m)' = Writes(m)
        BY <2>3, <3>1, NotedAndMoved
      <4>2. \A m \in Linkers : m # l /\ linker'[m].pc = "creating" => linker'[m] = linker[m]
        BY <4>1, OvertakeNotes DEF Tables
      <4>3. QED BY <4>1, <4>2
    <3>2. CASE linker' = [linker EXCEPT ![l] = to]
      BY <2>3, <3>2, Moved
    <3>3. QED BY <2>2, <3>1, <3>2
  <2>7. Refers'
    BY <1>0, <2>3, <2>4, <2>5, <2>6
  <2>8. QED BY <1>0, <2>2, <2>4, <2>6, <2>7 DEF TypeOK, LinkersOK
<1>6. ASSUME NEW l \in Linkers, NEW k \in Keys, NEW p \in Persons, LinkIdentity(l, k, p)
      PROVE  TypeOK'
  <2> DEFINE to == [pc |-> "linked"]
  <2>1. k \in Rows
    BY <1>6 DEF LinkIdentity, Rows
  <2>2. /\ LinkIdentityToPerson(k, p)
        /\ linker' = [Overtake(EventsOf(k)) EXCEPT ![l] = to]
        /\ UNCHANGED <<tenantOf, event, excused, renames, faults>>
    BY <1>6 DEF LinkIdentity
  <2>3. /\ identity' \in [Keys -> {NoRow} \cup Identities]
        /\ Rows' = Rows
        /\ linkedEver' \subseteq Keys \X Persons
    BY <2>1, <2>2, LinkWrites
  <2>4. to \in Places /\ to.pc # "creating"
    BY DEF Places
  <2>5. /\ LinkersOK' /\ linker'[l] = to
        /\ \A m \in Linkers : m # l => linker'[m] = Overtake(EventsOf(k))[m]
        /\ \A m \in Linkers : linker'[m].pc \in Tables =>
             m # l /\ linker[m].pc \in Tables /\ Writes(m)' = Writes(m)
    <3> HIDE DEF to
    <3> QED BY <2>2, <2>4, NotedAndMoved
  <2>6. \A m \in Linkers : linker'[m].pc = "creating" => linker'[m] = linker[m]
    BY <2>4, <2>5, OvertakeNotes DEF Tables
  <2>7. Stored' = Stored
    BY <2>2 DEF Stored
  <2>8. Refers'
    BY <1>0, <2>3, <2>5, <2>6, <2>7
  <2>9. QED BY <1>0, <2>2, <2>3, <2>5, <2>8 DEF TypeOK, LinkersOK
<1>7. ASSUME NEW l \in Linkers, NEW to \in {[pc |-> "linked"], Idle, AfterUpdate(l)},
             linker' = [linker EXCEPT ![l] = to],
             UNCHANGED <<tenantOf, identity, event, linkedEver, renames>>,
             excused' \subseteq Events, faults' \in 0..MaxFaults
      PROVE  TypeOK'
  <2>1. to \in Places /\ to.pc # "creating"
    BY DEF Places, Idle, AfterUpdate
  <2>2. Rows' = Rows /\ Stored' = Stored
    BY <1>7 DEF Rows, Stored
  <2>3. /\ LinkersOK' /\ linker'[l] = to
        /\ \A m \in Linkers : m # l => linker'[m] = linker[m]
        /\ \A m \in Linkers : linker'[m].pc \in Tables => linker[m].pc \in Tables /\ Writes(m)' = Writes(m)
    BY <1>7, <2>1, Moved
  <2>4. Refers'
    BY <1>0, <2>1, <2>2, <2>3
  <2>5. QED BY <1>0, <1>7, <2>3, <2>4 DEF TypeOK, LinkersOK
<1>8. ASSUME NEW l \in Linkers, PeoplePropagate(l)
      PROVE  TypeOK'
  BY <1>0, <1>7, <1>8 DEF PeoplePropagate
<1>9. ASSUME NEW l \in Linkers, StartUpdate(l)
      PROVE  TypeOK'
  <2>1. PICK table \in Tables :
          linker' = [linker EXCEPT ![l] = [pc |-> table, found |-> Found(table), changed |-> {}]]
    BY <1>9 DEF StartUpdate, Tables
  <2>2. Found(table) \in [Events -> Persons \cup {Nobody}]
    <3>1. Found(table) = [e \in Events |-> Found(table)[e]]
      BY DEF Found
    <3>2. QED BY <3>1, FoundIsLink
  <2> DEFINE to == [pc |-> table, found |-> Found(table), changed |-> {}]
  <2>3. to \in Updates /\ to.found = Found(table) /\ to.pc \notin {"creating"}
    BY <2>2 DEF Updates, Tables
  <2>4. UNCHANGED <<tenantOf, identity, event, excused, linkedEver, renames, faults>>
    BY <1>9 DEF StartUpdate
  <2>5. Rows' = Rows /\ Stored' = Stored
    BY <2>4 DEF Rows, Stored
  <2>6. linker'[l] = to /\ \A m \in Linkers : m # l => linker'[m] = linker[m]
    BY <1>0, <2>1 DEF LinkersOK
  <2>7. LinkersOK'
    BY <1>0, <2>1, <2>3 DEF LinkersOK
  <2>8. Writes(l)' \subseteq Stored
    BY <2>3, <2>6, FoundIsLink DEF Writes
  <2>9. \A m \in Linkers : m # l => Writes(m)' = Writes(m)
    BY <2>6 DEF Writes
  <2>10. Refers'
    BY <1>0, <2>3, <2>5, <2>6, <2>8, <2>9
  <2>11. QED BY <1>0, <2>4, <2>7, <2>10 DEF TypeOK, LinkersOK
<1>10. ASSUME NEW l \in Linkers, CommitUpdate(l)
      PROVE  TypeOK'
  <2>1. /\ AfterUpdate(l) \in Places
        /\ event' \in [Events -> {NoEvent} \cup EventRows]
        /\ Stored' = Stored /\ linker[l].changed \subseteq Events
    BY <1>10, CommitWrites
  <2>2. /\ linker' = [linker EXCEPT ![l] = AfterUpdate(l)]
        /\ excused' = (excused \ Writes(l)) \cup linker[l].changed
        /\ UNCHANGED <<tenantOf, identity, linkedEver, renames, faults>>
    BY <1>10 DEF CommitUpdate
  <2>3. Rows' = Rows
    BY <2>2 DEF Rows
  <2>4. /\ LinkersOK' /\ linker'[l] = AfterUpdate(l)
        /\ \A m \in Linkers : m # l => linker'[m] = linker[m]
        /\ \A m \in Linkers : linker'[m].pc \in Tables => linker[m].pc \in Tables /\ Writes(m)' = Writes(m)
    BY <2>1, <2>2, Moved
  <2>5. AfterUpdate(l).pc # "creating"
    BY DEF AfterUpdate, Idle
  <2>6. Refers'
    BY <1>0, <2>1, <2>3, <2>4, <2>5
  <2>7. QED BY <1>0, <2>1, <2>2, <2>4, <2>6 DEF TypeOK, LinkersOK
<1>11. ASSUME NEW l \in Linkers, FailUpdate(l)
      PROVE  TypeOK'
  BY <1>0, <1>7, <1>11, FaultsCounted DEF FailUpdate, Writes
<1>12. ASSUME NEW l \in Linkers, LinkerDies(l)
      PROVE  TypeOK'
  BY <1>0, <1>7, <1>12, FaultsCounted DEF LinkerDies, Stored
<1>13. CASE UNCHANGED vars
  <2>1. Rows' = Rows /\ Stored' = Stored /\ \A l \in Linkers : Writes(l)' = Writes(l)
    BY <1>13 DEF vars, Rows, Stored, Writes
  <2>2. QED BY <1>0, <1>13, <2>1 DEF vars, TypeOK, LinkersOK
<1>14. QED
  BY <1>1, <1>2, <1>3, <1>4, <1>5, <1>6, <1>8, <1>9, <1>10, <1>11, <1>12, <1>13 DEF Next

\* The state of every behaviour is well typed; in particular whoever creates a
\* person links only identities there are.
THEOREM TypeCorrect == Spec => []TypeOK
<1>1. Init => TypeOK
  BY TypeInit
<1>2. TypeOK /\ [Next]_vars => TypeOK'
  BY TypeNext
<1>3. QED BY <1>1, <1>2, PTL DEF Spec

-----------------------------------------------------------------------------
(* Where a person comes from.                                               *)

\* Every link there is, is remembered; so is every name an event has.
LinksRemembered ==
  \A k \in Rows : identity[k].person # Nobody => <<k, identity[k].person>> \in linkedEver

NamesRemembered == \A e \in Stored : event[e].name \in event[e].names

\* That p was once linked under a name of the event.
Owed(e, p) ==
  \E n \in event[e].names : <<<<event[e].tenant, "gitlab", Lower[n]>>, p>> \in linkedEver

\* So was every person an UPDATE has found and is to write.
FindingsOwed ==
  \A l \in Linkers : linker[l].pc \in Tables =>
    \A e \in Writes(l) : Owed(e, linker[l].found[e])

Attribution == LinksRemembered /\ NamesRemembered /\ AttributedByLink /\ FindingsOwed

\* What an event's person is owed to, one event at a time.
Attributed(e) == event[e].person # Nobody => Owed(e, event[e].person)

\* What was owed stays owed, for a tenant, the names and the links are kept.
LEMMA OwedStays ==
  ASSUME NEW e \in Events, NEW p, Owed(e, p), event'[e].tenant = event[e].tenant,
         event[e].names \subseteq event'[e].names, linkedEver \subseteq linkedEver'
  PROVE  Owed(e, p)'
BY DEF Owed

\* UPDATEs that have found what they had are owed it.
LEMMA FindingsStay ==
  ASSUME FindingsOwed, linkedEver \subseteq linkedEver',
         \A e \in Events : e \in Stored =>
           event'[e].tenant = event[e].tenant /\ event[e].names \subseteq event'[e].names,
         TypeOK,
         \A m \in Linkers : linker'[m].pc \in Tables =>
           linker[m].pc \in Tables /\ linker'[m].found = linker[m].found
  PROVE  FindingsOwed'
<1> SUFFICES ASSUME NEW m \in Linkers, linker'[m].pc \in Tables, NEW e \in Writes(m)'
             PROVE  Owed(e, linker[m].found[e])'
  BY DEF FindingsOwed
<1>1. linker[m].pc \in Tables /\ linker'[m].found = linker[m].found
  OBVIOUS
<1>2. e \in Events /\ e \in Writes(m)
  BY <1>1 DEF Writes
<1>3. e \in Stored
  BY <1>1, <1>2 DEF TypeOK
<1>4. Owed(e, linker[m].found[e])
  BY <1>1, <1>2 DEF FindingsOwed
<1>5. QED BY <1>1, <1>2, <1>3, <1>4 DEF Owed

\* Steps that leave the events alone only add links.
LEMMA MoreLinks ==
  ASSUME NamesRemembered, AttributedByLink, UNCHANGED event, linkedEver \subseteq linkedEver'
  PROVE  NamesRemembered' /\ AttributedByLink'
<1>1. Stored' = Stored
  BY DEF Stored
<1>2. NamesRemembered'
  BY <1>1 DEF NamesRemembered
<1>3. AttributedByLink'
  BY <1>1 DEF AttributedByLink
<1>4. QED BY <1>2, <1>3

\* Steps that leave the identities alone leave the links.
LEMMA SameLinks ==
  ASSUME LinksRemembered, UNCHANGED <<identity, linkedEver>>
  PROVE  LinksRemembered'
BY DEF LinksRemembered, Rows

\* A new link is remembered, and the others are.
LEMMA NewLink ==
  ASSUME TypeOK, LinksRemembered, NEW k \in Rows, NEW p \in Persons, LinkIdentityToPerson(k, p)
  PROVE  LinksRemembered' /\ linkedEver \subseteq linkedEver'
<1>1. /\ identity'[k].person = p
      /\ \A j \in Keys : j # k => identity'[j] = identity[j]
      /\ Rows' = Rows
      /\ linkedEver' = linkedEver \cup {<<k, p>>}
  BY LinkWrites
<1>2. ASSUME NEW j \in Rows, identity'[j].person # Nobody
      PROVE  <<j, identity'[j].person>> \in linkedEver'
  <2>1. CASE j = k
    BY <1>1, <2>1
  <2>2. CASE j # k
    BY <1>1, <1>2, <2>2 DEF LinksRemembered, Rows
  <2>3. QED BY <2>1, <2>2
<1>3. QED BY <1>1, <1>2 DEF LinksRemembered

\* No step gives an event a person it is not owed.
LEMMA AttributionNext ==
  ASSUME TypeOK, Attribution, [Next]_vars PROVE Attribution'
<1> USE DEF Attribution
<1>1. ASSUME NEW e \in Events, NEW t \in Tenants, NEW n \in Names, StoreEvent(e, t, n)
      PROVE  Attribution'
  <2>1. event' = [event EXCEPT ![e] = [tenant |-> t, name |-> n, names |-> {n}, person |-> Nobody]]
    BY <1>1 DEF StoreEvent
  <2>2. event'[e] = [tenant |-> t, name |-> n, names |-> {n}, person |-> Nobody]
        /\ \A f \in Events : f # e => event'[f] = event[f]
    BY <2>1 DEF TypeOK
  <2>3. \A f \in Stored' : f = e \/ f \in Stored
    BY <2>2 DEF Stored
  <2>4. NamesRemembered'
    BY <2>2, <2>3 DEF NamesRemembered, Stored
  <2>5. AttributedByLink'
    <3>1. linkedEver' = linkedEver
      BY <1>1 DEF StoreEvent
    <3>2. QED BY <2>2, <2>3, <3>1 DEF AttributedByLink, Stored
  <2>6. LinksRemembered'
    BY <1>1, SameLinks DEF StoreEvent
  <2>7. FindingsOwed'
    <3>1. linker' = linker /\ linkedEver' = linkedEver /\ event[e] = NoEvent
      BY <1>1 DEF StoreEvent
    <3>2. \A f \in Events : f \in Stored => event'[f] = event[f]
      BY <2>2, <3>1 DEF Stored
    <3>3. QED BY <3>1, <3>2, FindingsStay
  <2>8. QED BY <2>4, <2>5, <2>6, <2>7
<1>2. ASSUME NEW e \in Events, NEW n \in Names, UpsertMergeRequest(e, n)
      PROVE  Attribution'
  <2>1. event' = [event EXCEPT ![e] = [event[e] EXCEPT !.name = n, !.names = event[e].names \cup {n}]]
        /\ e \in Stored
    BY <1>2 DEF UpsertMergeRequest, Stored
  <2>2. event[e] \in EventRows
    BY <2>1 DEF TypeOK, Stored
  <2>3. /\ event'[e].tenant = event[e].tenant /\ event'[e].person = event[e].person
        /\ event'[e].name = n /\ event'[e].names = event[e].names \cup {n}
        /\ \A f \in Events : f # e => event'[f] = event[f]
    <3>1. event'[e] = [event[e] EXCEPT !.name = n, !.names = event[e].names \cup {n}]
      BY <2>1 DEF TypeOK
    <3>2. QED BY <2>1, <2>2, <3>1 DEF TypeOK, EventRows
  <2>4. Stored' \subseteq Stored
    BY <2>1, <2>3 DEF Stored
  <2>5. NamesRemembered'
    BY <2>3, <2>4 DEF NamesRemembered, Stored
  <2>6. ASSUME NEW f \in Stored', Attributed(f)
        PROVE  Attributed(f)'
    <3>1. linkedEver' = linkedEver
      BY <1>2 DEF UpsertMergeRequest
    <3>2. CASE f = e
      BY <2>3, <2>6, <3>1, <3>2 DEF Attributed, Owed
    <3>3. CASE f # e
      BY <2>3, <2>6, <3>1, <3>3 DEF Attributed, Owed, Stored
    <3>4. QED BY <3>2, <3>3
  <2>7. AttributedByLink'
    BY <2>4, <2>6 DEF AttributedByLink, Attributed, Owed
  <2>8. LinksRemembered'
    BY <1>2, SameLinks DEF UpsertMergeRequest
  <2>9. FindingsOwed'
    <3>1. linkedEver' = linkedEver /\ linker' = Overtake({e})
      BY <1>2 DEF UpsertMergeRequest
    <3>2. \A m \in Linkers : linker'[m].pc \in Tables =>
            linker[m].pc \in Tables /\ linker'[m].found = linker[m].found
      BY <3>1, OvertakeNotes
    <3>3. \A f \in Events : f \in Stored =>
            event'[f].tenant = event[f].tenant /\ event[f].names \subseteq event'[f].names
      BY <2>3
    <3>4. QED BY <3>1, <3>2, <3>3, FindingsStay
  <2>10. QED BY <2>5, <2>7, <2>8, <2>9
<1>3. ASSUME UNCHANGED <<event, linkedEver>>, LinksRemembered',
             \A m \in Linkers : linker'[m].pc \in Tables =>
               linker[m].pc \in Tables /\ linker'[m].found = linker[m].found
      PROVE  Attribution'
  BY <1>3, MoreLinks, FindingsStay
<1>4. ASSUME NEW t \in Tenants, NEW n \in Names, Backfill(t, n)
      PROVE  Attribution'
  <2>1. /\ identity' = [identity EXCEPT ![<<t, "gitlab", n>>] = [person |-> Nobody]]
        /\ <<t, "gitlab", n>> \in Keys
        /\ Rows' = Rows \cup {<<t, "gitlab", n>>}
        /\ \A j \in Rows : identity'[j] = identity[j]
    BY <1>4, BackfillWrites
  <2>2. identity'[<<t, "gitlab", n>>].person = Nobody
    BY <2>1 DEF TypeOK
  <2>3. UNCHANGED <<event, linkedEver, linker>>
    BY <1>4 DEF Backfill
  <2>4. LinksRemembered'
    BY <2>1, <2>2, <2>3 DEF LinksRemembered
  <2>5. QED BY <1>3, <2>3, <2>4
<1>5. ASSUME NEW l \in Linkers, NEW p \in Persons, NEW t \in Tenants, NEW some \in SUBSET Rows,
             CreatePerson(l, p, t, some)
      PROVE  Attribution'
  <2>1. LinksRemembered'
    BY <1>5, SameLinks DEF CreatePerson
  <2>2. \A m \in Linkers : linker'[m].pc \in Tables => linker'[m] = linker[m]
    BY <1>5 DEF CreatePerson, TypeOK, Tables, Idle
  <2>3. UNCHANGED <<event, linkedEver>>
    BY <1>5 DEF CreatePerson
  <2>4. QED BY <1>3, <2>1, <2>2, <2>3
<1>6. ASSUME NEW l \in Linkers, NEW k \in Rows, NEW p \in Persons, NEW to \in Places,
             LinkIdentityToPerson(k, p),
             linker' = [Overtake(EventsOf(k)) EXCEPT ![l] = to],
             UNCHANGED event
      PROVE  Attribution'
  <2>1. LinksRemembered' /\ linkedEver \subseteq linkedEver'
    BY <1>6, NewLink
  <2>2. NamesRemembered' /\ AttributedByLink'
    BY <1>6, <2>1, MoreLinks
  <2>3. \A m \in Linkers : linker'[m].pc \in Tables =>
          linker[m].pc \in Tables /\ linker'[m].found = linker[m].found
    <3>1. /\ \A m \in Linkers : m # l => linker'[m] = Overtake(EventsOf(k))[m]
          /\ \A m \in Linkers : linker'[m].pc \in Tables => m # l /\ linker[m].pc \in Tables
      BY <1>6, NotedAndMoved
    <3>2. QED BY <3>1, OvertakeNotes
  <2>4. FindingsOwed'
    BY <1>6, <2>1, <2>3, FindingsStay
  <2>5. QED BY <2>1, <2>2, <2>4
<1>7. ASSUME NEW l \in Linkers, NEW to \in Places, linker' = [linker EXCEPT ![l] = to],
             UNCHANGED <<identity, event, linkedEver>>
      PROVE  Attribution'
  <2>1. LinksRemembered'
    BY <1>7, SameLinks
  <2>2. \A m \in Linkers : linker'[m].pc \in Tables => linker'[m] = linker[m]
    BY <1>7, Moved
  <2>3. QED BY <1>3, <1>7, <2>1, <2>2
<1>8. ASSUME NEW l \in Linkers, NEW k \in Keys, LinkOnCreate(l, k)
      PROVE  Attribution'
  <2> DEFINE to == IF linker[l].todo = {k} THEN Idle ELSE [linker[l] EXCEPT !.todo = linker[l].todo \ {k}]
  <2>1. /\ linker[l] \in [pc : {"creating"}, person : Persons, todo : SUBSET Keys] /\ k \in Rows
    BY <1>8 DEF LinkOnCreate, TypeOK, Updates, Tables
  <2>2. to \in Places
    BY <2>1 DEF Places, Idle
  <2>3. /\ \/ /\ LinkIdentityToPerson(k, linker[l].person)
              /\ linker' = [Overtake(EventsOf(k)) EXCEPT ![l] = to]
           \/ linker' = [linker EXCEPT ![l] = to] /\ UNCHANGED <<identity, linkedEver>>
        /\ UNCHANGED event
    BY <1>8 DEF LinkOnCreate
  <2> HIDE DEF to
  <2>4. linker[l].person \in Persons
    BY <2>1
  <2>5. QED BY <1>6, <1>7, <2>1, <2>2, <2>3, <2>4
<1>9. ASSUME NEW l \in Linkers, NEW k \in Keys, NEW p \in Persons, LinkIdentity(l, k, p)
      PROVE  Attribution'
  <2>1. k \in Rows /\ LinkIdentityToPerson(k, p) /\ UNCHANGED event
        /\ linker' = [Overtake(EventsOf(k)) EXCEPT ![l] = [pc |-> "linked"]]
    BY <1>9 DEF LinkIdentity, Rows
  <2>2. [pc |-> "linked"] \in Places
    BY DEF Places
  <2>3. QED BY <1>6, <2>1, <2>2
<1>10. ASSUME NEW l \in Linkers, PeoplePropagate(l) \/ FailUpdate(l) \/ LinkerDies(l)
       PROVE  Attribution'
  <2>1. PICK to \in Places : linker' = [linker EXCEPT ![l] = to]
    BY <1>10 DEF PeoplePropagate, FailUpdate, LinkerDies, AfterUpdate, Idle, Places
  <2>2. UNCHANGED <<identity, event, linkedEver>>
    BY <1>10 DEF PeoplePropagate, FailUpdate, LinkerDies
  <2>3. QED BY <1>7, <2>1, <2>2
<1>11. ASSUME NEW l \in Linkers, StartUpdate(l)
       PROVE  Attribution'
  <2>1. PICK table \in Tables :
          linker' = [linker EXCEPT ![l] = [pc |-> table, found |-> Found(table), changed |-> {}]]
    BY <1>11 DEF StartUpdate, Tables
  <2>2. UNCHANGED <<identity, event, linkedEver>>
    BY <1>11 DEF StartUpdate
  <2>3. LinksRemembered' /\ NamesRemembered' /\ AttributedByLink'
    BY <2>2, SameLinks, MoreLinks
  <2>4. linker'[l].found = Found(table) /\ \A m \in Linkers : m # l => linker'[m] = linker[m]
    BY <2>1 DEF TypeOK
  <2>5. ASSUME NEW m \in Linkers, linker'[m].pc \in Tables, NEW e \in Writes(m)'
        PROVE  Owed(e, linker[m].found[e])'
    <3>1. CASE m = l
      <4>1. e \in Events /\ Found(table)[e] # Nobody
        BY <2>4, <3>1 DEF Writes
      <4>2. e \in Stored /\ KeyOf(e) \in Rows /\ Found(table)[e] = identity[KeyOf(e)].person
        BY <4>1, FoundIsLink
      <4>3. <<KeyOf(e), Found(table)[e]>> \in linkedEver
        BY <4>1, <4>2 DEF LinksRemembered
      <4>4. event[e].name \in event[e].names
        BY <4>2 DEF NamesRemembered
      <4>5. Owed(e, Found(table)[e])
        BY <4>3, <4>4 DEF Owed, KeyOf
      <4>6. QED BY <2>2, <2>4, <3>1, <4>5 DEF Owed
    <3>2. CASE m # l
      <4>1. linker[m].pc \in Tables /\ linker'[m] = linker[m] /\ e \in Writes(m)
        BY <2>4, <2>5, <3>2 DEF Writes
      <4>2. Owed(e, linker[m].found[e])
        BY <4>1 DEF FindingsOwed
      <4>3. QED BY <2>2, <4>1, <4>2 DEF Owed
    <3>3. QED BY <3>1, <3>2
  <2>6. FindingsOwed'
    BY <2>5 DEF FindingsOwed
  <2>7. QED BY <2>3, <2>6
<1>12. ASSUME NEW l \in Linkers, CommitUpdate(l)
       PROVE  Attribution'
  <2>1. /\ AfterUpdate(l) \in Places /\ Stored' = Stored
        /\ \A e \in Events :
              /\ e \notin Writes(l) => event'[e] = event[e]
              /\ e \in Writes(l) =>
                   /\ event'[e].person = linker[l].found[e]
                   /\ event'[e].tenant = event[e].tenant /\ event'[e].name = event[e].name
                   /\ event'[e].names = event[e].names
    BY <1>12, CommitWrites
  <2>2. linker[l].pc \in Tables /\ linker' = [linker EXCEPT ![l] = AfterUpdate(l)]
        /\ UNCHANGED <<identity, linkedEver>>
    BY <1>12 DEF CommitUpdate
  <2>3. LinksRemembered'
    BY <2>2, SameLinks
  <2>4. NamesRemembered'
    BY <2>1 DEF NamesRemembered, Stored
  <2>5. ASSUME NEW e \in Stored'
        PROVE  Attributed(e)'
    <3>1. e \in Events /\ e \in Stored /\ Attributed(e)
      BY <2>1 DEF AttributedByLink, Attributed, Owed, Stored
    <3>2. CASE e \in Writes(l)
      <4>1. Owed(e, linker[l].found[e])
        BY <2>2, <3>2 DEF FindingsOwed
      <4>2. QED BY <2>1, <2>2, <3>1, <3>2, <4>1 DEF Attributed, Owed
    <3>3. CASE e \notin Writes(l)
      BY <2>1, <2>2, <3>1, <3>3 DEF Attributed, Owed
    <3>4. QED BY <3>2, <3>3
  <2>6. AttributedByLink'
    BY <2>5 DEF AttributedByLink, Attributed, Owed
  <2>7. \A m \in Linkers : linker'[m].pc \in Tables => linker'[m] = linker[m]
    BY <2>1, <2>2, Moved
  <2>8. \A e \in Events : e \in Stored =>
          event'[e].tenant = event[e].tenant /\ event[e].names \subseteq event'[e].names
    BY <2>1
  <2>9. FindingsOwed'
    BY <2>2, <2>7, <2>8, FindingsStay
  <2>10. QED BY <2>3, <2>4, <2>6, <2>9
<1>13. CASE UNCHANGED vars
  BY <1>3, <1>13, SameLinks DEF vars
<1>14. QED
  BY <1>1, <1>2, <1>4, <1>5, <1>8, <1>9, <1>10, <1>11, <1>12, <1>13 DEF Next

\* However links, propagations, renames and failures overlap, and whenever the UPDATEs
\* read what they write, the person of a merge request or deployment was once linked to
\* an identity of its own tenant, under a name it has had: nothing is written over the
\* border of a tenant.
THEOREM EventsAreAttributed == Spec => []AttributedByLink
<1>1. Init => Attribution
  <2> SUFFICES ASSUME Init PROVE Attribution
    OBVIOUS
  <2>1. Stored = {}
    BY DEF Init, Stored
  <2>2. \A k \in Rows : identity[k].person = Nobody
    BY NobodyLinked
  <2>3. \A l \in Linkers : linker[l].pc \notin Tables
    BY DEF Init, Idle, Tables
  <2>4. QED BY <2>1, <2>2, <2>3
         DEF Attribution, LinksRemembered, NamesRemembered, AttributedByLink, FindingsOwed
<1>2. TypeOK /\ Attribution /\ [Next]_vars => Attribution'
  BY AttributionNext
<1>3. Attribution => AttributedByLink
  BY DEF Attribution
<1>4. QED BY <1>1, <1>2, <1>3, TypeCorrect, PTL DEF Spec

-----------------------------------------------------------------------------
(* Rows follow links.                                                       *)

\* What an UPDATE is to write is the present link, if neither the link nor the name has
\* changed since it was read.
FindingsFresh ==
  \A l \in Linkers : linker[l].pc \in Tables =>
    \A e \in Writes(l) \ linker[l].changed :
      KeyOf(e) \in Rows /\ linker[l].found[e] = identity[KeyOf(e)].person

\* Who is still to write a row.
ToCome(e) == \E l \in Linkers : OnTheWay(l, e)

FollowInv == FindingsFresh /\ RowsFollowLinks

\* An event whose row, key and link are left alone is no more behind than before.
LEMMA SameBehind ==
  ASSUME NEW e \in Events, event'[e] = event[e], Rows' \cap {KeyOf(e)} \subseteq Rows,
         KeyOf(e) \in Rows => identity'[KeyOf(e)].person = identity[KeyOf(e)].person
  PROVE  Behind(e)' => Behind(e)
BY DEF Behind, KeyOf, Stored

\* A step after which an UPDATE runs only where one ran, with what it had found and the
\* rows changed noted: findings stay fresh, and who was to write the other rows still is.
LEMMA NotedFresh ==
  ASSUME TypeOK, FindingsFresh, NEW some,
         \A m \in Linkers : linker'[m].pc \in Tables =>
           /\ linker[m].pc \in Tables /\ linker'[m].found = linker[m].found
           /\ linker'[m].changed = linker[m].changed \cup (Writes(m) \cap some),
         \A e \in Events : e \in Stored /\ e \notin some =>
           /\ KeyOf(e)' = KeyOf(e)
           /\ KeyOf(e) \in Rows =>
                KeyOf(e) \in Rows' /\ identity'[KeyOf(e)].person = identity[KeyOf(e)].person
  PROVE  FindingsFresh'
<1> SUFFICES ASSUME NEW m \in Linkers, linker'[m].pc \in Tables,
                    NEW e \in Writes(m)', e \notin linker'[m].changed
             PROVE  /\ KeyOf(e)' \in Rows'
                    /\ linker'[m].found[e] = identity'[KeyOf(e)'].person
  BY DEF FindingsFresh, KeyOf
<1>1. /\ linker[m].pc \in Tables /\ linker'[m].found = linker[m].found
      /\ linker'[m].changed = linker[m].changed \cup (Writes(m) \cap some)
  OBVIOUS
<1>2. e \in Events /\ e \in Writes(m)
  BY <1>1 DEF Writes
<1>3. e \notin linker[m].changed /\ e \notin some
  BY <1>1, <1>2
<1>4. e \in Stored
  BY <1>1, <1>2 DEF TypeOK
<1>5. KeyOf(e) \in Rows /\ linker[m].found[e] = identity[KeyOf(e)].person
  BY <1>1, <1>2, <1>3 DEF FindingsFresh
<1>6. QED BY <1>1, <1>2, <1>3, <1>4, <1>5

\* The same, when nobody's row or link has changed.
LEMMA QuietFresh ==
  ASSUME TypeOK, FindingsFresh, UNCHANGED identity,
         \A e \in Events : e \in Stored => event'[e] = event[e],
         \A m \in Linkers : linker'[m].pc \in Tables => linker'[m] = linker[m]
  PROVE  FindingsFresh'
<1>1. Rows' = Rows
  BY DEF Rows
<1>2. \A e \in Events : e \in Stored => KeyOf(e)' = KeyOf(e)
  BY DEF KeyOf
<1>3. \A m \in Linkers : linker'[m].pc \in Tables =>
        /\ linker[m].pc \in Tables /\ linker'[m].found = linker[m].found
        /\ linker'[m].changed = linker[m].changed \cup (Writes(m) \cap {})
  <2> SUFFICES ASSUME NEW m \in Linkers, linker'[m].pc \in Tables
               PROVE  /\ linker[m].pc \in Tables /\ linker'[m].found = linker[m].found
                      /\ linker'[m].changed = linker[m].changed \cup (Writes(m) \cap {})
    OBVIOUS
  <2>1. linker'[m] = linker[m]
    OBVIOUS
  <2>2. linker[m] \in Updates
    BY <2>1, InUpdate
  <2>3. QED BY <2>1, <2>2
<1>4. QED BY <1>1, <1>2, <1>3, NotedFresh

\* What the place of a caller says of the rows it is still to write.
LEMMA SameWay ==
  ASSUME NEW l \in Linkers, NEW e \in Events, linker'[l].pc = linker[l].pc,
         linker[l].pc = Kind[e] =>
           /\ linker'[l].found = linker[l].found
           /\ e \in linker'[l].changed => e \in linker[l].changed
  PROVE  OnTheWay(l, e) => OnTheWay(l, e)'
BY DEF OnTheWay, Writes

\* A caller that has nothing to write, or that is where it was, lets nobody down.
LEMMA OneMoved ==
  ASSUME TypeOK, NEW l \in Linkers, NEW to \in Places, linker' = [linker EXCEPT ![l] = to],
         NEW e \in Events, ToCome(e), OnTheWay(l, e) => OnTheWay(l, e)'
  PROVE  ToCome(e)'
<1>1. PICK m \in Linkers : OnTheWay(m, e)
  BY DEF ToCome
<1>2. CASE m = l
  BY <1>1, <1>2 DEF ToCome
<1>3. CASE m # l
  <2>1. linker'[m] = linker[m]
    BY <1>3, Moved
  <2>2. OnTheWay(m, e)'
    BY <1>1, <2>1, SameWay
  <2>3. QED BY <2>2 DEF ToCome
<1>4. QED BY <1>2, <1>3

\* Who is idle, or still creating a person, has nothing on the way.
LEMMA NothingOnTheWay ==
  ASSUME NEW l \in Linkers, linker[l].pc \in {"idle", "creating"}, NEW e \in Events
  PROVE  ~ OnTheWay(l, e)
<1>1. Kind[e] \in Tables
  BY PeopleAssumption DEF Tables
<1>2. QED BY <1>1 DEF OnTheWay, Tables

\* Notes about other rows keep a row on its way.
LEMMA NotedWay ==
  ASSUME TypeOK, NEW some, NEW m \in Linkers, linker'[m] = Overtake(some)[m],
         NEW e \in Events, e \notin some, OnTheWay(m, e)
  PROVE  OnTheWay(m, e)'
<1>1. linker'[m].pc = linker[m].pc
  BY OvertakeNotes
<1>2. Kind[e] \in Tables
  BY PeopleAssumption DEF Tables
<1>3. linker[m].pc = Kind[e] =>
        /\ linker'[m].found = linker[m].found
        /\ e \in linker'[m].changed => e \in linker[m].changed
  BY <1>2, OvertakeNotes
<1>4. QED BY <1>1, <1>3, SameWay

\* After a link is written, the rows of its name are excused or have somebody on the
\* way; the others are as they were.
LEMMA LinkedFollows ==
  ASSUME TypeOK, FollowInv, NEW l \in Linkers, NEW k \in Rows, NEW p \in Persons, NEW to \in Places,
         LinkIdentityToPerson(k, p), linker[l].pc \in {"idle", "creating"},
         linker' = [Overtake(EventsOf(k)) EXCEPT ![l] = to], UNCHANGED event,
         excused \subseteq excused',
         EventsOf(k) \subseteq excused' \/ to.pc = "linked"
  PROVE  FollowInv'
<1>1. /\ linker'[l] = to
      /\ \A m \in Linkers : m # l => linker'[m] = Overtake(EventsOf(k))[m]
      /\ \A m \in Linkers : linker'[m].pc \in Tables => m # l /\ linker[m].pc \in Tables
  <2> DEFINE some == EventsOf(k)
  <2>1. linker' = [Overtake(some) EXCEPT ![l] = to]
    OBVIOUS
  <2> HIDE DEF some
  <2>2. /\ LinkersOK' /\ linker'[l] = to
        /\ \A m \in Linkers : m # l => linker'[m] = Overtake(some)[m]
        /\ \A m \in Linkers : linker'[m].pc \in Tables =>
             m # l /\ linker[m].pc \in Tables /\ Writes(m)' = Writes(m)
    BY <2>1, NotedAndMoved
  <2>3. QED BY <2>2 DEF some
<1>2. /\ \A j \in Keys : j # k => identity'[j] = identity[j]
      /\ Rows' = Rows
  BY LinkWrites
<1>3. \A e \in Events : KeyOf(e)' = KeyOf(e)
  BY DEF KeyOf
<1>4. FindingsFresh'
  <2>1. \A m \in Linkers : linker'[m].pc \in Tables =>
          /\ linker[m].pc \in Tables /\ linker'[m].found = linker[m].found
          /\ linker'[m].changed = linker[m].changed \cup (Writes(m) \cap EventsOf(k))
    BY <1>1, OvertakeNotes
  <2>2. ASSUME NEW e \in Events, e \in Stored, e \notin EventsOf(k), KeyOf(e) \in Rows
        PROVE  KeyOf(e) \in Rows' /\ identity'[KeyOf(e)].person = identity[KeyOf(e)].person
    BY <1>2, <2>2 DEF EventsOf, Rows
  <2>3. QED BY <1>3, <2>1, <2>2, NotedFresh DEF FollowInv
<1>5. ASSUME NEW e \in Events, Behind(e)'
      PROVE  e \in excused' \/ ToCome(e)'
  <2>1. CASE e \in EventsOf(k)
    BY <1>1, <2>1 DEF ToCome, OnTheWay
  <2>2. CASE e \notin EventsOf(k)
    <3>1. e \in Stored /\ KeyOf(e) \in Rows
      BY <1>2, <1>3, <1>5 DEF Behind, Stored
    <3>2. KeyOf(e) # k /\ KeyOf(e) \in Keys
      BY <2>2, <3>1 DEF EventsOf, Rows
    <3>3. Behind(e)
      BY <1>2, <1>3, <1>5, <3>1, <3>2 DEF Behind
    <3>4. e \in excused \/ ToCome(e)
      BY <3>3 DEF FollowInv, RowsFollowLinks, ToCome
    <3>5. ASSUME NEW m \in Linkers, OnTheWay(m, e)
          PROVE  ToCome(e)'
      <4>1. m # l
        BY <3>5, NothingOnTheWay
      <4>2. OnTheWay(m, e)'
        BY <1>1, <2>2, <3>5, <4>1, NotedWay
      <4>3. QED BY <4>2 DEF ToCome
    <3>6. QED BY <3>4, <3>5 DEF ToCome
  <2>3. QED BY <2>1, <2>2
<1>6. QED BY <1>4, <1>5 DEF FollowInv, RowsFollowLinks, ToCome

\* A caller moves, and neither rows nor links change: what is behind was behind, and
\* whoever lets a row down excuses it.
LEMMA MovedFollows ==
  ASSUME TypeOK, FollowInv, NEW l \in Linkers, NEW to \in Places, linker' = [linker EXCEPT ![l] = to],
         UNCHANGED <<identity, event>>, excused \subseteq excused',
         \A e \in Stored : OnTheWay(l, e) => e \in excused' \/ OnTheWay(l, e)'
  PROVE  FollowInv'
<1>1. FindingsFresh'
  <2>1. \A m \in Linkers : linker'[m].pc \in Tables => linker'[m] = linker[m]
    BY Moved
  <2>2. QED BY <2>1, QuietFresh DEF FollowInv
<1>2. ASSUME NEW e \in Events, Behind(e)'
      PROVE  e \in excused' \/ ToCome(e)'
  <2>1. Behind(e) /\ e \in Stored
    BY <1>2 DEF Behind, KeyOf, Rows, Stored
  <2>2. e \in excused \/ ToCome(e)
    BY <2>1 DEF FollowInv, RowsFollowLinks, ToCome
  <2>3. QED BY <2>1, <2>2, OneMoved
<1>3. QED BY <1>1, <1>2 DEF FollowInv, RowsFollowLinks, ToCome

\* No row stays behind its link without a propagation to come or an excuse.
LEMMA FollowNext ==
  ASSUME TypeOK, FollowInv, [Next]_vars PROVE FollowInv'
<1>1. ASSUME NEW f \in Events, NEW t \in Tenants, NEW n \in Names, StoreEvent(f, t, n)
      PROVE  FollowInv'
  <2>1. /\ event[f] = NoEvent /\ excused' = excused \cup {f}
        /\ \A e \in Events : e # f => event'[e] = event[e]
        /\ UNCHANGED <<identity, linker>>
    BY <1>1 DEF StoreEvent, TypeOK
  <2>2. FindingsFresh'
    <3>1. \A e \in Events : e \in Stored => event'[e] = event[e]
      BY <2>1 DEF Stored
    <3>2. QED BY <2>1, <3>1, QuietFresh DEF FollowInv
  <2>3. ASSUME NEW e \in Events, Behind(e)' PROVE e \in excused' \/ ToCome(e)'
    <3>1. CASE e = f
      BY <2>1, <3>1
    <3>2. CASE e # f
      BY <2>1, <2>3, <3>2 DEF Behind, KeyOf, Stored, Rows, FollowInv, RowsFollowLinks, ToCome, OnTheWay, Writes
    <3>3. QED BY <3>1, <3>2
  <2>4. QED BY <2>2, <2>3 DEF FollowInv, RowsFollowLinks, ToCome
<1>2. ASSUME NEW f \in Events, NEW n \in Names, UpsertMergeRequest(f, n)
      PROVE  FollowInv'
  <2>1. /\ excused' = excused \cup {f} /\ linker' = Overtake({f}) /\ identity' = identity
        /\ \A e \in Events : e # f => event'[e] = event[e]
    BY <1>2 DEF UpsertMergeRequest, TypeOK
  <2>2. FindingsFresh'
    <3>1. \A m \in Linkers : linker'[m].pc \in Tables =>
            /\ linker[m].pc \in Tables /\ linker'[m].found = linker[m].found
            /\ linker'[m].changed = linker[m].changed \cup (Writes(m) \cap {f})
      BY <2>1, OvertakeNotes
    <3>2. \A e \in Events : e \in Stored /\ e \notin {f} =>
           /\ KeyOf(e)' = KeyOf(e)
           /\ KeyOf(e) \in Rows =>
                KeyOf(e) \in Rows' /\ identity'[KeyOf(e)].person = identity[KeyOf(e)].person
      BY <2>1 DEF KeyOf, Rows
    <3>3. QED BY <3>1, <3>2, NotedFresh DEF FollowInv
  <2>3. ASSUME NEW e \in Events, Behind(e)' PROVE e \in excused' \/ ToCome(e)'
    <3>1. CASE e = f
      BY <2>1, <3>1
    <3>2. CASE e # f
      <4>1. Behind(e)
        BY <2>1, <2>3, <3>2 DEF Behind, KeyOf, Stored, Rows
      <4>2. e \in excused \/ ToCome(e)
        BY <4>1 DEF FollowInv, RowsFollowLinks, ToCome
      <4>3. \A m \in Linkers : OnTheWay(m, e) => OnTheWay(m, e)'
        BY <2>1, <3>2, NotedWay
      <4>4. QED BY <2>1, <4>2, <4>3 DEF ToCome
    <3>3. QED BY <3>1, <3>2
  <2>4. QED BY <2>2, <2>3 DEF FollowInv, RowsFollowLinks, ToCome
<1>3. ASSUME NEW t \in Tenants, NEW n \in Names, Backfill(t, n)
      PROVE  FollowInv'
  <2> DEFINE k == <<t, "gitlab", n>>
  <2>1. /\ k \in Keys \ Rows /\ Rows' = Rows \cup {k}
        /\ \A j \in Rows : identity'[j] = identity[j]
        /\ identity' = [identity EXCEPT ![k] = [person |-> Nobody]]
    BY <1>3, BackfillWrites
  <2>2. UNCHANGED <<event, linker, excused>>
    BY <1>3 DEF Backfill
  <2>3. FindingsFresh'
    <3>1. \A m \in Linkers : Writes(m)' = Writes(m)
      BY <2>2 DEF Writes
    <3>2. \A e \in Events : KeyOf(e)' = KeyOf(e)
      BY <2>2 DEF KeyOf
    <3>3. QED BY <2>1, <2>2, <3>1, <3>2 DEF FollowInv, FindingsFresh, Writes
  <2>4. ASSUME NEW e \in Events, Behind(e)' PROVE e \in excused' \/ ToCome(e)'
    <3>1. e \in Stored /\ KeyOf(e) \in Rows' /\ identity'[KeyOf(e)].person \notin {Nobody, event[e].person}
      BY <2>2, <2>4 DEF Behind, KeyOf, Stored
    <3>2. KeyOf(e) \in Rows
      <4>1. identity'[k].person = Nobody
        BY <2>1 DEF TypeOK
      <4>2. QED BY <2>1, <3>1, <4>1
    <3>3. Behind(e)
      BY <2>1, <3>1, <3>2 DEF Behind
    <3>4. QED BY <2>2, <3>3 DEF FollowInv, RowsFollowLinks, ToCome, OnTheWay, Writes
  <2>5. QED BY <2>3, <2>4 DEF FollowInv, RowsFollowLinks, ToCome
<1>4. ASSUME NEW l \in Linkers, NEW p \in Persons, NEW t \in Tenants, NEW some \in SUBSET Rows,
             CreatePerson(l, p, t, some)
      PROVE  FollowInv'
  <2> DEFINE to == IF some = {} THEN Idle ELSE [pc |-> "creating", person |-> p, todo |-> some]
  <2>1. to \in Places
    BY DEF Places, Idle, Rows
  <2>2. /\ linker' = [linker EXCEPT ![l] = to] /\ linker[l] = Idle
        /\ UNCHANGED <<identity, event, excused>>
    BY <1>4 DEF CreatePerson
  <2>3. linker[l].pc = "idle"
    BY <2>2 DEF Idle
  <2> HIDE DEF to
  <2>4. QED BY <2>1, <2>2, <2>3, NothingOnTheWay, MovedFollows DEF Stored
<1>5. ASSUME NEW l \in Linkers, NEW k \in Keys, LinkOnCreate(l, k)
      PROVE  FollowInv'
  <2> DEFINE to == IF linker[l].todo = {k} THEN Idle ELSE [linker[l] EXCEPT !.todo = linker[l].todo \ {k}]
  <2>1. /\ linker[l] \in [pc : {"creating"}, person : Persons, todo : SUBSET Keys] /\ k \in Rows
    BY <1>5 DEF LinkOnCreate, TypeOK, Updates, Tables
  <2>2. to \in Places
    BY <2>1 DEF Places, Idle
  <2>3. /\ \/ /\ LinkIdentityToPerson(k, linker[l].person)
              /\ excused' = excused \cup EventsOf(k)
              /\ linker' = [Overtake(EventsOf(k)) EXCEPT ![l] = to]
           \/ linker' = [linker EXCEPT ![l] = to] /\ UNCHANGED <<identity, excused>>
        /\ UNCHANGED event
    BY <1>5 DEF LinkOnCreate
  <2> HIDE DEF to
  <2>4. linker[l].person \in Persons /\ linker[l].pc = "creating"
    BY <2>1
  <2>5. CASE /\ LinkIdentityToPerson(k, linker[l].person)
             /\ excused' = excused \cup EventsOf(k)
             /\ linker' = [Overtake(EventsOf(k)) EXCEPT ![l] = to]
    <3>1. excused \subseteq excused' /\ EventsOf(k) \subseteq excused'
      BY <2>5
    <3>2. QED BY <2>1, <2>2, <2>3, <2>4, <2>5, <3>1, LinkedFollows
  <2>6. CASE linker' = [linker EXCEPT ![l] = to] /\ UNCHANGED <<identity, excused>>
    BY <2>2, <2>3, <2>4, <2>6, NothingOnTheWay, MovedFollows DEF Stored
  <2>7. QED BY <2>3, <2>5, <2>6
<1>6. ASSUME NEW l \in Linkers, NEW k \in Keys, NEW p \in Persons, LinkIdentity(l, k, p)
      PROVE  FollowInv'
  <2> DEFINE to == [pc |-> "linked"]
  <2>1. /\ k \in Rows /\ LinkIdentityToPerson(k, p)
        /\ linker' = [Overtake(EventsOf(k)) EXCEPT ![l] = to]
        /\ UNCHANGED <<event, excused>> /\ linker[l].pc = "idle"
    BY <1>6 DEF LinkIdentity, Rows, Idle
  <2>2. to \in Places /\ to.pc = "linked"
    BY DEF Places
  <2> HIDE DEF to
  <2>3. QED BY <2>1, <2>2, LinkedFollows
<1>7. ASSUME NEW l \in Linkers, PeoplePropagate(l)
      PROVE  FollowInv'
  <2> DEFINE to == [pc |-> "linked"]
  <2>1. /\ linker' = [linker EXCEPT ![l] = to] /\ linker[l].pc = "idle"
        /\ UNCHANGED <<identity, event, excused>>
    BY <1>7 DEF PeoplePropagate, Idle
  <2>2. to \in Places
    BY DEF Places
  <2> HIDE DEF to
  <2>3. QED BY <2>1, <2>2, NothingOnTheWay, MovedFollows DEF Stored

<1>8. ASSUME NEW l \in Linkers, StartUpdate(l)
      PROVE  FollowInv'
  <2> DEFINE table == IF linker[l].pc = "linked" THEN "mr" ELSE "deployment"
             to == [pc |-> table, found |-> Found(table), changed |-> {}]
  <2>1. /\ linker[l].pc \in {"linked", "half"} /\ linker' = [linker EXCEPT ![l] = to]
        /\ UNCHANGED <<identity, event, excused>>
    BY <1>8 DEF StartUpdate
  <2>2. table \in Tables
    BY DEF Tables
  <2>3. linker'[l] = to /\ \A m \in Linkers : m # l => linker'[m] = linker[m]
    BY <2>1 DEF TypeOK
  <2>4. Rows' = Rows /\ \A e \in Events : KeyOf(e)' = KeyOf(e)
    BY <2>1 DEF Rows, KeyOf
  <2>5. \A e \in Writes(l)' : e \in Events /\ KeyOf(e) \in Rows /\ Found(table)[e] = identity[KeyOf(e)].person
    BY <2>2, <2>3, FoundIsLink DEF Writes
  <2>6. FindingsFresh'
    <3> SUFFICES ASSUME NEW m \in Linkers, linker'[m].pc \in Tables,
                        NEW e \in Writes(m)', e \notin linker'[m].changed
                 PROVE  /\ KeyOf(e)' \in Rows'
                        /\ linker'[m].found[e] = identity'[KeyOf(e)'].person
      BY DEF FindingsFresh, KeyOf
    <3>1. CASE m = l
      BY <2>1, <2>3, <2>4, <2>5, <3>1 DEF Writes
    <3>2. CASE m # l
      <4>1. e \in Events /\ e \in Writes(m) /\ linker'[m] = linker[m]
        BY <2>3, <3>2 DEF Writes
      <4>2. KeyOf(e) \in Rows /\ linker[m].found[e] = identity[KeyOf(e)].person
        BY <4>1 DEF FollowInv, FindingsFresh
      <4>3. QED BY <2>1, <2>4, <4>1, <4>2
    <3>3. QED BY <3>1, <3>2
  <2>7. ASSUME NEW e \in Events, Behind(e)' PROVE e \in excused' \/ ToCome(e)'
    <3>1. Behind(e)
      BY <2>1, <2>4, <2>7 DEF Behind, Stored
    <3>2. e \in excused \/ ToCome(e)
      BY <3>1 DEF FollowInv, RowsFollowLinks, ToCome
    <3>3. ASSUME NEW m \in Linkers, OnTheWay(m, e) PROVE ToCome(e)'
      <4>1. CASE m = l /\ Kind[e] = table
        <5>1. Found(table)[e] # Nobody
          BY <2>2, <3>1, <4>1, FoundIsLink
        <5>2. e \in Writes(l)' /\ e \notin linker'[l].changed /\ linker'[l].pc = Kind[e]
          BY <2>3, <4>1, <5>1 DEF Writes
        <5>3. OnTheWay(l, e)'
          BY <5>2 DEF OnTheWay
        <5>4. QED BY <5>3 DEF ToCome
      <4>2. CASE m = l /\ Kind[e] # table
        <5>1. Kind[e] \in Tables
          BY PeopleAssumption DEF Tables
        <5>2. Kind[e] = "deployment" /\ table = "mr"
          BY <2>1, <3>3, <4>2, <5>1 DEF OnTheWay, Tables
        <5>3. linker'[l].pc = "mr"
          BY <2>3, <5>2
        <5>4. OnTheWay(l, e)'
          BY <5>2, <5>3 DEF OnTheWay
        <5>5. QED BY <5>4 DEF ToCome
      <4>3. CASE m # l
        <5>1. linker'[m] = linker[m]
          BY <2>3, <4>3
        <5>2. OnTheWay(m, e)'
          BY <3>3, <5>1, SameWay
        <5>3. QED BY <5>2 DEF ToCome
      <4>4. QED BY <4>1, <4>2, <4>3
    <3>4. QED BY <2>1, <3>2, <3>3 DEF ToCome
  <2>8. QED BY <2>6, <2>7 DEF FollowInv, RowsFollowLinks, ToCome
<1>9. ASSUME NEW l \in Linkers, CommitUpdate(l)
      PROVE  FollowInv'
  <2>1. /\ AfterUpdate(l) \in Places /\ Stored' = Stored
        /\ \A e \in Events :
              /\ e \notin Writes(l) => event'[e] = event[e]
              /\ e \in Writes(l) =>
                   /\ event'[e].person = linker[l].found[e]
                   /\ event'[e].tenant = event[e].tenant /\ event'[e].name = event[e].name
    BY <1>9, CommitWrites
  <2>2. /\ linker[l].pc \in Tables /\ linker' = [linker EXCEPT ![l] = AfterUpdate(l)]
        /\ excused' = (excused \ Writes(l)) \cup linker[l].changed
        /\ identity' = identity
    BY <1>9 DEF CommitUpdate
  <2>3. Rows' = Rows /\ \A e \in Events : KeyOf(e)' = KeyOf(e)
    BY <2>1, <2>2 DEF Rows, KeyOf
  <2>4. FindingsFresh'
    <3>1. \A m \in Linkers : linker'[m].pc \in Tables => linker'[m] = linker[m]
      BY <2>1, <2>2, Moved
    <3> SUFFICES ASSUME NEW m \in Linkers, linker'[m].pc \in Tables,
                        NEW e \in Writes(m)', e \notin linker'[m].changed
                 PROVE  /\ KeyOf(e)' \in Rows'
                        /\ linker'[m].found[e] = identity'[KeyOf(e)'].person
      BY DEF FindingsFresh, KeyOf
    <3>2. linker'[m] = linker[m] /\ e \in Writes(m) /\ e \in Events
      BY <3>1 DEF Writes
    <3>3. KeyOf(e) \in Rows /\ linker[m].found[e] = identity[KeyOf(e)].person
      BY <3>2 DEF FollowInv, FindingsFresh
    <3>4. QED BY <2>2, <2>3, <3>2, <3>3
  <2>5. ASSUME NEW e \in Events, Behind(e)' PROVE e \in excused' \/ ToCome(e)'
    <3>1. CASE e \in Writes(l) /\ e \notin linker[l].changed
      <4>1. identity[KeyOf(e)].person = linker[l].found[e]
        BY <2>2, <3>1 DEF FollowInv, FindingsFresh
      <4>2. event'[e].person = identity'[KeyOf(e)'].person
        BY <2>1, <2>2, <2>3, <3>1, <4>1
      <4>3. QED BY <2>5, <4>2 DEF Behind
    <3>2. CASE e \in linker[l].changed
      BY <2>2, <3>2
    <3>3. CASE e \notin Writes(l)
      <4>1. Behind(e)
        BY <2>1, <2>2, <2>3, <2>5, <3>3 DEF Behind
      <4>2. e \in excused \/ ToCome(e)
        BY <4>1 DEF FollowInv, RowsFollowLinks, ToCome
      <4>3. OnTheWay(l, e) => OnTheWay(l, e)'
        <5>1. ASSUME OnTheWay(l, e) PROVE linker[l].pc = "mr" /\ Kind[e] = "deployment"
          BY <2>2, <3>3, <5>1 DEF OnTheWay, Tables
        <5>2. linker'[l] = AfterUpdate(l)
          BY <2>2 DEF TypeOK
        <5>3. QED BY <5>1, <5>2 DEF OnTheWay, AfterUpdate
      <4>4. QED BY <2>1, <2>2, <3>3, <4>2, <4>3, OneMoved
    <3>4. QED BY <3>1, <3>2, <3>3
  <2>6. QED BY <2>4, <2>5 DEF FollowInv, RowsFollowLinks, ToCome
<1>10. ASSUME NEW l \in Linkers, FailUpdate(l)
       PROVE  FollowInv'
  <2>1. /\ linker[l].pc \in Tables /\ linker' = [linker EXCEPT ![l] = AfterUpdate(l)]
        /\ excused' = excused \cup Writes(l) /\ UNCHANGED <<identity, event>>
    BY <1>10 DEF FailUpdate
  <2>2. AfterUpdate(l) \in Places
    BY DEF AfterUpdate, Places, Idle
  <2>3. linker'[l] = AfterUpdate(l)
    BY <2>1 DEF TypeOK
  <2>4. ASSUME NEW e \in Stored, OnTheWay(l, e), e \notin Writes(l) PROVE OnTheWay(l, e)'
    <3>1. linker[l].pc = "mr" /\ Kind[e] = "deployment"
      BY <2>1, <2>4 DEF OnTheWay, Tables
    <3>2. QED BY <2>3, <3>1 DEF OnTheWay, AfterUpdate
  <2>5. QED BY <2>1, <2>2, <2>4, MovedFollows
<1>11. ASSUME NEW l \in Linkers, LinkerDies(l)
       PROVE  FollowInv'
  <2>1. /\ linker' = [linker EXCEPT ![l] = Idle] /\ UNCHANGED <<identity, event>>
        /\ excused' = excused \cup {e \in Stored : OnTheWay(l, e)}
    BY <1>11 DEF LinkerDies
  <2>2. Idle \in Places
    BY DEF Idle, Places
  <2>3. QED BY <2>1, <2>2, MovedFollows
<1>12. CASE UNCHANGED vars
  <2>1. FindingsFresh'
    BY <1>12, QuietFresh DEF vars, FollowInv
  <2>2. RowsFollowLinks'
    BY <1>12 DEF vars, FollowInv, RowsFollowLinks, Behind, KeyOf, Stored, Rows, OnTheWay, Writes
  <2>3. QED BY <2>1, <2>2 DEF FollowInv
<1>13. QED
  BY <1>1, <1>2, <1>3, <1>4, <1>5, <1>6, <1>7, <1>8, <1>9, <1>10, <1>11, <1>12 DEF Next

\* Whenever an UPDATE reads the links and whenever it commits, a row of a merge request
\* or deployment whose person is not that of its identity's link is still to be written
\* with it; or it was stored, renamed or linked with a new person by a caller that
\* propagates nothing, a propagation failed, or it was written last by one that had
\* started before its link or name was changed.
THEOREM RowsFollow == Spec => []RowsFollowLinks
<1>1. Init => FollowInv
  <2> SUFFICES ASSUME Init PROVE FollowInv
    OBVIOUS
  <2>1. Stored = {}
    BY DEF Init, Stored
  <2>2. \A l \in Linkers : linker[l].pc \notin Tables
    BY DEF Init, Idle, Tables
  <2>3. QED BY <2>1, <2>2 DEF FollowInv, FindingsFresh, RowsFollowLinks, Behind
<1>2. TypeOK /\ FollowInv /\ [Next]_vars => FollowInv'
  BY FollowNext
<1>3. FollowInv => RowsFollowLinks
  BY DEF FollowInv
<1>4. QED BY <1>1, <1>2, <1>3, TypeCorrect, PTL DEF Spec
=============================================================================
