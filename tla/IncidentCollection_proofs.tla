--------------------- MODULE IncidentCollection_proofs ----------------------
(***************************************************************************)
(* Proofs about IncidentCollection, for every finite set of issues, every  *)
(* set of deployments and runs and every value of the times and bounds.    *)
(***************************************************************************)
EXTENDS IncidentCollection, FiniteSetTheorems, WellFoundedInduction, TLAPS

-----------------------------------------------------------------------------
(* The invariants.                                                          *)

\* Where a run has its listing, and where it still gets it.
Lists(q)  == q.pc \in {"mcp", "rest", "store", "find", "link"}
Asks(q)   == q.pc \in {"mcp", "rest"}
Stores(q) == q.pc \in {"store", "find", "link"}

Created(i)  == jira[i].created # NotYet
Finished(d) == deploy[d].finished

\* Deployments are stored once they finished; what has a row, a link or a place in
\* a listing exists in Jira, and a run knows deployments that are stored.
Known ==
  /\ \A d \in Deployments : deploy[d].stored => Finished(d) # NotYet
  /\ \A i \in Issues : link[i] # {} => Created(i)
  /\ \A i \in Issues : \A d \in link[i] : d \in Candidates(jira[i].created)
  /\ \A r \in Runs : Lists(run[r]) =>
       /\ \A i \in DOMAIN run[r].listed : Created(i)
       /\ \A i \in DOMAIN run[r].owes : Created(i)
       /\ \A d \in run[r].known : deploy[d].stored
  /\ \A r \in Runs : run[r].pc \in {"find", "link"} => Created(run[r].issue)
  /\ \A r \in Runs : run[r].pc = "link" => run[r].found \in Candidates(jira[run[r].issue].created)

\* The deployments linked, and the ones about to be, are the latest there are.
Blamed ==
  \A i \in Issues \ late :
    /\ \A d \in link[i] : d \in Chosen(Candidates(jira[i].created))
    /\ \A r \in Runs : run[r].pc = "link" /\ run[r].issue = i =>
         run[r].found \in Chosen(Candidates(jira[i].created))

\* What is found is no earlier than any deployment the run knew.
AsLate(q, d) == \A c \in q.known \cap Candidates(jira[q.issue].created) : Finished(d) >= Finished(c)

\* The issue has a link no earlier than any deployment the run knew.
Linked(q, i) ==
  \A c \in q.known \cap Candidates(jira[i].created) : \E d \in link[i] : Finished(d) >= Finished(c)

\* What a run owes it is about to list, has listed, is at work on, or has linked.
Owing ==
  \A r \in Runs :
    /\ Asks(run[r]) => \A i \in DOMAIN run[r].owes : jira[i].created >= run[r].since
    /\ run[r].pc = "mcp" => DOMAIN run[r].listed = {}
    /\ Stores(run[r]) => \A i \in DOMAIN run[r].owes :
         \/ i \in DOMAIN run[r].listed
         \/ run[r].pc \in {"find", "link"} /\ run[r].issue = i
         \/ Linked(run[r], i)
    /\ run[r].pc = "link" => AsLate(run[r], run[r].found)

\* Unless two runs overlap there is one; what it listed, and what it stored, is as
\* new as the issue was when it began.
Single ==
  /\ ~overlapped => \A r, s \in Running : r = s
  /\ \A r \in Runs : Lists(run[r]) => \A i \in DOMAIN run[r].owes :
       /\ jira[i].version >= run[r].owes[i]
       /\ i \in DOMAIN run[r].listed => run[r].listed[i] >= run[r].owes[i]
       /\ Stores(run[r]) /\ ~overlapped =>
            i \in DOMAIN run[r].listed \/ incident[i] >= run[r].owes[i]

Collected == Known /\ Blamed /\ Owing /\ Single

-----------------------------------------------------------------------------
(* Facts about the records.                                                 *)

\* The times and bounds are naturals.
LEMMA Bounds ==
  /\ Lookback \in Nat /\ Window \in Nat /\ MaxTime \in Nat /\ MaxChanges \in Nat
  /\ MaxFaults \in Nat /\ PageSize \in Nat \ {0} /\ IsFiniteSet(Issues)
  BY IncidentAssumption

\* A listing shows some issues, each in a version.
LEMMA ListingType ==
  /\ \A f \in Listings : DOMAIN f \subseteq Issues /\ \A i \in DOMAIN f : f[i] \in 0..MaxChanges
  /\ \A I \in SUBSET Issues : [I -> 0..MaxChanges] \subseteq Listings
  BY DEF Listings

\* Cut down to some issues, a listing shows them as before.
LEMMA CutDomain ==
  ASSUME NEW f, NEW I
  PROVE  DOMAIN Restrict(f, I) = I /\ \A i \in I : Restrict(f, I)[i] = f[i]
  BY DEF Restrict

\* A listing cut down is a listing.
LEMMA CutListing ==
  ASSUME NEW f \in Listings, NEW I
  PROVE  /\ Restrict(f, DOMAIN f \cap I) \in Listings
         /\ Restrict(f, DOMAIN f \ I) \in Listings
         /\ DOMAIN Restrict(f, DOMAIN f \cap I) = DOMAIN f \cap I
         /\ DOMAIN Restrict(f, DOMAIN f \ I) = DOMAIN f \ I
         /\ \A i \in DOMAIN f \cap I : Restrict(f, DOMAIN f \cap I)[i] = f[i]
         /\ \A i \in DOMAIN f \ I : Restrict(f, DOMAIN f \ I)[i] = f[i]
<1>1. DOMAIN f \subseteq Issues /\ \A i \in DOMAIN f : f[i] \in 0..MaxChanges
  BY ListingType
<1>2. /\ Restrict(f, DOMAIN f \cap I) \in [DOMAIN f \cap I -> 0..MaxChanges]
      /\ Restrict(f, DOMAIN f \ I) \in [DOMAIN f \ I -> 0..MaxChanges]
  BY <1>1 DEF Restrict
<1>3. DOMAIN f \cap I \in SUBSET Issues /\ DOMAIN f \ I \in SUBSET Issues
  BY <1>1
<1>4. QED BY <1>2, <1>3, ListingType DEF Restrict

\* Where a run is tells what it holds.
LEMMA RunShape ==
  ASSUME TypeOK, NEW r \in Runs
  PROVE  /\ run[r] = Idle \/ run[r].pc \in {"mcp", "rest", "store", "find", "link"}
         /\ Asks(run[r]) => run[r] \in Search
         /\ run[r].pc = "find" => run[r] \in Lookup
         /\ run[r].pc = "link" => run[r] \in Linking
         /\ run[r].pc = "store" => run[r] \in Search \cup Lookup \cup Linking
         /\ Lists(run[r]) => /\ run[r] # Idle
                             /\ run[r].listed \in Listings /\ run[r].owes \in Listings
                             /\ run[r].known \subseteq Deployments
<1>1. run[r] \in {Idle} \cup Search \cup Lookup \cup Linking
  BY DEF TypeOK
<1>2. Idle.pc = "idle"
  BY DEF Idle
<1>3. \A q \in Search : /\ q.pc \in {"mcp", "rest", "store"}
                        /\ q.listed \in Listings /\ q.owes \in Listings /\ q.known \subseteq Deployments
  BY DEF Search
<1>4. \A q \in Lookup : /\ q.pc \in {"find", "store"}
                        /\ q.listed \in Listings /\ q.owes \in Listings /\ q.known \subseteq Deployments
  BY DEF Lookup
<1>5. \A q \in Linking : /\ q.pc \in {"link", "store"}
                         /\ q.listed \in Listings /\ q.owes \in Listings /\ q.known \subseteq Deployments
  BY DEF Linking
<1>6. QED BY <1>1, <1>2, <1>3, <1>4, <1>5 DEF Asks, Lists

\* A run that changes changes to one of its kinds.
LEMMA RunType ==
  ASSUME TypeOK, NEW r \in Runs, NEW q \in {Idle} \cup Search \cup Lookup \cup Linking,
         run' = [run EXCEPT ![r] = q]
  PROVE  /\ run' \in [Runs -> {Idle} \cup Search \cup Lookup \cup Linking]
         /\ \A s \in Runs : run'[s] = IF s = r THEN q ELSE run[s]
  BY DEF TypeOK

-----------------------------------------------------------------------------
(* The steps of a run.                                                      *)

\* What a page adds: its issues as they are now.
Paged(q, P) == [i \in DOMAIN q.listed \cup P |-> IF i \in P THEN jira[i].version ELSE q.listed[i]]

LEMMA StepUseFallback ==
  ASSUME TypeOK, NEW r \in Runs, UseFallback(r)
  PROVE  \E q \in Search :
           /\ run[r].pc = "mcp" /\ q.pc = "rest" /\ q.since = run[r].since
           /\ q.listed = run[r].listed /\ q.owes = run[r].owes /\ q.known = run[r].known
           /\ run' = [run EXCEPT ![r] = q]
           /\ UNCHANGED <<world, rows, hist>> /\ faults' \in 0..MaxFaults
<1> DEFINE q == [run[r] EXCEPT !.pc = "rest"]
<1>1. run[r] \in Search /\ run[r].pc = "mcp"
  BY RunShape DEF UseFallback, Asks
<1>2. q \in Search /\ q.pc = "rest" /\ q.since = run[r].since
      /\ q.listed = run[r].listed /\ q.owes = run[r].owes /\ q.known = run[r].known
  BY <1>1 DEF Search
<1>3. run' = [run EXCEPT ![r] = q] /\ UNCHANGED <<world, rows, hist>>
  BY DEF UseFallback
<1>4. faults' \in 0..MaxFaults
  BY Bounds DEF UseFallback, Fault, TypeOK
<1> HIDE DEF q
<1>5. QED BY <1>1, <1>2, <1>3, <1>4

LEMMA StepSearchByMCP ==
  ASSUME TypeOK, NEW r \in Runs, SearchByMCP(r)
  PROVE  \E q \in Search, I \in SUBSET Matching(run[r].since) :
           /\ run[r].pc = "mcp" /\ q.pc = "store"
           /\ q.owes = Restrict(run[r].owes, DOMAIN run[r].owes \cap I)
           /\ q.listed = [i \in I |-> jira[i].version] /\ q.known = run[r].known
           /\ run' = [run EXCEPT ![r] = q]
           /\ UNCHANGED <<world, rows, hist, faults>>
<1>1. run[r] \in Search /\ run[r].pc = "mcp"
  BY RunShape DEF SearchByMCP, Asks
<1>2. PICK I \in SUBSET Matching(run[r].since) :
        run' = [run EXCEPT ![r] =
          [run[r] EXCEPT !.pc = "store",
                         !.owes = Restrict(run[r].owes, DOMAIN run[r].owes \cap I),
                         !.listed = [i \in I |-> jira[i].version]]]
  BY DEF SearchByMCP, ToolAnswers
<1> DEFINE owes == Restrict(run[r].owes, DOMAIN run[r].owes \cap I)
           listed == [i \in I |-> jira[i].version]
           q == [run[r] EXCEPT !.pc = "store", !.owes = owes, !.listed = listed]
<1>3. owes \in Listings
  BY <1>1, CutListing DEF Search
<1>4. listed \in Listings
  <2>1. I \in SUBSET Issues
    BY DEF Matching
  <2>2. listed \in [I -> 0..MaxChanges]
    BY <2>1 DEF TypeOK
  <2>3. QED BY <2>1, <2>2, ListingType
<1>5. run' = [run EXCEPT ![r] = q]
  BY <1>2
<1>6. UNCHANGED <<world, rows, hist, faults>>
  BY DEF SearchByMCP
<1> HIDE DEF owes, listed
<1>7. q \in Search /\ q.pc = "store" /\ q.owes = owes /\ q.listed = listed /\ q.known = run[r].known
  BY <1>1, <1>3, <1>4 DEF Search
<1> HIDE DEF q
<1>8. QED BY <1>1, <1>5, <1>6, <1>7 DEF owes, listed

LEMMA StepSearchPage ==
  ASSUME TypeOK, NEW r \in Runs, SearchPage(r)
  PROVE  \E q \in Search, P \in NextPages(r) :
           /\ run[r].pc = "rest" /\ q.pc = IF HasNextPage(r, P) THEN "rest" ELSE "store"
           /\ q.since = run[r].since /\ q.owes = run[r].owes /\ q.known = run[r].known
           /\ q.listed = Paged(run[r], P)
           /\ run' = [run EXCEPT ![r] = q]
           /\ UNCHANGED <<world, rows, hist, faults>>
<1>1. run[r] \in Search /\ run[r].pc = "rest"
  BY RunShape DEF SearchPage, Asks
<1>2. PICK P \in NextPages(r) :
        run' = [run EXCEPT ![r] =
          [run[r] EXCEPT !.pc = IF HasNextPage(r, P) THEN "rest" ELSE "store",
                         !.listed = Paged(run[r], P)]]
  BY DEF SearchPage, Paged
<1> DEFINE pc == IF HasNextPage(r, P) THEN "rest" ELSE "store"
           q == [run[r] EXCEPT !.pc = pc, !.listed = Paged(run[r], P)]
<1>3. Paged(run[r], P) \in Listings
  <2>1. P \subseteq Issues
    BY DEF NextPages, Matching
  <2>2. run[r].listed \in Listings
    BY <1>1 DEF Search
  <2>3. DOMAIN run[r].listed \cup P \in SUBSET Issues
    BY <2>1, <2>2, ListingType
  <2>4. \A i \in DOMAIN run[r].listed : run[r].listed[i] \in 0..MaxChanges
    BY <2>2, ListingType
  <2>5. \A i \in P : jira[i].version \in 0..MaxChanges
    BY <2>1 DEF TypeOK
  <2>6. Paged(run[r], P) \in [DOMAIN run[r].listed \cup P -> 0..MaxChanges]
    BY <2>4, <2>5 DEF Paged
  <2>7. QED BY <2>3, <2>6, ListingType
<1>4. run' = [run EXCEPT ![r] = q] /\ pc \in {"rest", "store"}
  BY <1>2
<1>5. UNCHANGED <<world, rows, hist, faults>>
  BY DEF SearchPage
<1> HIDE DEF pc
<1>6. /\ q \in Search /\ q.pc = pc /\ q.since = run[r].since
      /\ q.owes = run[r].owes /\ q.known = run[r].known /\ q.listed = Paged(run[r], P)
  BY <1>1, <1>3, <1>4 DEF Search
<1> HIDE DEF q
<1>7. QED BY <1>1, <1>4, <1>5, <1>6 DEF pc

LEMMA StepStore ==
  ASSUME TypeOK, NEW r \in Runs, Store(r)
  PROVE  \E q \in Lookup, i \in Issues :
           /\ run[r].pc = "store" /\ i \in DOMAIN run[r].listed
           /\ q.pc = "find" /\ q.issue = i /\ q.owes = run[r].owes /\ q.known = run[r].known
           /\ q.listed = Restrict(run[r].listed, DOMAIN run[r].listed \ {i})
           /\ incident' = [incident EXCEPT ![i] = run[r].listed[i]]
           /\ run[r].listed[i] \in 0..MaxChanges
           /\ run' = [run EXCEPT ![r] = q]
           /\ UNCHANGED <<world, link, hist, faults>>
<1>1. run[r].pc = "store" /\ run[r].listed \in Listings /\ run[r].owes \in Listings
      /\ run[r].known \in SUBSET Deployments
  BY RunShape DEF Store, Lists
<1>2. PICK i \in DOMAIN run[r].listed :
        /\ incident' = [incident EXCEPT ![i] = run[r].listed[i]]
        /\ run' = [run EXCEPT ![r] =
             [pc |-> "find", issue |-> i, owes |-> run[r].owes, known |-> run[r].known,
              listed |-> Restrict(run[r].listed, DOMAIN run[r].listed \ {i})]]
  BY DEF Store, NextIssues, UpsertIncident
<1>3. i \in Issues /\ run[r].listed[i] \in 0..MaxChanges
  BY <1>1, ListingType
<1> DEFINE listed == Restrict(run[r].listed, DOMAIN run[r].listed \ {i})
           q == [pc |-> "find", issue |-> i, owes |-> run[r].owes, known |-> run[r].known,
                 listed |-> listed]
<1>4. listed \in Listings
  BY <1>1, CutListing
<1>5. UNCHANGED <<world, link, hist, faults>> /\ run' = [run EXCEPT ![r] = q]
  BY <1>2 DEF Store
<1> HIDE DEF listed
<1>6. /\ q \in Lookup /\ q.pc = "find" /\ q.issue = i /\ q.owes = run[r].owes
      /\ q.known = run[r].known /\ q.listed = listed
  BY <1>1, <1>3, <1>4 DEF Lookup
<1> HIDE DEF q
<1>7. QED BY <1>1, <1>2, <1>3, <1>5, <1>6 DEF listed

LEMMA StepFindDeployment ==
  ASSUME TypeOK, NEW r \in Runs, FindDeployment(r)
  PROVE  \E q \in Lookup \cup Linking :
           /\ run[r].pc = "find" /\ run[r].issue \in Issues
           /\ q.listed = run[r].listed /\ q.owes = run[r].owes /\ q.known = run[r].known
           /\ \/ /\ Chosen(Candidates(jira[run[r].issue].created)) = {}
                 /\ q.pc = "store"
              \/ /\ q \in Linking /\ q.pc = "link" /\ q.issue = run[r].issue
                 /\ q.found \in Chosen(Candidates(jira[run[r].issue].created))
           /\ run' = [run EXCEPT ![r] = q]
           /\ UNCHANGED <<world, rows, hist, faults>>
<1>1. run[r] \in Lookup /\ run[r].pc = "find"
  BY RunShape DEF FindDeployment
<1>2. UNCHANGED <<world, rows, hist, faults>>
  BY DEF FindDeployment
<1>3. CASE /\ Chosen(Candidates(jira[run[r].issue].created)) = {}
           /\ run' = [run EXCEPT ![r].pc = "store"]
  <2> DEFINE q == [run[r] EXCEPT !.pc = "store"]
  <2>1. /\ q \in Lookup /\ q.pc = "store" /\ run[r].issue \in Issues
        /\ q.listed = run[r].listed /\ q.owes = run[r].owes /\ q.known = run[r].known
    BY <1>1 DEF Lookup
  <2>2. run' = [run EXCEPT ![r] = q]
    BY <1>3
  <2> HIDE DEF q
  <2>3. QED BY <1>1, <1>2, <1>3, <2>1, <2>2
<1>4. ASSUME NEW d \in Chosen(Candidates(jira[run[r].issue].created)),
             run' = [run EXCEPT ![r] =
               [pc |-> "link", issue |-> run[r].issue, found |-> d, owes |-> run[r].owes,
                known |-> run[r].known, listed |-> run[r].listed]]
      PROVE  \E q \in Linking :
               /\ q.pc = "link" /\ q.issue = run[r].issue /\ q.found = d
               /\ q.listed = run[r].listed /\ q.owes = run[r].owes /\ q.known = run[r].known
               /\ run' = [run EXCEPT ![r] = q]
  <2> DEFINE q == [pc |-> "link", issue |-> run[r].issue, found |-> d, owes |-> run[r].owes,
                   known |-> run[r].known, listed |-> run[r].listed]
  <2>1. d \in Deployments
    BY DEF Chosen, Candidates
  <2>2. /\ q \in Linking /\ q.pc = "link" /\ q.issue = run[r].issue /\ q.found = d
        /\ q.listed = run[r].listed /\ q.owes = run[r].owes /\ q.known = run[r].known
    BY <1>1, <2>1 DEF Lookup, Linking
  <2>3. run' = [run EXCEPT ![r] = q]
    BY <1>4
  <2> HIDE DEF q
  <2>4. QED BY <2>2, <2>3
<1>5. run[r].issue \in Issues
  BY <1>1 DEF Lookup
<1>6. QED BY <1>1, <1>2, <1>3, <1>4, <1>5 DEF FindDeployment

LEMMA StepLink ==
  ASSUME TypeOK, NEW r \in Runs, Link(r)
  PROVE  \E q \in Linking :
           /\ run[r].pc = "link" /\ q.pc = "store"
           /\ run[r].issue \in Issues /\ run[r].found \in Deployments
           /\ q.listed = run[r].listed /\ q.owes = run[r].owes /\ q.known = run[r].known
           /\ link' = [link EXCEPT ![run[r].issue] = link[run[r].issue] \cup {run[r].found}]
           /\ run' = [run EXCEPT ![r] = q]
           /\ UNCHANGED <<world, incident, hist, faults>>
<1>1. run[r] \in Linking /\ run[r].pc = "link"
  BY RunShape DEF Link
<1> DEFINE q == [run[r] EXCEPT !.pc = "store"]
<1>2. /\ q \in Linking /\ q.pc = "store" /\ run[r].issue \in Issues /\ run[r].found \in Deployments
      /\ q.listed = run[r].listed /\ q.owes = run[r].owes /\ q.known = run[r].known
  BY <1>1 DEF Linking
<1>3. /\ run' = [run EXCEPT ![r] = q] /\ UNCHANGED <<world, incident, hist, faults>>
      /\ link' = [link EXCEPT ![run[r].issue] = link[run[r].issue] \cup {run[r].found}]
  BY DEF Link
<1> HIDE DEF q
<1>4. QED BY <1>1, <1>2, <1>3

LEMMA StepStart ==
  ASSUME TypeOK, NEW r \in Runs, NEW source \in {"mcp", "rest"}, Start(r, source)
  PROVE  \E q \in Search :
           /\ run[r] = Idle /\ q.pc = source /\ q.since = now - Window
           /\ DOMAIN q.listed = {} /\ DOMAIN q.owes = Matching(now - Window)
           /\ \A i \in Matching(now - Window) : q.owes[i] = jira[i].version
           /\ q.known = {d \in Deployments : deploy[d].stored}
           /\ run' = [run EXCEPT ![r] = q]
           /\ overlapped' = (overlapped \/ Running # {})
           /\ UNCHANGED <<world, rows, late, faults>>
<1> DEFINE none == [i \in {} |-> 0]
           owes == [i \in Matching(now - Window) |-> jira[i].version]
           known == {d \in Deployments : deploy[d].stored}
           q == [pc |-> source, since |-> now - Window, listed |-> none, owes |-> owes,
                 known |-> known]
<1>1. none \in Listings
  <2>1. none \in [{} -> 0..MaxChanges]
    OBVIOUS
  <2>2. QED BY <2>1, ListingType
<1>2. owes \in Listings
  <2>1. Matching(now - Window) \in SUBSET Issues
    BY DEF Matching
  <2>2. owes \in [Matching(now - Window) -> 0..MaxChanges]
    BY <2>1 DEF TypeOK
  <2>3. QED BY <2>1, <2>2, ListingType
<1>3. now - Window \in Int
  BY Bounds DEF TypeOK
<1>4. /\ run[r] = Idle /\ run' = [run EXCEPT ![r] = q]
      /\ overlapped' = (overlapped \/ Running # {})
      /\ UNCHANGED <<world, rows, late, faults>>
  BY DEF Start
<1>5. DOMAIN none = {} /\ DOMAIN owes = Matching(now - Window)
      /\ \A i \in Matching(now - Window) : owes[i] = jira[i].version
  OBVIOUS
<1> HIDE DEF none, owes
<1>6. /\ q \in Search /\ q.pc = source /\ q.since = now - Window /\ q.listed = none
      /\ q.owes = owes /\ q.known = known
  BY <1>1, <1>2, <1>3 DEF Search
<1> HIDE DEF q
<1>7. QED BY <1>4, <1>5, <1>6

-----------------------------------------------------------------------------
(* Types.                                                                   *)

LEMMA TypeInit == Init => TypeOK
<1> SUFFICES ASSUME Init PROVE TypeOK
  OBVIOUS
<1>1. /\ now \in 0..MaxTime /\ faults \in 0..MaxFaults
      /\ jira \in [Issues -> [created : NotYet..MaxTime, version : 0..MaxChanges]]
      /\ deploy \in [Deployments -> [finished : NotYet..MaxTime, stored : BOOLEAN]]
      /\ incident \in [Issues -> NotYet..MaxChanges]
  BY Bounds DEF Init, NotYet
<1>2. /\ link \in [Issues -> SUBSET Deployments]
      /\ run \in [Runs -> {Idle} \cup Search \cup Lookup \cup Linking]
      /\ late = {} /\ overlapped = FALSE
  BY DEF Init
<1>3. QED BY <1>1, <1>2 DEF TypeOK

LEMMA TypeCollect ==
  ASSUME TypeOK, NEW r \in Runs, Collect(r)
  PROVE  TypeOK'
<1>1. ASSUME NEW source \in {"mcp", "rest"}, Start(r, source) PROVE TypeOK'
  <2>1. overlapped' \in BOOLEAN
    BY <1>1 DEF Start, TypeOK
  <2>2. QED BY <1>1, <2>1, StepStart, RunType DEF TypeOK, world, rows
<1>2. CASE SearchByMCP(r)
  <2>1. PICK q \in Search : run' = [run EXCEPT ![r] = q] /\ UNCHANGED <<world, rows, hist, faults>>
    BY <1>2, StepSearchByMCP
  <2>2. QED BY <2>1, RunType DEF TypeOK, world, rows, hist
<1>3. CASE UseFallback(r)
  BY <1>3, StepUseFallback, RunType DEF TypeOK, world, rows, hist
<1>4. CASE SearchPage(r)
  BY <1>4, StepSearchPage, RunType DEF TypeOK, world, rows, hist
<1>5. CASE Store(r)
  <2>1. PICK q \in Lookup, i \in Issues :
          /\ incident' = [incident EXCEPT ![i] = run[r].listed[i]]
          /\ run[r].listed[i] \in 0..MaxChanges
          /\ run' = [run EXCEPT ![r] = q]
          /\ UNCHANGED <<world, link, hist, faults>>
    BY <1>5, StepStore
  <2>2. incident' \in [Issues -> NotYet..MaxChanges]
    BY <2>1, Bounds DEF TypeOK, NotYet
  <2>3. QED BY <2>1, <2>2, RunType DEF TypeOK, world, hist
<1>6. CASE FindDeployment(r)
  BY <1>6, StepFindDeployment, RunType DEF TypeOK, world, rows, hist
<1>7. CASE Link(r)
  <2>1. PICK q \in Linking :
          /\ run[r].issue \in Issues /\ run[r].found \in Deployments
          /\ link' = [link EXCEPT ![run[r].issue] = link[run[r].issue] \cup {run[r].found}]
          /\ run' = [run EXCEPT ![r] = q]
          /\ UNCHANGED <<world, incident, hist, faults>>
    BY <1>7, StepLink
  <2>2. link' \in [Issues -> SUBSET Deployments]
    BY <2>1 DEF TypeOK
  <2>3. QED BY <2>1, <2>2, RunType DEF TypeOK, world, hist
<1>8. CASE Complete(r)
  <2>1. overlapped' \in BOOLEAN
    BY <1>8 DEF Complete, TypeOK
  <2>2. QED BY <1>8, <2>1, RunType DEF Complete, TypeOK, world, rows
<1>9. CASE Fail(r)
  <2>1. overlapped' \in BOOLEAN /\ faults' \in 0..MaxFaults
    BY <1>9, Bounds DEF Fail, Fault, TypeOK
  <2>2. QED BY <1>9, <2>1, RunType DEF Fail, TypeOK, world, rows
<1>10. QED BY <1>1, <1>2, <1>3, <1>4, <1>5, <1>6, <1>7, <1>8, <1>9 DEF Collect

LEMMA TypeNext == TypeOK /\ [Next]_vars => TypeOK'
<1> SUFFICES ASSUME TypeOK, [Next]_vars PROVE TypeOK'
  OBVIOUS
<1>1. CASE Tick
  <2>1. now' \in 0..MaxTime
    BY <1>1, Bounds DEF Tick, TypeOK
  <2>2. QED BY <1>1, <2>1 DEF Tick, TypeOK, rows, hist
<1>2. ASSUME NEW i \in Issues, Report(i) PROVE TypeOK'
  <2>1. jira' = [jira EXCEPT ![i] = [jira[i] EXCEPT !.created = now]]
    BY <1>2 DEF Report
  <2>2. [jira[i] EXCEPT !.created = now] \in [created : NotYet..MaxTime, version : 0..MaxChanges]
    BY Bounds DEF TypeOK, NotYet
  <2>3. QED BY <1>2, <2>1, <2>2 DEF Report, TypeOK, rows, hist
<1>3. ASSUME NEW i \in Issues, ResolveOrReopen(i) PROVE TypeOK'
  <2>1. jira' = [jira EXCEPT ![i] = [jira[i] EXCEPT !.version = jira[i].version + 1]]
    BY <1>3 DEF ResolveOrReopen
  <2>2. [jira[i] EXCEPT !.version = jira[i].version + 1]
          \in [created : NotYet..MaxTime, version : 0..MaxChanges]
    BY <1>3, Bounds DEF ResolveOrReopen, TypeOK
  <2>3. QED BY <1>3, <2>1, <2>2 DEF ResolveOrReopen, TypeOK, rows, hist
<1>4. ASSUME NEW d \in Deployments, Deploy(d) PROVE TypeOK'
  <2>1. deploy' = [deploy EXCEPT ![d] = [deploy[d] EXCEPT !.finished = now]]
    BY <1>4 DEF Deploy
  <2>2. [deploy[d] EXCEPT !.finished = now] \in [finished : NotYet..MaxTime, stored : BOOLEAN]
    BY Bounds DEF TypeOK, NotYet
  <2>3. QED BY <1>4, <2>1, <2>2 DEF Deploy, TypeOK, rows, hist
<1>5. ASSUME NEW d \in Deployments, Learn(d) PROVE TypeOK'
  <2>1. deploy' = [deploy EXCEPT ![d] = [deploy[d] EXCEPT !.stored = TRUE]]
    BY <1>5 DEF Learn
  <2>2. [deploy[d] EXCEPT !.stored = TRUE] \in [finished : NotYet..MaxTime, stored : BOOLEAN]
    BY DEF TypeOK
  <2>3. late' \subseteq Issues
    BY <1>5 DEF Learn, Blaming, TypeOK
  <2>4. QED BY <1>5, <2>1, <2>2, <2>3 DEF Learn, TypeOK, rows
<1>6. CASE UNCHANGED vars
  BY <1>6 DEF vars, world, rows, hist, TypeOK
<1>7. QED BY <1>1, <1>2, <1>3, <1>4, <1>5, <1>6, TypeCollect DEF Next

\* Every variable keeps its type.
THEOREM TypeCorrect == Spec => []TypeOK
  BY TypeInit, TypeNext, PTL DEF Spec

-----------------------------------------------------------------------------
(* What stays.                                                              *)

\* Of the issues that exist, and the deployments that are stored, nothing changes
\* but versions and rows, which grow.
Lasting ==
  /\ \A i \in Issues : Created(i) => jira'[i].created = jira[i].created
  /\ \A i \in Issues : jira'[i].version >= jira[i].version
  /\ \A i \in Issues : link[i] \subseteq link'[i]
  /\ \A d \in Deployments : deploy[d].stored =>
       deploy'[d].stored /\ deploy'[d].finished = deploy[d].finished

LEMMA LastingNext == TypeOK /\ Known /\ [Next]_vars => Lasting
<1> SUFFICES ASSUME TypeOK, Known, [Next]_vars PROVE Lasting
  OBVIOUS
<1>0. /\ \A i \in Issues : jira[i].version \in Nat
      /\ \A d \in Deployments : deploy[d].stored => Finished(d) # NotYet
  BY Bounds DEF TypeOK, Known
<1>1. ASSUME UNCHANGED <<jira, deploy, link>> PROVE Lasting
  BY <1>0, <1>1 DEF Lasting
<1>2. ASSUME NEW i \in Issues, Report(i) PROVE Lasting
  BY <1>0, <1>2 DEF Report, Lasting, Created, TypeOK, rows
<1>3. ASSUME NEW i \in Issues, ResolveOrReopen(i) PROVE Lasting
  <2>1. \A j \in Issues : /\ jira'[j].created = jira[j].created
                          /\ jira'[j].version \in {jira[j].version, jira[j].version + 1}
    BY <1>3 DEF ResolveOrReopen, TypeOK
  <2>2. QED BY <1>0, <1>3, <2>1 DEF ResolveOrReopen, Lasting, rows
<1>4. ASSUME NEW d \in Deployments, Deploy(d) PROVE Lasting
  <2>1. ~deploy[d].stored
    BY <1>0, <1>4 DEF Deploy, Finished
  <2>2. \A e \in Deployments : e # d => deploy'[e] = deploy[e]
    BY <1>4 DEF Deploy, TypeOK
  <2>3. QED BY <1>0, <1>4, <2>1, <2>2 DEF Deploy, Lasting, rows
<1>5. ASSUME NEW d \in Deployments, Learn(d) PROVE Lasting
  BY <1>0, <1>5 DEF Learn, Lasting, TypeOK, rows
<1>6. ASSUME NEW r \in Runs, Collect(r) PROVE Lasting
  <2>1. CASE Link(r)
    BY <1>0, <2>1, StepLink DEF Lasting, TypeOK, world
  <2>2. CASE ~Link(r)
    BY <1>1, <1>6, <2>2 DEF Collect, Start, SearchByMCP, UseFallback, SearchPage, Store,
       FindDeployment, Complete, Fail, world, rows
  <2>3. QED BY <2>1, <2>2
<1>7. QED BY <1>1, <1>2, <1>3, <1>4, <1>5, <1>6 DEF Next, Tick, vars, world, rows

\* A deployment chosen before is one of the candidates still.
LEMMA CandidatesStay ==
  ASSUME TypeOK, Lasting, NEW i \in Issues, Created(i)
  PROVE  /\ Candidates(jira[i].created) \subseteq Candidates(jira[i].created)'
         /\ \A d \in Candidates(jira[i].created) : Finished(d)' = Finished(d)
  BY DEF Lasting, Candidates, InWindow, Finished

-----------------------------------------------------------------------------
(* The world around a run.                                                  *)

\* A step of the world, of no run.
Around ==
  \/ Tick
  \/ \E i \in Issues : Report(i) \/ ResolveOrReopen(i)
  \/ \E d \in Deployments : Deploy(d) \/ Learn(d)

\* It leaves what runs keep, and what is stored has finished.
LEMMA AroundFrame ==
  ASSUME TypeOK, Known, Around
  PROVE  /\ UNCHANGED <<incident, link, run, overlapped>> /\ Lasting /\ late \subseteq late'
         /\ \A d \in Deployments : deploy'[d].stored => deploy'[d].finished # NotYet
         /\ \A i \in Issues : Created(i) => Created(i)'
<1>1. Lasting
  BY LastingNext DEF Around, Next
<1>2. UNCHANGED <<incident, link, run, overlapped>> /\ late \subseteq late'
  BY DEF Around, Tick, Report, ResolveOrReopen, Deploy, Learn, rows, hist
<1>3. \A d \in Deployments : deploy'[d].stored => deploy'[d].finished # NotYet
  <2>1. CASE UNCHANGED deploy
    BY <2>1 DEF Known, Finished
  <2>2. ASSUME NEW d \in Deployments, Deploy(d) \/ Learn(d)
        PROVE  \A e \in Deployments : deploy'[e].stored => deploy'[e].finished # NotYet
    <3>1. \A e \in Deployments : e # d => deploy'[e] = deploy[e]
      BY <2>2 DEF Deploy, Learn, TypeOK
    <3>2. deploy'[d].finished # NotYet
      BY <2>2 DEF Deploy, Learn, TypeOK, NotYet
    <3>3. QED BY <3>1, <3>2 DEF Known, Finished
  <2>3. QED BY <2>1, <2>2 DEF Around, Tick, Report, ResolveOrReopen
<1>4. \A i \in Issues : Created(i) => Created(i)'
  BY <1>1 DEF Lasting, Created
<1>5. QED BY <1>1, <1>2, <1>3, <1>4

LEMMA KnownAround == TypeOK /\ Known /\ Around => Known'
<1> SUFFICES ASSUME TypeOK, Known, Around PROVE Known'
  OBVIOUS
<1>1. /\ UNCHANGED <<link, run>> /\ Lasting
      /\ \A d \in Deployments : deploy'[d].stored => deploy'[d].finished # NotYet
      /\ \A i \in Issues : Created(i) => Created(i)'
  BY AroundFrame
<1>2. \A i \in Issues : Created(i) => Candidates(jira[i].created) \subseteq Candidates(jira[i].created)'
  BY <1>1, CandidatesStay
<1>3. \A r \in Runs : Lists(run[r]) => /\ DOMAIN run[r].listed \subseteq Issues
                                       /\ DOMAIN run[r].owes \subseteq Issues
                                       /\ run[r].known \subseteq Deployments
  BY RunShape, ListingType
<1>4. \A r \in Runs : run[r].pc \in {"find", "link"} => run[r].issue \in Issues
  BY RunShape DEF Lookup, Linking
<1>5. \A d \in Deployments : deploy'[d].stored => Finished(d)' # NotYet
  BY <1>1 DEF Finished
<1>6. \A i \in Issues : link'[i] # {} => Created(i)'
  BY <1>1 DEF Known
<1>7. \A i \in Issues : \A d \in link'[i] : d \in Candidates(jira[i].created)'
  BY <1>1, <1>2 DEF Known
<1>8. \A r \in Runs : Lists(run'[r]) =>
        /\ \A i \in DOMAIN run'[r].listed : Created(i)'
        /\ \A i \in DOMAIN run'[r].owes : Created(i)'
        /\ \A d \in run'[r].known : deploy'[d].stored
  BY <1>1, <1>3 DEF Known, Lasting
<1>9. ASSUME NEW r \in Runs, run[r].pc \in {"find", "link"} PROVE jira'[run[r].issue].created # NotYet
  <2>1. run[r].issue \in Issues /\ Created(run[r].issue)
    BY <1>4, <1>9 DEF Known
  <2>2. QED BY <1>1, <2>1 DEF Lasting, Created
<1>10. ASSUME NEW r \in Runs, run[r].pc = "link"
       PROVE  run[r].found \in Candidates(jira[run[r].issue].created)'
  <2>1. run[r].issue \in Issues /\ Created(run[r].issue)
        /\ run[r].found \in Candidates(jira[run[r].issue].created)
    BY <1>4, <1>10 DEF Known
  <2>2. QED BY <1>1, <1>2, <2>1
<1>11. QED BY <1>1, <1>5, <1>6, <1>7, <1>8, <1>9, <1>10 DEF Known, Created

\* A deployment stored after a link was made is no later than it, or noted.
LEMMA BlamedAround == TypeOK /\ Known /\ Blamed /\ Around => Blamed'
<1> SUFFICES ASSUME TypeOK, Known, Blamed, Around PROVE Blamed'
  OBVIOUS
<1>1. /\ UNCHANGED <<link, run>> /\ Lasting /\ late \subseteq late'
      /\ \A i \in Issues : Created(i) => Created(i)'
  BY AroundFrame
<1>2. ASSUME NEW i \in Issues \ late', NEW d \in Chosen(Candidates(jira[i].created)), Created(i),
             i \in Blaming
      PROVE  d \in Chosen(Candidates(jira[i].created))'
  <2>1. d \in Candidates(jira[i].created) /\ \A e \in Candidates(jira[i].created) :
          deploy[e].finished <= deploy[d].finished
    BY DEF Chosen
  <2>2. d \in Candidates(jira[i].created)' /\ deploy'[d].finished = deploy[d].finished
    BY <1>1, <1>2, <2>1, CandidatesStay DEF Finished
  <2>3. \A e \in Candidates(jira[i].created) : deploy'[e].finished = deploy[e].finished
    BY <1>1, <1>2, CandidatesStay DEF Finished
  <2>4. jira'[i].created = jira[i].created
    BY <1>1, <1>2 DEF Lasting
  <2>5. ASSUME NEW e \in Candidates(jira[i].created)', e \notin Candidates(jira[i].created)
        PROVE  deploy'[e].finished <= deploy'[d].finished
    <3>1. e \in Deployments /\ deploy'[e].stored
      BY DEF Candidates
    <3>2. Learn(e)
      <4>1. CASE UNCHANGED deploy
        BY <2>4, <2>5, <4>1 DEF Candidates, InWindow
      <4>2. ASSUME NEW f \in Deployments, Deploy(f) PROVE FALSE
        <5>1. ~deploy[f].stored
          BY <4>2 DEF Deploy, Known, Finished
        <5>2. deploy' = [deploy EXCEPT ![f] = [deploy[f] EXCEPT !.finished = now]]
          BY <4>2 DEF Deploy
        <5>3. \A g \in Deployments : g # f => deploy'[g] = deploy[g]
          BY <5>2 DEF TypeOK
        <5>4. ~deploy'[f].stored
          BY <5>1, <5>2 DEF TypeOK
        <5>5. e # f
          BY <3>1, <5>4
        <5>6. QED BY <2>4, <2>5, <3>1, <5>3, <5>5 DEF Candidates, InWindow
      <4>3. ASSUME NEW f \in Deployments, Learn(f), f # e PROVE FALSE
        <5>1. deploy'[e] = deploy[e]
          BY <3>1, <4>3 DEF Learn, TypeOK
        <5>2. QED BY <2>4, <2>5, <5>1 DEF Candidates, InWindow
      <4>4. QED BY <4>1, <4>2, <4>3 DEF Around, Tick, Report, ResolveOrReopen
    <3>3. deploy'[e].finished = deploy[e].finished
      BY <3>1, <3>2 DEF Learn, TypeOK
    <3>4. InWindow(e, jira[i].created)
      BY <2>4, <2>5, <3>3 DEF Candidates, InWindow
    <3>5. ~\A c \in Candidates(jira[i].created) : deploy[c].finished <= deploy[e].finished
      BY <1>2, <3>2, <3>4 DEF Learn
    <3>6. PICK c \in Candidates(jira[i].created) : ~(deploy[c].finished <= deploy[e].finished)
      BY <3>5
    <3>7. deploy[c].finished \in Int /\ deploy[e].finished \in Int /\ deploy[d].finished \in Int
      BY <2>1, <3>1 DEF Candidates, TypeOK, NotYet
    <3>8. QED BY <2>1, <2>2, <3>3, <3>6, <3>7
  <2>6. QED BY <2>1, <2>2, <2>3, <2>5 DEF Chosen
<1>3. \A i \in Issues : link[i] # {} => Created(i) /\ i \in Blaming
  BY DEF Known, Blaming
<1>4. \A r \in Runs : run[r].pc = "link" =>
        run[r].issue \in Issues /\ Created(run[r].issue) /\ run[r].issue \in Blaming
  <2>1. \A r \in Runs : run[r].pc = "link" => run[r].issue \in Issues
    BY RunShape DEF Linking
  <2>2. QED BY <2>1 DEF Known, Blaming
<1>5. QED BY <1>1, <1>2, <1>3, <1>4 DEF Blamed

LEMMA OwingAround == TypeOK /\ Known /\ Owing /\ Around => Owing'
<1> SUFFICES ASSUME TypeOK, Known, Owing, Around PROVE Owing'
  OBVIOUS
<1>1. UNCHANGED <<link, run>> /\ Lasting
  BY AroundFrame
<1>2. \A r \in Runs : Lists(run[r]) =>
        /\ \A i \in DOMAIN run[r].owes : i \in Issues /\ Created(i)
        /\ \A c \in run[r].known : c \in Deployments /\ deploy[c].stored
  BY RunShape, ListingType DEF Known
<1>3. ASSUME NEW i \in Issues, Created(i), NEW c \in Deployments, deploy[c].stored
      PROVE  /\ c \in Candidates(jira[i].created)' => c \in Candidates(jira[i].created)
             /\ Finished(c)' = Finished(c)
  BY <1>1, <1>3 DEF Lasting, Candidates, InWindow, Finished
<1>4. ASSUME NEW r \in Runs, Lists(run[r]), NEW i \in Issues, Created(i), Linked(run[r], i)
      PROVE  Linked(run[r], i)'
  <2>1. \A d \in link[i] : d \in Candidates(jira[i].created) /\ Finished(d)' = Finished(d)
    BY <1>1, <1>4, CandidatesStay DEF Known
  <2>2. QED BY <1>1, <1>2, <1>3, <1>4, <2>1 DEF Linked
<1>5. ASSUME NEW r \in Runs, run[r].pc = "link", AsLate(run[r], run[r].found)
      PROVE  AsLate(run[r], run[r].found)'
  <2>1. run[r].issue \in Issues /\ Created(run[r].issue)
        /\ run[r].found \in Candidates(jira[run[r].issue].created)
    BY <1>5, RunShape DEF Known, Linking
  <2>2. Finished(run[r].found)' = Finished(run[r].found)
    BY <1>1, <2>1, CandidatesStay DEF Finished
  <2>3. QED BY <1>1, <1>2, <1>3, <1>5, <2>1, <2>2 DEF AsLate, Lists
<1>6. \A r \in Runs : Asks(run[r]) =>
        Lists(run[r]) /\ \A i \in DOMAIN run[r].owes : jira'[i].created >= run[r].since
  BY <1>1, <1>2 DEF Owing, Asks, Lists, Lasting
<1>7. \A r \in Runs : Stores(run[r]) => Lists(run[r])
  BY DEF Stores, Lists
<1>8. QED BY <1>1, <1>2, <1>4, <1>5, <1>6, <1>7 DEF Owing

LEMMA SingleAround == TypeOK /\ Known /\ Single /\ Around => Single'
<1> SUFFICES ASSUME TypeOK, Known, Single, Around PROVE Single'
  OBVIOUS
<1>1. UNCHANGED <<incident, run, overlapped>> /\ Lasting
  BY AroundFrame
<1>2. \A r \in Runs : Lists(run[r]) =>
        /\ DOMAIN run[r].owes \subseteq Issues
        /\ \A i \in DOMAIN run[r].owes : run[r].owes[i] \in Nat
  BY RunShape, ListingType, Bounds
<1>3. \A i \in Issues : jira[i].version \in Nat /\ jira'[i].version \in Nat
                        /\ jira'[i].version >= jira[i].version
  <2>1. TypeOK'
    BY TypeNext DEF Around, Next
  <2>2. QED BY <1>1, <2>1, Bounds DEF Lasting, TypeOK
<1>4. \A r \in Runs : Lists(run[r]) =>
        \A i \in DOMAIN run[r].owes : jira'[i].version >= run[r].owes[i]
  BY <1>2, <1>3 DEF Single
<1>5. QED BY <1>1, <1>4 DEF Single, Running

-----------------------------------------------------------------------------
(* The runs.                                                                *)

\* Among deployments there is a latest one: the times have a bound.
LEMMA LatestExists ==
  ASSUME TypeOK, NEW D \in SUBSET Deployments, D # {}
  PROVE  Chosen(D) # {}
<1> DEFINE Left(d) == MaxTime - deploy[d].finished
           S == {Left(d) : d \in D}
<1>1. \A d \in Deployments : deploy[d].finished \in Int /\ Left(d) \in Nat
  BY Bounds DEF TypeOK, NotYet
<1>2. S \subseteq Nat /\ S # {}
  BY <1>1
<1>3. PICK m \in S : \A n \in S : ~(<<n, m>> \in OpToRel(<, Nat))
  BY <1>2, NatLessThanWellFounded, WFMin
<1>4. PICK d \in D : m = Left(d)
  OBVIOUS
<1>5. ASSUME NEW e \in D PROVE deploy[e].finished <= deploy[d].finished
  <2>1. ~(Left(e) < Left(d))
    BY <1>1, <1>3, <1>4 DEF OpToRel
  <2>2. QED BY <1>1, <2>1, Bounds
<1>6. QED BY <1>4, <1>5 DEF Chosen

\* A page shows something as long as there is something to show.
LEMMA PageShows ==
  ASSUME TypeOK, NEW r \in Runs, NEW P \in NextPages(r), P = {}
  PROVE  Matching(run[r].since) \ DOMAIN run[r].listed = {}
<1> DEFINE rest == Matching(run[r].since) \ DOMAIN run[r].listed
           bounds == {PageSize, Cardinality(rest)}
<1>1. rest \subseteq Issues
  BY DEF Matching
<1>2. IsFiniteSet(rest) /\ Cardinality(rest) \in Nat
  BY <1>1, Bounds, FS_Subset, FS_CardinalityType
<1>3. Cardinality({}) = Min(bounds)
  BY DEF NextPages
<1>4. Min(bounds) = 0
  BY <1>3, FS_EmptySet
<1>5. \E x \in bounds : \A y \in bounds : x <= y
  <2>1. PageSize <= Cardinality(rest) \/ Cardinality(rest) <= PageSize
    BY <1>2, Bounds
  <2>2. QED BY <1>2, <2>1, Bounds
<1>6. Min(bounds) \in bounds
  BY <1>5 DEF Min
<1>7. Cardinality(rest) = 0
  BY <1>4, <1>6, Bounds
<1>8. QED BY <1>2, <1>7, FS_EmptySet

\* After the last page every issue of the window is in the listing.
LEMMA PagedAll ==
  ASSUME TypeOK, NEW r \in Runs, NEW P \in NextPages(r), ~HasNextPage(r, P)
  PROVE  Matching(run[r].since) \subseteq DOMAIN run[r].listed \cup P
  BY PageShows DEF HasNextPage

\* No step of a run makes up an issue or a deployment.
LEMMA KnownCollect ==
  ASSUME TypeOK, Known, NEW r \in Runs, Collect(r)
  PROVE  Known'
<1>1. UNCHANGED <<jira, deploy>>
  BY DEF Collect, Start, SearchByMCP, UseFallback, SearchPage, Store, FindDeployment, Link,
         Complete, Fail, world
<1>2. \A d \in Deployments : deploy'[d].stored => Finished(d)' # NotYet
  BY <1>1 DEF Known, Finished
<1>3. \A i \in Issues : /\ Created(i)' = Created(i)
                        /\ Candidates(jira[i].created)' = Candidates(jira[i].created)
  BY <1>1 DEF Created, Candidates, InWindow
<1>4. ASSUME UNCHANGED link, NEW q, run' = [run EXCEPT ![r] = q],
             q.pc \in {"find", "link"} => q.issue \in Issues /\ Created(q.issue),
             q.pc = "link" => q.found \in Candidates(jira[q.issue].created),
             Lists(q) => /\ \A i \in DOMAIN q.listed : i \in Issues /\ Created(i)
                         /\ \A i \in DOMAIN q.owes : i \in Issues /\ Created(i)
                         /\ \A d \in q.known : deploy[d].stored
      PROVE  Known'
  <2>1. \A s \in Runs : run'[s] = IF s = r THEN q ELSE run[s]
    BY <1>4 DEF TypeOK
  <2>2. \A s \in Runs : Lists(run'[s]) =>
          /\ \A i \in DOMAIN run'[s].listed : Created(i)'
          /\ \A i \in DOMAIN run'[s].owes : Created(i)'
          /\ \A d \in run'[s].known : deploy'[d].stored
    BY <1>1, <1>4, <2>1 DEF Known, Created
  <2>3. \A s \in Runs : run'[s].pc \in {"find", "link"} => jira'[run'[s].issue].created # NotYet
    BY <1>1, <1>4, <2>1 DEF Known, Created
  <2>4. \A s \in Runs : run'[s].pc = "link" =>
          /\ run'[s].found \in Deployments /\ deploy'[run'[s].found].stored
          /\ deploy'[run'[s].found].finished
               \in jira'[run'[s].issue].created - Lookback .. jira'[run'[s].issue].created
    BY <1>1, <1>4, <2>1 DEF Known, Candidates, InWindow
  <2>5. QED BY <1>2, <1>3, <1>4, <2>2, <2>3, <2>4 DEF Known, Created, Candidates, InWindow
<1>5. Lists(run[r]) =>
        /\ \A i \in DOMAIN run[r].listed : i \in Issues /\ Created(i)
        /\ \A i \in DOMAIN run[r].owes : i \in Issues /\ Created(i)
        /\ \A d \in run[r].known : deploy[d].stored
  BY RunShape, ListingType DEF Known
<1>6. ASSUME NEW source \in {"mcp", "rest"}, Start(r, source) PROVE Known'
  BY <1>4, <1>6, StepStart DEF rows, Matching, Created
<1>7. CASE UseFallback(r)
  BY <1>4, <1>5, <1>7, StepUseFallback DEF rows, Lists
<1>8. CASE SearchByMCP(r)
  <2>1. PICK q \in Search, I \in SUBSET Matching(run[r].since) :
          /\ run[r].pc = "mcp" /\ q.pc = "store"
          /\ q.owes = Restrict(run[r].owes, DOMAIN run[r].owes \cap I)
          /\ q.listed = [i \in I |-> jira[i].version] /\ q.known = run[r].known
          /\ run' = [run EXCEPT ![r] = q] /\ UNCHANGED link
    BY <1>8, StepSearchByMCP DEF rows
  <2>2. DOMAIN q.owes \subseteq DOMAIN run[r].owes /\ DOMAIN q.listed = I
    BY <2>1, CutDomain
  <2>3. \A i \in I : i \in Issues /\ Created(i)
    BY DEF Matching, Created
  <2>4. QED BY <1>4, <1>5, <2>1, <2>2, <2>3 DEF Lists
<1>9. CASE SearchPage(r)
  <2>1. PICK q \in Search, P \in NextPages(r) :
          /\ run[r].pc = "rest" /\ q.pc \in {"rest", "store"}
          /\ q.owes = run[r].owes /\ q.known = run[r].known
          /\ q.listed = Paged(run[r], P)
          /\ run' = [run EXCEPT ![r] = q] /\ UNCHANGED link
    BY <1>9, StepSearchPage DEF rows
  <2>2. DOMAIN q.listed = DOMAIN run[r].listed \cup P
    BY <2>1 DEF Paged
  <2>3. \A i \in P : i \in Issues /\ Created(i)
    BY DEF NextPages, Matching, Created
  <2>4. QED BY <1>4, <1>5, <2>1, <2>2, <2>3 DEF Lists
<1>10. CASE Store(r)
  <2>1. PICK q \in Lookup, i \in Issues :
          /\ run[r].pc = "store" /\ i \in DOMAIN run[r].listed
          /\ q.pc = "find" /\ q.issue = i /\ q.owes = run[r].owes /\ q.known = run[r].known
          /\ q.listed = Restrict(run[r].listed, DOMAIN run[r].listed \ {i})
          /\ run' = [run EXCEPT ![r] = q] /\ UNCHANGED link
    BY <1>10, StepStore
  <2>2. DOMAIN q.listed \subseteq DOMAIN run[r].listed
    BY <2>1, CutDomain
  <2>3. QED BY <1>4, <1>5, <2>1, <2>2 DEF Lists
<1>11. CASE FindDeployment(r)
  <2>1. PICK q \in Lookup \cup Linking :
          /\ run[r].pc = "find" /\ run[r].issue \in Issues
          /\ q.listed = run[r].listed /\ q.owes = run[r].owes /\ q.known = run[r].known
          /\ \/ q.pc = "store"
             \/ /\ q.pc = "link" /\ q.issue = run[r].issue
                /\ q.found \in Chosen(Candidates(jira[run[r].issue].created))
          /\ run' = [run EXCEPT ![r] = q] /\ UNCHANGED link
    BY <1>11, StepFindDeployment DEF rows
  <2>2. Created(run[r].issue)
    BY <2>1 DEF Known
  <2>3. \A d : d \in Chosen(Candidates(jira[run[r].issue].created)) =>
          d \in Candidates(jira[run[r].issue].created)
    BY DEF Chosen
  <2>4. QED BY <1>4, <1>5, <2>1, <2>2, <2>3 DEF Lists
<1>12. CASE Link(r)
  <2>1. PICK q \in Linking :
          /\ run[r].pc = "link" /\ q.pc = "store"
          /\ run[r].issue \in Issues /\ run[r].found \in Deployments
          /\ q.listed = run[r].listed /\ q.owes = run[r].owes /\ q.known = run[r].known
          /\ link' = [link EXCEPT ![run[r].issue] = link[run[r].issue] \cup {run[r].found}]
          /\ run' = [run EXCEPT ![r] = q]
    BY <1>12, StepLink
  <2>2. \A s \in Runs : run'[s] = IF s = r THEN q ELSE run[s]
    BY <2>1 DEF TypeOK
  <2>3. \A i \in Issues : link'[i] = IF i = run[r].issue THEN link[i] \cup {run[r].found} ELSE link[i]
    BY <2>1 DEF TypeOK
  <2>4. Created(run[r].issue) /\ run[r].found \in Candidates(jira[run[r].issue].created)
    BY <2>1 DEF Known
  <2>5. /\ \A i \in Issues : link'[i] # {} => Created(i)'
        /\ \A i \in Issues : \A d \in link'[i] : d \in Candidates(jira[i].created)'
    BY <1>3, <2>1, <2>3, <2>4 DEF Known
  <2>6. \A s \in Runs : Lists(run'[s]) =>
          /\ \A i \in DOMAIN run'[s].listed : Created(i)'
          /\ \A i \in DOMAIN run'[s].owes : Created(i)'
          /\ \A d \in run'[s].known : deploy'[d].stored
    BY <1>1, <1>5, <2>1, <2>2 DEF Known, Created, Lists
  <2>7. \A s \in Runs : run'[s].pc \in {"find", "link"} => jira'[run'[s].issue].created # NotYet
    BY <1>1, <2>1, <2>2 DEF Known, Created
  <2>8. \A s \in Runs : run'[s].pc = "link" =>
          /\ run'[s].found \in Deployments /\ deploy'[run'[s].found].stored
          /\ deploy'[run'[s].found].finished
               \in jira'[run'[s].issue].created - Lookback .. jira'[run'[s].issue].created
    BY <1>1, <2>1, <2>2 DEF Known, Candidates, InWindow
  <2>9. QED BY <1>2, <2>5, <2>6, <2>7, <2>8 DEF Known, Created, Candidates, InWindow
<1>13. Idle.pc = "idle"
  BY DEF Idle
<1>14. CASE Complete(r) \/ Fail(r)
  BY <1>4, <1>13, <1>14 DEF Complete, Fail, rows, Lists
<1>15. QED BY <1>6, <1>7, <1>8, <1>9, <1>10, <1>11, <1>12, <1>14 DEF Collect

\* A run changes nothing in Jira, nothing in GitLab and no other run.
LEMMA CollectFrame ==
  ASSUME TypeOK, NEW r \in Runs, Collect(r)
  PROVE  /\ UNCHANGED <<now, jira, deploy, late>>
         /\ \A s \in Runs : s # r => run'[s] = run[s]
         /\ \A i \in Issues : link[i] \subseteq link'[i]
<1>1. UNCHANGED <<now, jira, deploy, late>>
  BY DEF Collect, Start, SearchByMCP, UseFallback, SearchPage, Store, FindDeployment, Link,
         Complete, Fail, world, hist
<1>2. \A s \in Runs : s # r => run'[s] = run[s]
  BY DEF Collect, Start, SearchByMCP, UseFallback, SearchPage, Store, FindDeployment, Link,
         Complete, Fail, TypeOK
<1>3. UNCHANGED link \/ Link(r)
  BY DEF Collect, Start, SearchByMCP, UseFallback, SearchPage, Store, FindDeployment, Complete,
         Fail, rows
<1>4. \A i \in Issues : link[i] \subseteq link'[i]
  BY <1>3 DEF Link, TypeOK
<1>5. QED BY <1>1, <1>2, <1>4

\* What a run links it found among the latest, and no later one came since.
LEMMA BlamedCollect ==
  ASSUME TypeOK, Known, Blamed, NEW r \in Runs, Collect(r)
  PROVE  Blamed'
<1>1. UNCHANGED <<jira, deploy, late>> /\ \A s \in Runs : s # r => run'[s] = run[s]
  BY CollectFrame
<1>2. \A i \in Issues :
        Chosen(Candidates(jira[i].created))' = Chosen(Candidates(jira[i].created))
  BY <1>1 DEF Chosen, Candidates, InWindow
<1>3. ASSUME UNCHANGED link, NEW q, run' = [run EXCEPT ![r] = q],
             q.pc = "link" => q.found \in Chosen(Candidates(jira[q.issue].created))
      PROVE  Blamed'
  <2>1. run'[r] = q
    BY <1>3 DEF TypeOK
  <2>2. ASSUME NEW i \in Issues \ late, NEW s \in Runs, run'[s].pc = "link", run'[s].issue = i
        PROVE  run'[s].found \in Chosen(Candidates(jira[i].created))
    BY <1>1, <1>3, <2>1, <2>2 DEF Blamed
  <2>3. QED BY <1>1, <1>2, <1>3, <2>2 DEF Blamed
<1>4. ASSUME NEW source \in {"mcp", "rest"}, Start(r, source) PROVE Blamed'
  BY <1>3, <1>4, StepStart DEF rows
<1>5. CASE UseFallback(r)
  BY <1>3, <1>5, StepUseFallback DEF rows
<1>6. CASE SearchByMCP(r)
  BY <1>3, <1>6, StepSearchByMCP DEF rows
<1>7. CASE SearchPage(r)
  <2>1. PICK q : q.pc \in {"rest", "store"} /\ run' = [run EXCEPT ![r] = q] /\ UNCHANGED link
    BY <1>7, StepSearchPage DEF rows
  <2>2. QED BY <1>3, <2>1
<1>8. CASE Store(r)
  <2>1. PICK q : q.pc = "find" /\ run' = [run EXCEPT ![r] = q] /\ UNCHANGED link
    BY <1>8, StepStore
  <2>2. QED BY <1>3, <2>1
<1>9. CASE FindDeployment(r)
  <2>1. PICK q : /\ \/ q.pc = "store"
                    \/ /\ q.issue = run[r].issue
                       /\ q.found \in Chosen(Candidates(jira[run[r].issue].created))
                 /\ run' = [run EXCEPT ![r] = q] /\ UNCHANGED link
    BY <1>9, StepFindDeployment DEF rows
  <2>2. QED BY <1>3, <2>1
<1>10. CASE Link(r)
  <2>1. PICK q : /\ run[r].pc = "link" /\ q.pc = "store" /\ run[r].issue \in Issues
                 /\ link' = [link EXCEPT ![run[r].issue] = link[run[r].issue] \cup {run[r].found}]
                 /\ run' = [run EXCEPT ![r] = q]
    BY <1>10, StepLink
  <2>2. run'[r].pc = "store"
    BY <2>1 DEF TypeOK
  <2>3. \A i \in Issues : link'[i] \subseteq IF i = run[r].issue THEN link[i] \cup {run[r].found}
                                                                 ELSE link[i]
    BY <2>1 DEF TypeOK
  <2>4. ASSUME NEW i \in Issues \ late, NEW d \in link'[i]
        PROVE  d \in Chosen(Candidates(jira[i].created))
    BY <2>1, <2>3, <2>4 DEF Blamed
  <2>5. ASSUME NEW i \in Issues \ late, NEW s \in Runs, run'[s].pc = "link", run'[s].issue = i
        PROVE  run'[s].found \in Chosen(Candidates(jira[i].created))
    BY <1>1, <2>2, <2>5 DEF Blamed
  <2>6. QED BY <1>1, <1>2, <2>4, <2>5 DEF Blamed
<1>11. CASE Complete(r) \/ Fail(r)
  <2>1. Idle.pc # "link"
    BY DEF Idle
  <2>2. run' = [run EXCEPT ![r] = Idle] /\ UNCHANGED link
    BY <1>11 DEF Complete, Fail, rows
  <2>3. QED BY <1>3, <2>1, <2>2
<1>12. QED BY <1>4, <1>5, <1>6, <1>7, <1>8, <1>9, <1>10, <1>11 DEF Collect

\* What a run owes it lists, and what it listed it links, to the latest there is.
LEMMA OwingCollect ==
  ASSUME TypeOK, Known, Owing, NEW r \in Runs, Collect(r)
  PROVE  Owing'
<1>1. /\ UNCHANGED <<now, jira, deploy>> /\ \A s \in Runs : s # r => run'[s] = run[s]
      /\ \A i \in Issues : link[i] \subseteq link'[i]
  BY CollectFrame
<1>2. /\ \A c : Candidates(c)' = Candidates(c)
      /\ \A d : Finished(d)' = Finished(d)
  BY <1>1 DEF Candidates, InWindow, Finished
<1>3. \A s \in Runs : Stores(run[s]) \/ Asks(run[s]) =>
        Lists(run[s]) /\ \A i \in DOMAIN run[s].owes : i \in Issues /\ Created(i)
  BY RunShape, ListingType DEF Stores, Asks, Lists, Known
<1>4. \A q, i : i \in Issues /\ Linked(q, i) =>
        \A c \in q.known \cap Candidates(jira[i].created) :
          \E d \in link'[i] : Finished(d) >= Finished(c)
  BY <1>1 DEF Linked
<1>5. ASSUME NEW q, run' = [run EXCEPT ![r] = q],
             Asks(q) => \A i \in DOMAIN q.owes : jira[i].created >= q.since,
             q.pc = "mcp" => DOMAIN q.listed = {},
             Stores(q) => \A i \in DOMAIN q.owes :
               \/ i \in DOMAIN q.listed
               \/ q.pc \in {"find", "link"} /\ q.issue = i
               \/ \A c \in q.known \cap Candidates(jira[i].created) :
                    \E d \in link'[i] : Finished(d) >= Finished(c),
             q.pc = "link" => AsLate(q, q.found)
      PROVE  Owing'
  <2>1. run'[r] = q
    BY <1>5 DEF TypeOK
  <2>2. ASSUME NEW s \in Runs, Stores(run'[s]), NEW i \in DOMAIN run'[s].owes
        PROVE  \/ i \in DOMAIN run'[s].listed
               \/ run'[s].pc \in {"find", "link"} /\ run'[s].issue = i
               \/ \A c \in run'[s].known \cap Candidates(jira[i].created) :
                    \E d \in link'[i] : Finished(d) >= Finished(c)
    <3>1. CASE s = r
      BY <1>5, <2>1, <2>2, <3>1
    <3>2. CASE s # r
      <4>1. run'[s] = run[s] /\ i \in Issues
        BY <1>1, <1>3, <2>2, <3>2
      <4>2. \/ i \in DOMAIN run[s].listed
            \/ run[s].pc \in {"find", "link"} /\ run[s].issue = i
            \/ Linked(run[s], i)
        BY <2>2, <4>1 DEF Owing
      <4>3. QED BY <1>4, <4>1, <4>2
    <3>3. QED BY <3>1, <3>2
  <2>3. ASSUME NEW s \in Runs, run'[s].pc = "link"
        PROVE  \A c \in run'[s].known \cap Candidates(jira[run'[s].issue].created) :
                 Finished(run'[s].found) >= Finished(c)
    BY <1>1, <1>5, <2>1, <2>3 DEF Owing, AsLate
  <2>4. ASSUME NEW s \in Runs
        PROVE  /\ Asks(run'[s]) => \A i \in DOMAIN run'[s].owes : jira[i].created >= run'[s].since
               /\ run'[s].pc = "mcp" => DOMAIN run'[s].listed = {}
    BY <1>1, <1>5, <2>1 DEF Owing
  <2>5. QED BY <1>1, <1>2, <2>2, <2>3, <2>4 DEF Owing, AsLate, Linked, Asks, Stores
<1>6. ASSUME NEW source \in {"mcp", "rest"}, Start(r, source) PROVE Owing'
  <2>1. PICK q \in Search :
          /\ q.pc = source /\ q.since = now - Window
          /\ DOMAIN q.listed = {} /\ DOMAIN q.owes = Matching(now - Window)
          /\ run' = [run EXCEPT ![r] = q]
    BY <1>6, StepStart
  <2>2. \A i \in DOMAIN q.owes : jira[i].created >= q.since
    BY <2>1 DEF Matching
  <2>3. QED BY <1>5, <2>1, <2>2 DEF Stores
<1>7. CASE UseFallback(r)
  <2>1. PICK q : /\ run[r].pc = "mcp" /\ q.pc = "rest" /\ q.since = run[r].since
                 /\ q.owes = run[r].owes /\ run' = [run EXCEPT ![r] = q]
    BY <1>7, StepUseFallback
  <2>2. \A i \in DOMAIN q.owes : jira[i].created >= q.since
    BY <2>1 DEF Owing, Asks
  <2>3. QED BY <1>5, <2>1, <2>2 DEF Stores
<1>8. CASE SearchByMCP(r)
  <2>1. PICK q \in Search, I \in SUBSET Matching(run[r].since) :
          /\ q.pc = "store" /\ q.owes = Restrict(run[r].owes, DOMAIN run[r].owes \cap I)
          /\ q.listed = [i \in I |-> jira[i].version]
          /\ run' = [run EXCEPT ![r] = q]
    BY <1>8, StepSearchByMCP
  <2>2. DOMAIN q.owes \subseteq DOMAIN q.listed
    BY <2>1, CutDomain
  <2>3. QED BY <1>5, <2>1, <2>2 DEF Asks
<1>9. CASE SearchPage(r)
  <2>1. PICK q \in Search, P \in NextPages(r) :
          /\ run[r].pc = "rest" /\ q.pc = IF HasNextPage(r, P) THEN "rest" ELSE "store"
          /\ q.since = run[r].since /\ q.owes = run[r].owes
          /\ q.listed = Paged(run[r], P) /\ run' = [run EXCEPT ![r] = q]
    BY <1>9, StepSearchPage
  <2>2. \A i \in DOMAIN q.owes : i \in Issues /\ Created(i) /\ jira[i].created >= q.since
    BY <1>3, <2>1 DEF Owing, Asks
  <2>3. CASE HasNextPage(r, P)
    BY <1>5, <2>1, <2>2, <2>3 DEF Stores
  <2>4. CASE ~HasNextPage(r, P)
    <3>1. DOMAIN q.owes \subseteq Matching(run[r].since)
      BY <2>1, <2>2 DEF Matching, Created
    <3>2. Matching(run[r].since) \subseteq DOMAIN q.listed
      BY <2>1, <2>4, PagedAll DEF Paged
    <3>3. q.pc = "store" /\ run' = [run EXCEPT ![r] = q]
      BY <2>1, <2>4
    <3>4. QED BY <1>5, <3>1, <3>2, <3>3 DEF Asks
  <2>5. QED BY <2>3, <2>4
<1>10. CASE Store(r)
  <2>1. PICK q \in Lookup, i \in Issues :
          /\ run[r].pc = "store" /\ i \in DOMAIN run[r].listed
          /\ q.pc = "find" /\ q.issue = i /\ q.owes = run[r].owes /\ q.known = run[r].known
          /\ q.listed = Restrict(run[r].listed, DOMAIN run[r].listed \ {i})
          /\ run' = [run EXCEPT ![r] = q]
    BY <1>10, StepStore
  <2>2. DOMAIN q.listed = DOMAIN run[r].listed \ {i}
    BY <2>1, CutDomain
  <2>3. \A j \in DOMAIN q.owes :
          /\ j \in Issues
          /\ j \in DOMAIN run[r].listed \/ Linked(run[r], j)
    BY <1>3, <2>1 DEF Owing, Stores
  <2>4. ASSUME NEW j \in DOMAIN q.owes
        PROVE  \/ j \in DOMAIN q.listed
               \/ q.pc \in {"find", "link"} /\ q.issue = j
               \/ \A c \in q.known \cap Candidates(jira[j].created) :
                    \E d \in link'[j] : Finished(d) >= Finished(c)
    BY <1>4, <2>1, <2>2, <2>3
  <2>5. QED BY <1>5, <2>1, <2>4 DEF Asks
<1>11. CASE FindDeployment(r)
  <2>1. PICK q : /\ run[r].pc = "find" /\ run[r].issue \in Issues
                 /\ q.listed = run[r].listed /\ q.owes = run[r].owes /\ q.known = run[r].known
                 /\ \/ /\ Chosen(Candidates(jira[run[r].issue].created)) = {}
                       /\ q.pc = "store"
                    \/ /\ q.pc = "link" /\ q.issue = run[r].issue
                       /\ q.found \in Chosen(Candidates(jira[run[r].issue].created))
                 /\ run' = [run EXCEPT ![r] = q]
    BY <1>11, StepFindDeployment
  <2>2. q.pc = "link" => AsLate(q, q.found)
    <3>1. SUFFICES ASSUME q.pc = "link", NEW c \in Candidates(jira[q.issue].created)
                   PROVE  Finished(q.found) >= Finished(c)
      BY DEF AsLate
    <3>2. q.found \in Candidates(jira[q.issue].created) /\ Finished(c) <= Finished(q.found)
      BY <2>1, <3>1 DEF Chosen, Finished
    <3>3. Finished(c) \in Int /\ Finished(q.found) \in Int
      BY <3>1, <3>2 DEF Candidates, Finished, TypeOK, NotYet
    <3>4. QED BY <3>2, <3>3
  <2>3. q.pc = "store" => Candidates(jira[run[r].issue].created) = {}
    BY <2>1, LatestExists DEF Candidates
  <2>4. \A j \in DOMAIN q.owes :
          /\ j \in Issues
          /\ j \in DOMAIN run[r].listed \/ j = run[r].issue \/ Linked(run[r], j)
    BY <1>3, <2>1 DEF Owing, Stores
  <2>5. ASSUME NEW j \in DOMAIN q.owes
        PROVE  \/ j \in DOMAIN q.listed
               \/ q.pc \in {"find", "link"} /\ q.issue = j
               \/ \A c \in q.known \cap Candidates(jira[j].created) :
                    \E d \in link'[j] : Finished(d) >= Finished(c)
    BY <1>4, <2>1, <2>3, <2>4
  <2>6. QED BY <1>5, <2>1, <2>2, <2>5 DEF Asks
<1>12. CASE Link(r)
  <2>1. PICK q : /\ run[r].pc = "link" /\ q.pc = "store"
                 /\ run[r].issue \in Issues
                 /\ q.listed = run[r].listed /\ q.owes = run[r].owes /\ q.known = run[r].known
                 /\ link' = [link EXCEPT ![run[r].issue] = link[run[r].issue] \cup {run[r].found}]
                 /\ run' = [run EXCEPT ![r] = q]
    BY <1>12, StepLink
  <2>2. run[r].found \in link'[run[r].issue]
    BY <2>1 DEF TypeOK
  <2>3. \A c \in q.known \cap Candidates(jira[run[r].issue].created) :
          Finished(run[r].found) >= Finished(c)
    BY <2>1 DEF Owing, AsLate
  <2>4. \A j \in DOMAIN q.owes :
          /\ j \in Issues
          /\ j \in DOMAIN run[r].listed \/ j = run[r].issue \/ Linked(run[r], j)
    BY <1>3, <2>1 DEF Owing, Stores
  <2>5. ASSUME NEW j \in DOMAIN q.owes
        PROVE  \/ j \in DOMAIN q.listed
               \/ \A c \in q.known \cap Candidates(jira[j].created) :
                    \E d \in link'[j] : Finished(d) >= Finished(c)
    BY <1>4, <2>1, <2>2, <2>3, <2>4
  <2>6. QED BY <1>5, <2>1, <2>5 DEF Asks
<1>13. CASE Complete(r) \/ Fail(r)
  <2>1. Idle.pc = "idle" /\ run' = [run EXCEPT ![r] = Idle]
    BY <1>13 DEF Idle, Complete, Fail
  <2>2. QED BY <1>5, <2>1 DEF Asks, Stores
<1>14. QED BY <1>6, <1>7, <1>8, <1>9, <1>10, <1>11, <1>12, <1>13 DEF Collect

\* What runs list stays as new as it was when they began, and what one stores too,
\* as long as it runs alone.
LEMMA SingleCollect ==
  ASSUME TypeOK, Known, Owing, Single, NEW r \in Runs, Collect(r)
  PROVE  Single'
<1> DEFINE AsNew(q) == \A i \in DOMAIN q.owes :
             /\ jira[i].version >= q.owes[i]
             /\ i \in DOMAIN q.listed => q.listed[i] >= q.owes[i]
<1>1. UNCHANGED jira /\ \A s \in Runs : s # r => run'[s] = run[s]
  BY CollectFrame
<1>2. \A s \in Runs : Lists(run[s]) => s \in Running /\ AsNew(run[s])
  BY RunShape DEF Single, Running
<1>3. \A s \in Runs : Stores(run[s]) => Lists(run[s])
  BY DEF Stores, Lists
<1>4. ASSUME NEW q, run' = [run EXCEPT ![r] = q], q # Idle, run[r] # Idle, UNCHANGED overlapped,
             AsNew(q),
             Stores(q) /\ ~overlapped => \A i \in DOMAIN q.owes :
               i \in DOMAIN q.listed \/ incident'[i] >= q.owes[i]
      PROVE  Single'
  <2>1. run'[r] = q
    BY <1>4 DEF TypeOK
  <2>2. Running' = Running /\ r \in Running
    BY <1>1, <1>4, <2>1 DEF Running
  <2>3. \A s \in Runs : Lists(run'[s]) => AsNew(run'[s])
    BY <1>1, <1>2, <1>4, <2>1
  <2>4. ASSUME NEW s \in Runs, Lists(run'[s]), Stores(run'[s]), ~overlapped,
               NEW i \in DOMAIN run'[s].owes
        PROVE  i \in DOMAIN run'[s].listed \/ incident'[i] >= run'[s].owes[i]
    <3>1. s \in Running
      BY <1>1, <1>2, <2>2, <2>4
    <3>2. s = r
      BY <2>2, <2>4, <3>1 DEF Single
    <3>3. QED BY <1>4, <2>1, <2>4, <3>2
  <2>5. QED BY <1>1, <1>4, <2>2, <2>3, <2>4 DEF Single, Lists, Stores
<1>5. ASSUME NEW source \in {"mcp", "rest"}, Start(r, source) PROVE Single'
  <2>1. PICK q \in Search :
          /\ run[r] = Idle /\ q.pc = source /\ q.since = now - Window
          /\ DOMAIN q.listed = {} /\ DOMAIN q.owes = Matching(now - Window)
          /\ \A i \in Matching(now - Window) : q.owes[i] = jira[i].version
          /\ q.known = {d \in Deployments : deploy[d].stored}
          /\ run' = [run EXCEPT ![r] = q]
          /\ overlapped' = (overlapped \/ Running # {})
          /\ UNCHANGED <<world, rows, late, faults>>
    BY <1>5, StepStart
  <2>2. \A i \in Matching(now - Window) : jira[i].version \in Int
    BY Bounds DEF Matching, TypeOK
  <2>3. AsNew(q) /\ ~Stores(q)
    BY <2>1, <2>2 DEF Stores
  <2>4. run'[r] = q
    BY <2>1 DEF TypeOK
  <2>5. ~overlapped' => ~overlapped /\ Running' \subseteq {r}
    BY <1>1, <2>1 DEF Running
  <2>6. \A s \in Runs : Lists(run'[s]) => AsNew(run'[s])
    BY <1>1, <1>2, <2>3, <2>4
  <2>7. ASSUME NEW s \in Runs, Lists(run'[s]), Stores(run'[s]), ~overlapped' PROVE FALSE
    <3>1. s # r
      BY <2>3, <2>4, <2>7
    <3>2. s \in Running /\ Running = {}
      BY <1>1, <1>2, <2>1, <2>7, <3>1
    <3>3. QED BY <3>2
  <2>8. QED BY <1>1, <2>5, <2>6, <2>7 DEF Single, Lists, Stores
<1>6. ASSUME Complete(r) \/ Fail(r) PROVE Single'
  <2>1. /\ run' = [run EXCEPT ![r] = Idle] /\ UNCHANGED incident
        /\ overlapped' = (overlapped /\ Running # {r})
    BY <1>6 DEF Complete, Fail, rows
  <2>2. run'[r] = Idle
    BY <2>1 DEF TypeOK
  <2>3. Running' = Running \ {r}
    BY <1>1, <2>2 DEF Running
  <2>4. ~Lists(Idle)
    BY DEF Idle, Lists
  <2>5. \A s \in Runs : Lists(run'[s]) => s # r /\ run'[s] = run[s] /\ AsNew(run'[s])
    BY <1>1, <1>2, <2>2, <2>4
  <2>6. \A s \in Runs : Lists(run'[s]) /\ ~overlapped' => ~overlapped
    BY <1>2, <2>1, <2>5
  <2>7. ~overlapped' => \A s, t \in Running' : s = t
    BY <2>1, <2>3 DEF Single
  <2>8. QED BY <1>1, <2>1, <2>5, <2>6, <2>7 DEF Single, Lists, Stores
<1>7. \A q : Lists(q) => q # Idle
  BY DEF Lists, Idle
<1>8. CASE UseFallback(r)
  <2>1. PICK q : /\ run[r].pc = "mcp" /\ q.pc = "rest"
                 /\ q.listed = run[r].listed /\ q.owes = run[r].owes
                 /\ run' = [run EXCEPT ![r] = q] /\ UNCHANGED overlapped
    BY <1>8, StepUseFallback DEF hist
  <2>2. Lists(run[r]) /\ Lists(q) /\ ~Stores(q)
    BY <2>1 DEF Lists, Stores
  <2>3. QED BY <1>2, <1>4, <1>7, <2>1, <2>2
<1>9. CASE SearchByMCP(r)
  <2>1. PICK q \in Search, I \in SUBSET Matching(run[r].since) :
          /\ run[r].pc = "mcp" /\ q.pc = "store"
          /\ q.owes = Restrict(run[r].owes, DOMAIN run[r].owes \cap I)
          /\ q.listed = [i \in I |-> jira[i].version]
          /\ run' = [run EXCEPT ![r] = q] /\ UNCHANGED overlapped
    BY <1>9, StepSearchByMCP DEF hist
  <2>2. Lists(run[r]) /\ Lists(q)
    BY <2>1 DEF Lists
  <2>3. /\ DOMAIN q.owes = DOMAIN run[r].owes \cap I
        /\ \A i \in DOMAIN q.owes : q.owes[i] = run[r].owes[i]
    BY <2>1, CutDomain
  <2>4. \A i \in DOMAIN q.owes : i \in DOMAIN q.listed /\ q.listed[i] = jira[i].version
    BY <2>1, <2>3
  <2>5. AsNew(q)
    BY <1>2, <2>2, <2>3, <2>4
  <2>6. QED BY <1>4, <1>7, <2>1, <2>2, <2>4, <2>5
<1>10. CASE SearchPage(r)
  <2>1. PICK q \in Search, P \in NextPages(r) :
          /\ run[r].pc = "rest" /\ q.pc = IF HasNextPage(r, P) THEN "rest" ELSE "store"
          /\ q.owes = run[r].owes /\ q.listed = Paged(run[r], P)
          /\ run' = [run EXCEPT ![r] = q] /\ UNCHANGED overlapped
    BY <1>10, StepSearchPage DEF hist
  <2>2. Lists(run[r]) /\ Lists(q) /\ Asks(run[r])
    BY <2>1 DEF Lists, Asks
  <2>3. \A i \in DOMAIN q.listed :
          q.listed[i] = IF i \in P THEN jira[i].version ELSE run[r].listed[i]
    BY <2>1 DEF Paged
  <2>4. DOMAIN q.listed = DOMAIN run[r].listed \cup P
    BY <2>1 DEF Paged
  <2>5. AsNew(q)
    BY <1>2, <2>1, <2>2, <2>3, <2>4
  <2>6. ASSUME Stores(q) PROVE DOMAIN q.owes \subseteq DOMAIN q.listed
    <3>1. ~HasNextPage(r, P)
      BY <2>1, <2>6 DEF Stores
    <3>2. \A i \in DOMAIN q.owes : i \in Issues /\ Created(i) /\ jira[i].created >= run[r].since
      BY <2>1, <2>2, RunShape, ListingType DEF Owing, Known
    <3>3. DOMAIN q.owes \subseteq Matching(run[r].since)
      BY <3>2 DEF Matching, Created
    <3>4. QED BY <2>4, <3>1, <3>3, PagedAll
  <2>7. QED BY <1>4, <1>7, <2>1, <2>2, <2>5, <2>6
<1>11. CASE Store(r)
  <2>1. PICK q \in Lookup, i \in Issues :
          /\ run[r].pc = "store" /\ i \in DOMAIN run[r].listed
          /\ q.pc = "find" /\ q.issue = i /\ q.owes = run[r].owes /\ q.known = run[r].known
          /\ q.listed = Restrict(run[r].listed, DOMAIN run[r].listed \ {i})
          /\ incident' = [incident EXCEPT ![i] = run[r].listed[i]]
          /\ run' = [run EXCEPT ![r] = q] /\ UNCHANGED overlapped
    BY <1>11, StepStore DEF hist
  <2>2. Lists(run[r]) /\ Stores(run[r]) /\ Lists(q)
    BY <2>1 DEF Lists, Stores
  <2>3. /\ DOMAIN q.listed = DOMAIN run[r].listed \ {i}
        /\ \A j \in DOMAIN q.listed : q.listed[j] = run[r].listed[j]
    BY <2>1, CutDomain
  <2>4. AsNew(q)
    BY <1>2, <2>1, <2>2, <2>3
  <2>5. DOMAIN q.owes \subseteq Issues
    BY <2>1, <2>2, RunShape, ListingType
  <2>6. \A j \in Issues : incident'[j] = IF j = i THEN run[r].listed[i] ELSE incident[j]
    BY <2>1 DEF TypeOK
  <2>7. ASSUME ~overlapped, NEW j \in DOMAIN q.owes
        PROVE  j \in DOMAIN q.listed \/ incident'[j] >= q.owes[j]
    <3>1. j \in DOMAIN run[r].listed \/ incident[j] >= run[r].owes[j]
      BY <2>1, <2>2, <2>7 DEF Single
    <3>2. i \in DOMAIN run[r].owes => run[r].listed[i] >= run[r].owes[i]
      BY <1>2, <2>1, <2>2
    <3>3. QED BY <2>1, <2>3, <2>5, <2>6, <3>1, <3>2
  <2>8. QED BY <1>4, <1>7, <2>1, <2>2, <2>4, <2>7
<1>12. CASE FindDeployment(r) \/ Link(r)
  <2>1. PICK q : /\ run[r].pc \in {"find", "link"} /\ q.pc \in {"store", "link"}
                 /\ q.listed = run[r].listed /\ q.owes = run[r].owes
                 /\ run' = [run EXCEPT ![r] = q] /\ UNCHANGED <<overlapped, incident>>
    <3>1. CASE FindDeployment(r)
      BY <3>1, StepFindDeployment DEF hist, rows
    <3>2. CASE Link(r)
      BY <3>2, StepLink DEF hist
    <3>3. QED BY <1>12, <3>1, <3>2
  <2>2. Lists(run[r]) /\ Stores(run[r]) /\ Lists(q)
    BY <2>1 DEF Lists, Stores
  <2>3. ~overlapped => \A i \in DOMAIN q.owes : i \in DOMAIN q.listed \/ incident'[i] >= q.owes[i]
    BY <2>1, <2>2 DEF Single
  <2>4. QED BY <1>2, <1>4, <1>7, <2>1, <2>2, <2>3
<1>13. QED BY <1>5, <1>6, <1>8, <1>9, <1>10, <1>11, <1>12 DEF Collect

-----------------------------------------------------------------------------
(* The theorems.                                                            *)

LEMMA CollectedInit == Init => Collected
<1> SUFFICES ASSUME Init PROVE Collected
  OBVIOUS
<1>1. \A r \in Runs : run[r] = Idle /\ run[r].pc = "idle"
  BY DEF Init, Idle
<1>2. \A r \in Runs : ~Lists(run[r]) /\ ~Asks(run[r]) /\ ~Stores(run[r])
  BY <1>1 DEF Lists, Asks, Stores
<1>3. Known
  BY <1>1, <1>2 DEF Init, Known, Finished
<1>4. Blamed
  BY <1>1 DEF Init, Blamed
<1>5. Owing
  BY <1>1, <1>2 DEF Owing
<1>6. Single
  BY <1>1, <1>2 DEF Single, Running
<1>7. QED BY <1>3, <1>4, <1>5, <1>6 DEF Collected

LEMMA CollectedNext == TypeOK /\ Collected /\ [Next]_vars => Collected'
<1> SUFFICES ASSUME TypeOK, Known, Blamed, Owing, Single, [Next]_vars PROVE Collected'
  BY DEF Collected
<1>1. CASE Around
  BY <1>1, KnownAround, BlamedAround, OwingAround, SingleAround DEF Collected
<1>2. ASSUME NEW r \in Runs, Collect(r) PROVE Collected'
  BY <1>2, KnownCollect, BlamedCollect, OwingCollect, SingleCollect DEF Collected
<1>3. CASE UNCHANGED vars
  <2>1. UNCHANGED <<now, jira, deploy, incident, link, run, late, overlapped, faults>>
    BY <1>3 DEF vars
  <2>2. Known' /\ Blamed'
    BY <2>1 DEF Known, Blamed, Chosen, Candidates, InWindow, Created, Finished, Lists
  <2>3. Owing'
    BY <2>1 DEF Owing, Asks, Stores, Linked, AsLate, Candidates, InWindow, Finished
  <2>4. Single'
    BY <2>1 DEF Single, Running, Lists, Stores
  <2>5. QED BY <2>2, <2>3, <2>4 DEF Collected
<1>4. QED BY <1>1, <1>2, <1>3 DEF Next, Around

LEMMA AlwaysCollected == Spec => [](TypeOK /\ Collected)
<1>1. Init => TypeOK /\ Collected
  BY TypeInit, CollectedInit
<1>2. TypeOK /\ Collected /\ [Next]_vars => (TypeOK /\ Collected)'
  BY TypeNext, CollectedNext
<1>3. QED BY <1>1, <1>2, PTL DEF Spec

\* Links blame deployments of the time before the incident, and the latest known
\* when the link was made: only what is stored later can add another.
THEOREM BlameIsSound == Spec => []OneBlamed
<1>1. TypeOK /\ Collected => OneBlamed
  <2> SUFFICES ASSUME TypeOK, Known, Blamed, NEW i \in Issues
               PROVE  /\ \A d \in link[i] : InWindow(d, jira[i].created)
                      /\ i \notin late =>
                           \A d, e \in link[i] : deploy[d].finished = deploy[e].finished
    BY DEF Collected, OneBlamed, InWindow
  <2>1. \A d \in link[i] : d \in Deployments /\ InWindow(d, jira[i].created)
    BY DEF Known, Candidates
  <2>2. ASSUME i \notin late, NEW d \in link[i], NEW e \in link[i]
        PROVE  deploy[d].finished = deploy[e].finished
    <3>1. /\ deploy[e].finished <= deploy[d].finished
          /\ deploy[d].finished <= deploy[e].finished
      BY <2>2 DEF Blamed, Chosen
    <3>2. deploy[d].finished \in Int /\ deploy[e].finished \in Int
      BY <2>1 DEF TypeOK, NotYet
    <3>3. QED BY <3>1, <3>2
  <2>3. QED BY <2>1, <2>2
<1>2. QED BY <1>1, AlwaysCollected, PTL

\* A run that completes alone leaves no issue it owes without a row as new as it
\* was when the run began.
THEOREM RowsMirror == Spec => Mirrored
<1> DEFINE Leaves == \A r \in Runs : Complete(r) /\ ~overlapped => RowsAsNew(r)
<1>1. TypeOK /\ Collected => Leaves
  <2> SUFFICES ASSUME TypeOK, Single, NEW r \in Runs, Complete(r), ~overlapped,
                      NEW i \in DOMAIN run[r].owes
               PROVE  incident[i] >= run[r].owes[i]
    BY DEF Collected, RowsAsNew
  <2>1. Lists(run[r]) /\ Stores(run[r]) /\ i \notin DOMAIN run[r].listed
    BY DEF Complete, Lists, Stores
  <2>2. QED BY <2>1 DEF Single
<1>2. TypeOK /\ Collected /\ [Next]_vars => [Leaves]_vars
  BY <1>1
<1> HIDE DEF Leaves
<1>3. Spec => [][Leaves]_vars
  BY <1>2, AlwaysCollected, PTL DEF Spec
<1>4. QED BY <1>3 DEF Mirrored, Leaves

\* A run that completes leaves every issue it owes linked to the latest of the
\* deployments it knew, or to a later one, whatever other runs did.
THEOREM LatestAreLinked == Spec => LatestLinked
<1> DEFINE Leaves == \A r \in Runs : Complete(r) =>
             \A i \in DOMAIN run[r].owes : \A c \in run[r].known \cap Candidates(jira[i].created) :
               \E d \in link[i] : deploy[d].finished >= deploy[c].finished
<1>1. TypeOK /\ Collected => Leaves
  <2> SUFFICES ASSUME TypeOK, Owing, NEW r \in Runs, Complete(r), NEW i \in DOMAIN run[r].owes
               PROVE  Linked(run[r], i)
    BY DEF Collected, Linked, Finished
  <2>1. Stores(run[r]) /\ run[r].pc = "store" /\ i \notin DOMAIN run[r].listed
    BY DEF Complete, Stores
  <2>2. QED BY <2>1 DEF Owing
<1>2. TypeOK /\ Collected /\ [Next]_vars => [Leaves]_vars
  BY <1>1
<1> HIDE DEF Leaves
<1>3. Spec => [][Leaves]_vars
  BY <1>2, AlwaysCollected, PTL DEF Spec
<1>4. QED BY <1>3 DEF LatestLinked, Leaves
=============================================================================
