----------------------- MODULE AtlassianOAuth_proofs ------------------------
(***************************************************************************)
(* Proofs about AtlassianOAuth, for every set of states, requests,         *)
(* collectors, sites and keys and every value of the times and bounds.     *)
(***************************************************************************)
EXTENDS AtlassianOAuth, FiniteSetTheorems, TLAPS

-----------------------------------------------------------------------------
(* Facts about the records.                                                 *)

\* The times and bounds are naturals, in the order the code's constants have.
LEMMA Bounds ==
  /\ StateTTL \in Nat /\ Margin \in Nat /\ Timeout \in Nat /\ Life \in Nat
  /\ MaxTime \in Nat /\ MaxGrants \in Nat /\ MaxFaults \in Nat
  /\ 2 * Timeout < Margin /\ Margin <= Life
  BY OAuthAssumption

\* A row, a token and a closed token are never mistaken for a missing one.
LEMMA RowApart == NoRow \notin Row
<1>1. DOMAIN NoRow = {"id"}
  BY DEF NoRow
<1>2. \A r \in Row : "error" \in DOMAIN r
  BY DEF Row
<1>3. QED BY <1>1, <1>2

LEMMA TokenApart ==
  /\ NoToken \notin TokenA /\ NoToken \notin TokenR
  /\ \A k, t : [key |-> k, token |-> t] # NoToken
<1>1. DOMAIN NoToken = {"grant"}
  BY DEF NoToken
<1>2. /\ \A t \in TokenA : "until" \in DOMAIN t
      /\ \A t \in TokenR : "serial" \in DOMAIN t
  BY DEF TokenA, TokenR
<1>3. \A k, t : "key" \in DOMAIN [key |-> k, token |-> t]
  OBVIOUS
<1>4. QED BY <1>1, <1>2, <1>3

\* A row without a connection has an id no connection has.
LEMMA NoRowId == NoRow.id \notin GrantIds
  BY DEF NoRow, GrantIds

\* Where a request to /callback is tells what it holds.
LEMMA CallbackShape ==
  ASSUME TypeOK, NEW c \in Callbacks
  PROVE  /\ callback[c] = Idle \/ callback[c].pc \in {"consumed", "exchanged", "listed"}
         /\ callback[c].pc = "exchanged" => callback[c] \in Exchanged
         /\ callback[c].pc = "listed" => callback[c] \in Listed
<1>1. callback[c] \in {Idle, [pc |-> "consumed"]} \cup Exchanged \cup Listed
  BY DEF TypeOK
<1>2. Idle.pc = "idle" /\ [pc |-> "consumed"].pc = "consumed"
  BY DEF Idle
<1>3. \A x \in Exchanged : x.pc = "exchanged"
  BY DEF Exchanged
<1>4. \A x \in Listed : x.pc = "listed"
  BY DEF Listed
<1>5. QED BY <1>1, <1>2, <1>3, <1>4

\* Where a collector is tells what it holds.
LEMMA CollectorShape ==
  ASSUME TypeOK, NEW p \in Collectors
  PROVE  /\ collector[p] = Idle \/ collector[p].pc \in {"loaded", "answered", "failed", "has"}
         /\ collector[p].pc = "loaded" => collector[p] \in Loaded
         /\ collector[p].pc = "answered" => collector[p] \in Answered
         /\ collector[p].pc = "failed" => collector[p] \in Failed
         /\ collector[p].pc = "has" => collector[p] \in Has
<1>1. collector[p] \in {Idle} \cup Loaded \cup Answered \cup Failed \cup Has
  BY DEF TypeOK
<1>2. Idle.pc = "idle"
  BY DEF Idle
<1>3. \A x \in Loaded : x.pc = "loaded"
  BY DEF Loaded
<1>4. \A x \in Answered : x.pc = "answered"
  BY DEF Answered
<1>5. \A x \in Failed : x.pc = "failed"
  BY DEF Failed
<1>6. \A x \in Has : x.pc = "has"
  BY DEF Has
<1>7. QED BY <1>1, <1>2, <1>3, <1>4, <1>5, <1>6

\* What is closed is a closed token, or nothing where there was no token.
LEMMA EncryptType ==
  ASSUME key \in Keys
  PROVE  /\ \A t \in TokenA : Encrypt(t) = [key |-> key, token |-> t] /\ Encrypt(t) \in CipherA
         /\ \A t \in TokenR : Encrypt(t) = [key |-> key, token |-> t] /\ Encrypt(t) \in CipherR
         /\ Encrypt(NoToken) = NoToken /\ NoToken \in CipherR
  BY TokenApart DEF Encrypt, CipherA, CipherR

\* What opens is the token that was closed.
LEMMA DecryptType ==
  /\ \A x \in CipherA : Decrypt(x) = x.token /\ x.token \in TokenA
  /\ \A x \in CipherR : x # NoToken => Decrypt(x) = x.token /\ x.token \in TokenR
<1>1. NoToken \notin CipherA
  BY TokenApart DEF CipherA, NoToken
<1>2. QED BY <1>1 DEF Decrypt, CipherA, CipherR

-----------------------------------------------------------------------------
(* Atlassian's grants.                                                      *)

\* The grants given are numbered from one.
LEMMA GivenType ==
  ASSUME TypeOK
  PROVE  /\ grants \in [Given -> Grant]
         /\ Given = 1..Cardinality(Given)
         /\ Cardinality(Given) \in 0..MaxGrants
         /\ Given \subseteq GrantIds
<1>1. PICK n \in 0..MaxGrants : grants \in [1..n -> Grant]
  BY DEF TypeOK
<1>2. Given = 1..n
  BY <1>1 DEF Given
<1>3. Cardinality(1..n) = n
  BY <1>1, FS_Interval, Bounds
<1>4. QED BY <1>1, <1>2, <1>3, Bounds DEF GrantIds

\* A refresh replaces the grant's refresh token where Atlassian rotates, and
\* leaves everything else.
LEMMA RotateType ==
  ASSUME TypeOK, NEW g
  PROVE  /\ Rotate(g) \in [Given -> Grant]
         /\ \A h \in Given : /\ Rotate(g)[h].site = grants[h].site
                             /\ Rotate(g)[h].serial = IF rotates /\ h = g THEN grants[h].serial + 1
                                                      ELSE grants[h].serial
<1>1. grants \in [Given -> Grant]
  BY GivenType
<1>2. CASE rotates
  <2>1. Rotate(g) = [grants EXCEPT ![g].serial = @ + 1]
    BY <1>2 DEF Rotate
  <2>2. \A h \in Given : [grants[h] EXCEPT !.serial = @ + 1] \in Grant
    BY <1>1 DEF Grant
  <2>3. Rotate(g) = [grants EXCEPT ![g] = [grants[g] EXCEPT !.serial = grants[g].serial + 1]]
    BY <2>1
  <2>4. Rotate(g) \in [Given -> Grant]
    BY <1>1, <2>2, <2>3
  <2>5. ASSUME NEW h \in Given
        PROVE  Rotate(g)[h] = IF h = g THEN [grants[h] EXCEPT !.serial = grants[h].serial + 1]
                              ELSE grants[h]
    BY <1>1, <2>3
  <2>6. ASSUME NEW h \in Given
        PROVE  /\ [grants[h] EXCEPT !.serial = grants[h].serial + 1].site = grants[h].site
               /\ [grants[h] EXCEPT !.serial = grants[h].serial + 1].serial = grants[h].serial + 1
    BY <1>1 DEF Grant
  <2>7. QED BY <1>2, <2>4, <2>5, <2>6
<1>3. CASE ~rotates
  BY <1>1, <1>3 DEF Rotate
<1>4. QED BY <1>2, <1>3

-----------------------------------------------------------------------------
(* Types.                                                                   *)

LEMMA TypeInit == Init => TypeOK
<1> SUFFICES ASSUME Init PROVE TypeOK
  OBVIOUS
<1>1. grants \in [1..0 -> Grant] /\ 0 \in 0..MaxGrants
  BY Bounds DEF Init
<1>2. csrf \in [States -> -2..MaxTime + StateTTL]
  BY Bounds DEF Init
<1>3. /\ now \in 0..MaxTime /\ faults \in 0..MaxFaults
      /\ callback \in [Callbacks -> {Idle, [pc |-> "consumed"]} \cup Exchanged \cup Listed]
      /\ collector \in [Collectors -> {Idle} \cup Loaded \cup Answered \cup Failed \cup Has]
      /\ uses \in [States -> Nat]
  BY Bounds DEF Init
<1>4. \E n \in 0..MaxGrants : grants \in [1..n -> Grant]
  BY <1>1
<1>5. conn = NoRow /\ key \in Keys /\ rotates \in BOOLEAN /\ lost = {} /\ overtaken = FALSE
      /\ raced = FALSE
  BY DEF Init
<1>6. QED BY <1>2, <1>3, <1>4, <1>5 DEF TypeOK

\* A fault stays within its bound.
LEMMA FaultType == TypeOK /\ Fault => faults' \in 0..MaxFaults
  BY Bounds DEF TypeOK, Fault

\* An access token just issued is a token, if it is of a grant.
LEMMA AccessType == ASSUME TypeOK, NEW g \in GrantIds PROVE Access(g) \in TokenA
  BY Bounds DEF TypeOK, Access, TokenA

\* The callbacks' steps keep the types.
LEMMA TypeCallback ==
  ASSUME TypeOK, NEW c \in Callbacks, Callback(c)
  PROVE  TypeOK'
<1>1. ASSUME NEW s \in States, ConsumeState(c, s) PROVE TypeOK'
  <2>1. csrf' \in [States -> -2..MaxTime + StateTTL]
    BY <1>1, Bounds DEF ConsumeState, TypeOK
  <2>2. uses' \in [States -> Nat]
    BY <1>1 DEF ConsumeState, TypeOK
  <2>3. callback' \in [Callbacks -> {Idle, [pc |-> "consumed"]} \cup Exchanged \cup Listed]
    BY <1>1 DEF ConsumeState, TypeOK
  <2>4. QED BY <1>1, <2>1, <2>2, <2>3 DEF ConsumeState, TypeOK
<1>2. ASSUME NEW site \in Sites, NEW offline \in BOOLEAN, ExchangeCode(c, site, offline)
      PROVE  TypeOK'
  <2> DEFINE g == Cardinality(Given) + 1
             x == [pc |-> "exchanged", access |-> Access(g),
                   refresh |-> IF offline THEN [grant |-> g, serial |-> 0] ELSE NoToken]
  <2>1. g \in 1..MaxGrants
    BY <1>2, GivenType, Bounds DEF ExchangeCode
  <2>2. x \in Exchanged
    BY <2>1, AccessType DEF Exchanged, TokenR, GrantIds
  <2>3. grants' \in [1..g -> Grant]
    <3>1. \A h \in 1..g : h # g => h \in Given
      BY GivenType, <2>1
    <3>2. [site |-> site, serial |-> 0] \in Grant
      BY DEF Grant
    <3>3. QED BY <1>2, <3>1, <3>2, GivenType DEF ExchangeCode
  <2>4. callback' = [callback EXCEPT ![c] = x]
    BY <1>2 DEF ExchangeCode
  <2>5. g \in 0..MaxGrants
    BY <2>1, Bounds
  <2> HIDE DEF x, g
  <2>6. \E n \in 0..MaxGrants : grants' \in [1..n -> Grant]
    BY <2>3, <2>5
  <2>7. QED BY <1>2, <2>2, <2>4, <2>6 DEF ExchangeCode, TypeOK, hist
<1>3. ASSUME NEW cloud \in Sites \cup {"unknown"}, ListResources(c, cloud) PROVE TypeOK'
  <2>1. callback[c] \in Exchanged
    BY <1>3, CallbackShape DEF ListResources
  <2> DEFINE x == [pc |-> "listed", access |-> callback[c].access, refresh |-> callback[c].refresh,
                   cloud |-> cloud]
  <2>2. x \in Listed
    BY <2>1 DEF Exchanged, Listed, Clouds
  <2>3. callback' = [callback EXCEPT ![c] = x]
    BY <1>3 DEF ListResources
  <2> HIDE DEF x
  <2>4. QED BY <1>3, <2>2, <2>3 DEF ListResources, TypeOK, hist
<1>4. ASSUME SaveConnection(c) PROVE TypeOK'
  <2>1. callback[c] \in Listed
    BY <1>4, CallbackShape DEF SaveConnection
  <2>2. conn' \in Row
    <3>1. conn \in Row => conn.id \in GrantIds
      BY DEF Row
    <3>2. /\ callback[c].access \in TokenA /\ callback[c].access.grant \in GrantIds
          /\ callback[c].refresh \in TokenR \cup {NoToken} /\ callback[c].cloud \in Clouds
      BY <2>1 DEF Listed, TokenA
    <3>3. Encrypt(callback[c].access) \in CipherA /\ Encrypt(callback[c].refresh) \in CipherR
      BY <3>2, EncryptType DEF TypeOK
    <3>4. now + Life \in Nat
      BY Bounds DEF TypeOK
    <3>5. QED BY <1>4, <3>1, <3>2, <3>3, <3>4 DEF SaveConnection, Row, TypeOK
  <2>3. QED BY <1>4, <2>2 DEF SaveConnection, TypeOK
<1>5. ASSUME CallbackFails(c) PROVE TypeOK'
  BY <1>5, FaultType DEF CallbackFails, TypeOK, hist
<1>6. QED BY <1>1, <1>2, <1>3, <1>4, <1>5 DEF Callback

\* The collectors' steps keep the types.
LEMMA TypeCollector ==
  ASSUME TypeOK, NEW p \in Collectors, Collector(p)
  PROVE  TypeOK'
<1> DEFINE proc == collector[p]
<1>1. ASSUME TakeStored(p) PROVE TypeOK'
  <2> DEFINE x == [pc |-> "has", access |-> Decrypt(conn.access), at |-> now]
  <2>1. conn \in Row
    BY <1>1 DEF TakeStored, TypeOK
  <2>2. x \in Has
    BY <2>1, DecryptType DEF Row, Has, TypeOK
  <2>3. collector' = [collector EXCEPT ![p] = x]
    BY <1>1 DEF TakeStored
  <2> HIDE DEF x
  <2>4. QED BY <1>1, <2>2, <2>3 DEF TakeStored, TypeOK, hist
<1>2. ASSUME LoadForRefresh(p) PROVE TypeOK'
  <2> DEFINE x == [pc |-> "loaded", row |-> [id |-> conn.id, refresh |-> conn.refresh]]
  <2>1. conn \in Row
    BY <1>2 DEF LoadForRefresh, TypeOK
  <2>2. x \in Loaded
    BY <2>1 DEF Row, Loaded, RowRead
  <2>3. collector' = [collector EXCEPT ![p] = x]
    BY <1>2 DEF LoadForRefresh
  <2> HIDE DEF x
  <2>4. QED BY <1>2, <2>2, <2>3 DEF LoadForRefresh, TypeOK
<1>3. ASSUME RefreshAnswered(p) PROVE TypeOK'
  <2> DEFINE token == Decrypt(proc.row.refresh)
             x == [pc |-> "answered", row |-> proc.row, access |-> Access(token.grant),
                   refresh |-> IF rotates THEN [grant |-> token.grant, serial |-> token.serial + 1]
                               ELSE NoToken]
  <2>1. proc \in Loaded
    BY <1>3, CollectorShape DEF RefreshAnswered
  <2>2. Accepted(token)
    BY <1>3 DEF RefreshAnswered
  <2>3. token \in TokenR
    <3>1. CASE proc.row.refresh = NoToken
      <4>1. token = NoToken
        BY <3>1 DEF Decrypt
      <4>2. token # Latest(token.grant)
        <5>1. DOMAIN NoToken = {"grant"}
          BY DEF NoToken
        <5>2. "serial" \in DOMAIN Latest(token.grant)
          BY DEF Latest
        <5>3. QED BY <4>1, <5>1, <5>2
      <4>3. QED BY <2>2, <4>2 DEF Accepted
    <3>2. CASE proc.row.refresh # NoToken
      BY <2>1, <3>2, DecryptType DEF Loaded, RowRead
    <3>3. QED BY <3>1, <3>2
  <2>4. x \in Answered
    <3>1. Access(token.grant) \in TokenA
      BY <2>3, AccessType DEF TokenR
    <3>2. proc.row \in RowRead
      BY <2>1 DEF Loaded
    <3>3. [grant |-> token.grant, serial |-> token.serial + 1] \in TokenR
      BY <2>3 DEF TokenR
    <3>4. QED BY <3>1, <3>2, <3>3 DEF Answered
  <2>5. collector' = [collector EXCEPT ![p] = x] /\ grants' = Rotate(token.grant)
    BY <1>3 DEF RefreshAnswered
  <2> HIDE DEF x
  <2>6. collector' \in [Collectors -> {Idle} \cup Loaded \cup Answered \cup Failed \cup Has]
    BY <2>4, <2>5 DEF TypeOK
  <2>7. \E n \in 0..MaxGrants : grants' \in [1..n -> Grant]
    BY <2>5, RotateType, GivenType
  <2>8. QED BY <1>3, <2>6, <2>7 DEF RefreshAnswered, TypeOK, hist
<1>4. ASSUME proc.pc = "loaded" PROVE [pc |-> "failed", id |-> proc.row.id] \in Failed
  BY <1>4, CollectorShape DEF Loaded, RowRead, Failed
<1>5. ASSUME RefreshRefused(p) PROVE TypeOK'
  <2> DEFINE x == [pc |-> "failed", id |-> proc.row.id]
  <2>1. x \in Failed
    BY <1>4, <1>5 DEF RefreshRefused
  <2>2. collector' = [collector EXCEPT ![p] = x]
    BY <1>5 DEF RefreshRefused
  <2> HIDE DEF x
  <2>3. QED BY <1>5, <2>1, <2>2 DEF RefreshRefused, TypeOK, hist
<1>6. ASSUME RefreshLost(p) PROVE TypeOK'
  <2> DEFINE x == [pc |-> "failed", id |-> proc.row.id]
             token == Decrypt(proc.row.refresh)
  <2>1. x \in Failed
    BY <1>4, <1>6 DEF RefreshLost
  <2>2. proc \in Loaded
    BY <1>6, CollectorShape DEF RefreshLost
  <2>3. proc.row.refresh \in CipherR
    BY <2>2 DEF Loaded, RowRead
  <2>4. token.grant \in GrantIds \cup {0}
    <3>1. CASE proc.row.refresh = NoToken
      BY <3>1 DEF Decrypt, NoToken
    <3>2. CASE proc.row.refresh # NoToken
      BY <2>3, <3>2, DecryptType DEF TokenR
    <3>3. QED BY <3>1, <3>2
  <2>5. collector' = [collector EXCEPT ![p] = x]
    BY <1>6 DEF RefreshLost
  <2>6. CASE UNCHANGED <<grants, lost>>
    <3> HIDE DEF x
    <3>1. QED BY <1>6, <2>1, <2>5, <2>6, FaultType DEF RefreshLost, TypeOK
  <2>7. CASE Accepted(token) /\ grants' = Rotate(token.grant) /\ lost' = lost \cup {token.grant}
    <3>1. token # NoToken
      <4>1. DOMAIN NoToken = {"grant"}
        BY DEF NoToken
      <4>2. "serial" \in DOMAIN Latest(token.grant)
        BY DEF Latest
      <4>3. QED BY <2>7, <4>1, <4>2 DEF Accepted
    <3>2. token.grant \in GrantIds
      <4>1. proc.row.refresh # NoToken
        BY <3>1 DEF Decrypt
      <4>2. QED BY <2>3, <4>1, DecryptType DEF TokenR
    <3>3. \E n \in 0..MaxGrants : grants' \in [1..n -> Grant]
      BY <2>7, RotateType, GivenType
    <3> HIDE DEF x, token
    <3>4. QED BY <1>6, <2>1, <2>5, <2>7, <3>2, <3>3, FaultType DEF RefreshLost, TypeOK
  <2>8. QED BY <1>6, <2>6, <2>7 DEF RefreshLost
<1>7. ASSUME MarkError(p) PROVE TypeOK'
  <2>1. conn' \in {NoRow} \cup Row
    <3>1. CASE conn' = conn
      BY <3>1 DEF TypeOK
    <3>2. CASE conn.id = proc.id /\ conn' = [conn EXCEPT !.error = TRUE]
      <4>1. proc.id \in GrantIds
        BY <1>7, CollectorShape DEF MarkError, Failed
      <4>2. conn \in Row
        BY <3>2, <4>1, NoRowId DEF TypeOK
      <4>3. QED BY <3>2, <4>2 DEF Row
    <3>3. QED BY <1>7, <3>1, <3>2 DEF MarkError
  <2>2. faults' \in 0..MaxFaults
    BY <1>7, FaultType DEF MarkError, TypeOK
  <2>3. QED BY <1>7, <2>1, <2>2 DEF MarkError, TypeOK, hist
<1>8. ASSUME SaveRefreshed(p) PROVE TypeOK'
  <2> DEFINE x == [pc |-> "has", access |-> proc.access, at |-> now]
  <2>1. proc \in Answered
    BY <1>8, CollectorShape DEF SaveRefreshed
  <2>2. x \in Has
    BY <2>1 DEF Answered, Has, TypeOK
  <2>3. conn' \in {NoRow} \cup Row
    <3>1. CASE conn' = conn
      BY <3>1 DEF TypeOK
    <3>2. CASE Meets(proc)
      <4>1. conn \in Row
        BY <3>2 DEF Meets, TypeOK
      <4>2. Encrypt(proc.access) \in CipherA
        BY <2>1, EncryptType DEF Answered, TypeOK
      <4>3. KeptRefresh(proc) \in CipherR
        BY <2>1, EncryptType DEF Answered, RowRead, KeptRefresh, TypeOK
      <4>4. now + Life \in Nat
        BY Bounds DEF TypeOK
      <4>5. conn' = [conn EXCEPT !.access = Encrypt(proc.access), !.refresh = KeptRefresh(proc),
                                 !.expires = now + Life, !.error = FALSE]
        BY <1>8, <3>2 DEF SaveRefreshed
      <4>6. QED BY <4>1, <4>2, <4>3, <4>4, <4>5 DEF Row
    <3>3. QED BY <1>8, <3>1, <3>2 DEF SaveRefreshed
  <2>4. collector' = [collector EXCEPT ![p] = x]
    BY <1>8 DEF SaveRefreshed
  <2> HIDE DEF x
  <2>5. QED BY <1>8, <2>2, <2>3, <2>4 DEF SaveRefreshed, TypeOK, hist
<1>9. ASSUME CollectorFails(p) PROVE TypeOK'
  <2>1. lost' \subseteq GrantIds
    BY <1>9, CollectorShape DEF CollectorFails, Answered, TokenA, TypeOK
  <2>2. QED BY <1>9, <2>1, FaultType DEF CollectorFails, TypeOK
<1>10. ASSUME Finish(p) PROVE TypeOK'
  BY <1>10 DEF Finish, TypeOK, hist
<1>11. QED BY <1>1, <1>2, <1>3, <1>5, <1>6, <1>7, <1>8, <1>9, <1>10 DEF Collector

LEMMA TypeNext == TypeOK /\ [Next]_vars => TypeOK'
<1> SUFFICES ASSUME TypeOK, [Next]_vars PROVE TypeOK'
  OBVIOUS
<1>1. CASE Tick
  <2>1. now' \in 0..MaxTime
    BY <1>1, Bounds DEF Tick, TypeOK
  <2>2. QED BY <1>1, <2>1 DEF Tick, TypeOK, hist
<1>2. ASSUME NEW s \in States, Authorize(s) PROVE TypeOK'
  <2>1. csrf' \in [States -> -2..MaxTime + StateTTL]
    BY <1>2, Bounds DEF Authorize, StartConnect, TypeOK
  <2>2. QED BY <1>2, <2>1 DEF Authorize, TypeOK, hist
<1>3. CASE Disconnect
  BY <1>3 DEF Disconnect, DeleteConnection, TypeOK
<1>4. ASSUME NEW k \in Keys, ChangeKey(k) PROVE TypeOK'
  BY <1>4, FaultType DEF ChangeKey, TypeOK, hist
<1>5. CASE UNCHANGED vars
  BY <1>5 DEF vars, hist, TypeOK
<1>6. QED BY <1>1, <1>2, <1>3, <1>4, <1>5, TypeCallback, TypeCollector DEF Next

\* Every variable keeps its type.
THEOREM TypeCorrect == Spec => []TypeOK
  BY TypeInit, TypeNext, PTL DEF Spec

-----------------------------------------------------------------------------
(* The invariants.                                                          *)

\* A state that is still there has been accepted for no connection.
Accepting == \A s \in States : uses[s] <= 1 /\ (csrf[s] # -2 => uses[s] = 0)

\* An access token issued at most wait ago.
Recent(access, wait) ==
  Life <= access.until /\ access.until <= now + Life /\ now + Life <= access.until + wait

\* What a request or a collector brings was issued within the timeouts of its
\* calls, so the row's expires_at runs behind the token's own end by no more.
Timely ==
  /\ \A c \in Callbacks :
       /\ callback[c].pc = "exchanged" => Recent(callback[c].access, Timeout)
       /\ callback[c].pc = "listed" => Recent(callback[c].access, 2 * Timeout)
  /\ \A p \in Collectors : collector[p].pc = "answered" => Recent(collector[p].access, Timeout)
  /\ conn # NoRow => conn.expires <= conn.access.token.until + 2 * Timeout
  /\ TakenTokensLive

\* Requests that hold a grant not yet saved, and collectors that hold a refresh
\* token of a row they read.
Pending(c) == callback[c].pc \in {"exchanged", "listed"}
InHand(p)  == collector[p].pc \in {"loaded", "answered"}
Token(p)   == collector[p].row.refresh.token

\* A grant not yet saved is in the hands of the request that got it, and of
\* nothing else: no row, and no collector, has its tokens or its number as an id.
Unsaved ==
  \A c \in Callbacks : Pending(c) =>
    LET g == callback[c].access.grant IN
    /\ g \in Given /\ grants[g].serial = 0
    /\ callback[c].refresh \in {NoToken, [grant |-> g, serial |-> 0]}
    /\ callback[c].pc = "listed" => callback[c].cloud \in {grants[g].site, "unknown"}
    /\ \A d \in Callbacks : Pending(d) /\ d # c => callback[d].access.grant # g
    /\ conn # NoRow => conn.id # g /\ conn.access.token.grant # g
    /\ \A p \in Collectors :
         /\ InHand(p) => collector[p].row.id # g /\ Token(p).grant # g
         /\ collector[p].pc = "failed" => collector[p].id # g

\* The row's tokens are of one grant that was given, and none is ahead of it.
Stored ==
  conn # NoRow =>
    LET g == conn.access.token.grant IN
    /\ conn.id \in Given /\ g \in Given
    /\ conn.refresh # NoToken =>
         conn.refresh.token.grant = g /\ conn.refresh.token.serial <= grants[g].serial
    /\ overtaken \/ conn.cloud \in {grants[g].site, "unknown"}

\* What a collector read was of a row; tokens of one grant are of one row; a row
\* that no reconnection overtook still has the grant the collector read.
Carried ==
  /\ \A p \in Collectors : InHand(p) =>
       /\ collector[p].row.id \in Given
       /\ collector[p].row.refresh # NoToken /\ Token(p).grant \in Given
       /\ Token(p).serial <= grants[Token(p).grant].serial
       /\ conn # NoRow /\ conn.access.token.grant = Token(p).grant => collector[p].row.id = conn.id
       /\ conn # NoRow /\ collector[p].row.id = conn.id =>
            overtaken \/ conn.access.token.grant = Token(p).grant
       /\ \A q \in Collectors : InHand(q) /\ Token(q).grant = Token(p).grant =>
            collector[q].row.id = collector[p].row.id
  /\ \A p \in Collectors : collector[p].pc = "failed" => collector[p].id \in Given

\* A collector Atlassian answered is the only one to hold the grant's latest
\* refresh token, where refresh tokens rotate; where they do not, there is one.
Rotating ==
  /\ ~rotates => \A g \in Given : grants[g].serial = 0
  /\ \A p \in Collectors : collector[p].pc = "answered" =>
       LET g == Token(p).grant IN
       /\ collector[p].access.grant = g
       /\ collector[p].refresh = IF rotates THEN Latest(g) ELSE NoToken
       /\ rotates =>
            /\ conn # NoRow /\ conn.refresh # NoToken /\ conn.access.token.grant = g =>
                 conn.refresh.token.serial < grants[g].serial
            /\ \A q \in Collectors : InHand(q) /\ q # p /\ Token(q).grant = g =>
                 collector[q].pc = "loaded" /\ Token(q).serial < grants[g].serial

\* Without failures, and as long as no two collectors refreshed the row at a time,
\* the one that does holds a token Atlassian accepts.
Smooth ==
  faults = 0 =>
    /\ lost = {}
    /\ conn # NoRow /\ ~raced =>
         /\ Healthy
         /\ \A p \in InFlight : \A q \in InFlight : p = q
         /\ \A p \in InFlight : collector[p].pc = "loaded" => Accepted(Token(p))
         /\ \A p \in Collectors : collector[p].pc = "failed" => collector[p].id # conn.id

Connected == Unsaved /\ Stored /\ Carried /\ Rotating /\ StoredIsAccepted /\ Smooth

-----------------------------------------------------------------------------
(* States.                                                                  *)

LEMMA AcceptingNext == TypeOK /\ Accepting /\ [Next]_vars => Accepting'
<1> SUFFICES ASSUME TypeOK, Accepting, [Next]_vars PROVE Accepting'
  OBVIOUS
<1>1. ASSUME UNCHANGED <<csrf, uses>> PROVE Accepting'
  BY <1>1 DEF Accepting
<1>2. ASSUME NEW s \in States, Authorize(s) PROVE Accepting'
  BY <1>2, Bounds DEF Authorize, StartConnect, Accepting, TypeOK, hist
<1>3. ASSUME NEW c \in Callbacks, Callback(c) PROVE Accepting'
  <2>1. ASSUME NEW s \in States, ConsumeState(c, s) PROVE Accepting'
    <3>1. uses[s] = 0
      BY <2>1 DEF ConsumeState, Accepting, TypeOK
    <3>2. csrf' = [csrf EXCEPT ![s] = -2] /\ uses' \in {uses, [uses EXCEPT ![s] = uses[s] + 1]}
      BY <2>1 DEF ConsumeState
    <3>3. QED BY <3>1, <3>2 DEF Accepting, TypeOK
  <2>2. QED
    BY <1>1, <1>3, <2>1 DEF Callback, ExchangeCode, ListResources, SaveConnection, CallbackFails, hist
<1>4. ASSUME NEW p \in Collectors, Collector(p) PROVE UNCHANGED <<csrf, uses>>
  BY <1>4 DEF Collector, TakeStored, LoadForRefresh, RefreshAnswered, RefreshRefused, RefreshLost,
              MarkError, SaveRefreshed, CollectorFails, Finish, hist
<1>5. QED BY <1>1, <1>2, <1>3, <1>4 DEF Next, Tick, Disconnect, ChangeKey, vars, hist

\* A state is accepted for one connection at most, however many requests carry it.
THEOREM StateAcceptedOnce == Spec => []StateUsedOnce
<1>1. Init => Accepting
  BY DEF Init, Accepting
<1>2. Accepting => StateUsedOnce
  BY DEF Accepting, StateUsedOnce
<1>3. QED BY <1>1, <1>2, AcceptingNext, TypeCorrect, PTL DEF Spec

-----------------------------------------------------------------------------
(* Times.                                                                   *)

\* An access token's end and a wait are naturals, and so is what was stored.
LEMMA Ends ==
  ASSUME TypeOK
  PROVE  /\ now \in Nat /\ now <= MaxTime
         /\ \A c \in Callbacks : Pending(c) => callback[c].access.until \in Nat
         /\ \A p \in Collectors : collector[p].pc \in {"answered", "has"} =>
              collector[p].access.until \in Nat
         /\ \A p \in Collectors : collector[p].pc = "has" => collector[p].at \in Nat
         /\ conn # NoRow => conn.expires \in Nat /\ conn.access.token.until \in Nat
                            /\ conn.access \in CipherA
<1>1. now \in Nat /\ now <= MaxTime
  BY Bounds DEF TypeOK
<1>2. \A c \in Callbacks : Pending(c) => callback[c].access \in TokenA
  BY CallbackShape DEF Pending, Exchanged, Listed
<1>3. \A p \in Collectors : collector[p].pc \in {"answered", "has"} => collector[p].access \in TokenA
  BY CollectorShape DEF Answered, Has
<1>4. \A p \in Collectors : collector[p].pc = "has" => collector[p].at \in Nat
  BY CollectorShape DEF Has
<1>5. conn # NoRow => conn.expires \in Nat /\ conn.access \in CipherA /\ conn.access.token \in TokenA
  BY DEF TypeOK, Row, CipherA
<1>6. QED BY <1>1, <1>2, <1>3, <1>4, <1>5 DEF TokenA

\* Time does not pass over a call that has taken as long as it may.
LEMMA TimelyTick == TypeOK /\ Timely /\ Tick => Timely'
<1> SUFFICES ASSUME TypeOK, Timely, Tick PROVE Timely'
  OBVIOUS
<1>1. /\ now' = now + 1 /\ now + 1 <= MaxTime
      /\ UNCHANGED <<callback, collector, conn>>
  BY Ends, Bounds DEF Tick, TypeOK
<1>2. ASSUME NEW access, access.until \in Nat, NEW wait \in Nat, Recent(access, wait),
             wait < MaxTime => now - (access.until - Life) < wait
      PROVE  Recent(access, wait)'
  BY <1>1, <1>2, Ends, Bounds DEF Recent
<1>3. ASSUME NEW c \in Callbacks
      PROVE  /\ callback[c].pc = "exchanged" => Recent(callback[c].access, Timeout)'
             /\ callback[c].pc = "listed" => Recent(callback[c].access, 2 * Timeout)'
  <2>1. InTime(callback[c])
    BY DEF Tick
  <2>2. callback[c].pc = "exchanged" => Waits(callback[c]) = Timeout
    BY DEF Waits
  <2>3. callback[c].pc = "listed" => Waits(callback[c]) = 2 * Timeout
    BY DEF Waits
  <2>4. QED BY <1>1, <1>2, <2>1, <2>2, <2>3, Ends, Bounds DEF Timely, InTime, Pending
<1>4. ASSUME NEW p \in Collectors, collector[p].pc = "answered"
      PROVE  Recent(collector[p].access, Timeout)'
  <2>1. InTime(collector[p])
    BY DEF Tick
  <2>2. Waits(collector[p]) = Timeout
    BY <1>4 DEF Waits
  <2>3. QED BY <1>1, <1>2, <1>4, <2>1, <2>2, Ends, Bounds DEF Timely, InTime
<1>5. QED BY <1>1, <1>3, <1>4 DEF Timely, TakenTokensLive

LEMMA TimelyCallback ==
  ASSUME TypeOK, Timely, NEW c \in Callbacks, Callback(c)
  PROVE  Timely'
<1>1. ASSUME UNCHANGED <<now, conn, collector>>,
             NEW x, callback' = [callback EXCEPT ![c] = x],
             x.pc = "exchanged" => Recent(x.access, Timeout),
             x.pc = "listed" => Recent(x.access, 2 * Timeout)
      PROVE  Timely'
  <2>1. \A d \in Callbacks : callback'[d] = IF d = c THEN x ELSE callback[d]
    BY <1>1 DEF TypeOK
  <2>2. QED BY <1>1, <2>1 DEF Timely, TakenTokensLive, Recent
<1>2. Idle.pc = "idle" /\ [pc |-> "consumed"].pc = "consumed"
  BY DEF Idle
<1>3. ASSUME NEW s \in States, ConsumeState(c, s) PROVE Timely'
  <2>1. CASE UNCHANGED callback
    BY <1>3, <2>1 DEF ConsumeState, Timely, TakenTokensLive, Recent
  <2>2. CASE callback' = [callback EXCEPT ![c] = [pc |-> "consumed"]]
    BY <1>1, <1>2, <1>3, <2>2 DEF ConsumeState
  <2>3. QED BY <1>3, <2>1, <2>2 DEF ConsumeState
<1>4. ASSUME NEW site \in Sites, NEW offline \in BOOLEAN, ExchangeCode(c, site, offline)
      PROVE  Timely'
  <2>1. Recent(Access(Cardinality(Given) + 1), Timeout)
    BY Ends, Bounds DEF Recent, Access
  <2>2. QED BY <1>1, <1>4, <2>1 DEF ExchangeCode
<1>5. ASSUME NEW cloud \in Sites \cup {"unknown"}, ListResources(c, cloud) PROVE Timely'
  <2>1. Recent(callback[c].access, 2 * Timeout)
    BY <1>5, Ends, Bounds DEF ListResources, Timely, Recent, Pending
  <2>2. QED BY <1>1, <1>5, <2>1 DEF ListResources
<1>6. ASSUME SaveConnection(c) PROVE Timely'
  <2>1. callback[c].access \in TokenA /\ Recent(callback[c].access, 2 * Timeout)
    BY <1>6, CallbackShape DEF SaveConnection, Timely, Listed
  <2>2. conn'.expires = now + Life /\ conn'.access.token = callback[c].access
    BY <1>6, <2>1, EncryptType DEF SaveConnection, TypeOK
  <2>3. conn'.expires <= conn'.access.token.until + 2 * Timeout
    BY <2>1, <2>2, Ends, Bounds DEF Recent, TokenA
  <2>4. \A d \in Callbacks : callback'[d] = IF d = c THEN Idle ELSE callback[d]
    BY <1>6 DEF SaveConnection, TypeOK
  <2>5. UNCHANGED <<now, collector>>
    BY <1>6 DEF SaveConnection
  <2>6. QED BY <1>2, <2>3, <2>4, <2>5 DEF Timely, TakenTokensLive, Recent
<1>7. ASSUME CallbackFails(c) PROVE Timely'
  BY <1>1, <1>2, <1>7 DEF CallbackFails
<1>8. QED BY <1>3, <1>4, <1>5, <1>6, <1>7 DEF Callback

LEMMA TimelyCollector ==
  ASSUME TypeOK, Timely, NEW p \in Collectors, Collector(p)
  PROVE  Timely'
<1>1. ASSUME UNCHANGED <<now, callback>>,
             NEW x, collector' = [collector EXCEPT ![p] = x],
             x.pc = "answered" => Recent(x.access, Timeout),
             x.pc = "has" => x.access.until >= x.at + Margin - 2 * Timeout,
             conn' # NoRow => conn'.expires <= conn'.access.token.until + 2 * Timeout
      PROVE  Timely'
  <2>1. \A q \in Collectors : collector'[q] = IF q = p THEN x ELSE collector[q]
    BY <1>1 DEF TypeOK
  <2>2. QED BY <1>1, <2>1 DEF Timely, TakenTokensLive, Recent
<1>2. conn # NoRow => conn.expires <= conn.access.token.until + 2 * Timeout
  BY DEF Timely
<1>3. ASSUME TakeStored(p) PROVE Timely'
  <2> DEFINE x == [pc |-> "has", access |-> Decrypt(conn.access), at |-> now]
  <2>1. conn # NoRow /\ now + Margin <= conn.expires
    BY <1>3, Ends, Bounds DEF TakeStored, NearExpiry
  <2>2. Decrypt(conn.access) = conn.access.token
    BY <2>1, Ends, DecryptType
  <2>3. conn.access.token.until >= now + Margin - 2 * Timeout
    BY <1>2, <2>1, Ends, Bounds
  <2>4. x.access.until >= x.at + Margin - 2 * Timeout
    BY <2>2, <2>3
  <2>5. collector' = [collector EXCEPT ![p] = x] /\ x.pc = "has" /\ UNCHANGED <<now, callback, conn>>
    BY <1>3 DEF TakeStored
  <2> HIDE DEF x
  <2>6. QED BY <1>1, <1>2, <2>4, <2>5
<1>4. ASSUME RefreshAnswered(p) PROVE Timely'
  <2> DEFINE g == Decrypt(collector[p].row.refresh).grant
  <2>1. Recent(Access(g), Timeout)
    BY Ends, Bounds DEF Recent, Access
  <2>2. PICK r : collector' = [collector EXCEPT ![p] =
           [pc |-> "answered", row |-> collector[p].row, access |-> Access(g), refresh |-> r]]
    BY <1>4 DEF RefreshAnswered
  <2> HIDE DEF g
  <2>3. QED BY <1>1, <1>2, <1>4, <2>1, <2>2 DEF RefreshAnswered
<1>5. ASSUME SaveRefreshed(p) PROVE Timely'
  <2> DEFINE x == [pc |-> "has", access |-> collector[p].access, at |-> now]
  <2>1. collector[p].access \in TokenA /\ Recent(collector[p].access, Timeout)
    BY <1>5, CollectorShape DEF SaveRefreshed, Timely, Answered
  <2>2. x.access.until >= x.at + Margin - 2 * Timeout
    BY <2>1, Ends, Bounds DEF Recent, TokenA
  <2>3. conn' # NoRow => conn'.expires <= conn'.access.token.until + 2 * Timeout
    <3>1. CASE conn' = conn
      BY <1>2, <3>1
    <3>2. CASE Meets(collector[p])
      <4>1. conn' = [conn EXCEPT !.access = Encrypt(collector[p].access),
                                 !.refresh = KeptRefresh(collector[p]),
                                 !.expires = now + Life, !.error = FALSE]
        BY <1>5, <3>2 DEF SaveRefreshed
      <4>2. conn \in Row
        BY <3>2 DEF Meets, TypeOK
      <4>3. conn'.expires = now + Life /\ conn'.access = Encrypt(collector[p].access)
        BY <4>1, <4>2 DEF Row
      <4>4. conn'.access.token = collector[p].access
        BY <2>1, <4>3, EncryptType DEF TypeOK
      <4>5. QED BY <2>1, <4>3, <4>4, Ends, Bounds DEF Recent, TokenA
    <3>3. QED BY <1>5, <3>1, <3>2 DEF SaveRefreshed
  <2>4. collector' = [collector EXCEPT ![p] = x] /\ x.pc = "has" /\ UNCHANGED <<now, callback>>
    BY <1>5 DEF SaveRefreshed
  <2> HIDE DEF x
  <2>5. QED BY <1>1, <2>2, <2>3, <2>4
<1>6. ASSUME MarkError(p) PROVE Timely'
  <2>1. conn' # NoRow => conn'.expires <= conn'.access.token.until + 2 * Timeout
    <3>1. CASE conn' = conn
      BY <1>2, <3>1
    <3>2. CASE conn.id = collector[p].id /\ conn' = [conn EXCEPT !.error = TRUE]
      <4>1. collector[p].id \in GrantIds
        BY <1>6, CollectorShape DEF MarkError, Failed
      <4>2. conn \in Row /\ conn # NoRow
        BY <3>2, <4>1, NoRowId DEF TypeOK
      <4>3. conn'.expires = conn.expires /\ conn'.access = conn.access
        BY <3>2, <4>2 DEF Row
      <4>4. QED BY <1>2, <4>2, <4>3
    <3>3. QED BY <1>6, <3>1, <3>2 DEF MarkError
  <2>2. collector' = [collector EXCEPT ![p] = Idle] /\ Idle.pc = "idle" /\ UNCHANGED <<now, callback>>
    BY <1>6 DEF MarkError, Idle
  <2>3. QED BY <1>1, <2>1, <2>2
<1>7. ASSUME UNCHANGED <<now, callback, conn>>,
             NEW x, collector' = [collector EXCEPT ![p] = x], x.pc \notin {"answered", "has"}
      PROVE  Timely'
  BY <1>1, <1>2, <1>7
<1>8. Idle.pc = "idle"
  BY DEF Idle
<1>9. CASE LoadForRefresh(p)
  BY <1>7, <1>9 DEF LoadForRefresh
<1>10. CASE RefreshRefused(p)
  BY <1>7, <1>10 DEF RefreshRefused
<1>11. CASE RefreshLost(p)
  BY <1>7, <1>11 DEF RefreshLost
<1>12. CASE CollectorFails(p)
  BY <1>7, <1>8, <1>12 DEF CollectorFails
<1>13. CASE Finish(p)
  BY <1>7, <1>8, <1>13 DEF Finish
<1>14. QED BY <1>3, <1>4, <1>5, <1>6, <1>9, <1>10, <1>11, <1>12, <1>13 DEF Collector

LEMMA TimelyNext == TypeOK /\ Timely /\ [Next]_vars => Timely'
<1> SUFFICES ASSUME TypeOK, Timely, [Next]_vars PROVE Timely'
  OBVIOUS
<1>1. ASSUME UNCHANGED <<now, callback, collector, conn>> PROVE Timely'
  BY <1>1 DEF Timely, TakenTokensLive, Recent
<1>2. ASSUME Disconnect PROVE Timely'
  BY <1>2 DEF Disconnect, DeleteConnection, Timely, TakenTokensLive, Recent
<1>3. QED
  BY <1>1, <1>2, TimelyTick, TimelyCallback, TimelyCollector DEF Next, Authorize, ChangeKey, vars, hist

\* A token handed out stays valid for the margin, less what its answer may have
\* taken, although its end is counted from the answer's arrival.
THEOREM TakenStayLive == Spec => []TakenTokensLive
<1>1. Init => Timely
  BY DEF Init, Timely, TakenTokensLive, Idle
<1>2. Timely => TakenTokensLive
  BY DEF Timely
<1>3. QED BY <1>1, <1>2, TimelyNext, TypeCorrect, PTL DEF Spec

-----------------------------------------------------------------------------
(* Tokens.                                                                  *)

\* What a row, a collector and a grant count is a natural.
LEMMA Serials ==
  ASSUME TypeOK
  PROVE  /\ conn # NoRow => /\ conn \in Row /\ conn.id \in GrantIds
                            /\ conn.access \in CipherA /\ conn.refresh \in CipherR
                            /\ conn.refresh # NoToken => conn.refresh.token.serial \in Nat
                            /\ conn.refresh # NoToken => conn.refresh.token \in TokenR
         /\ \A p \in Collectors : InHand(p) =>
              /\ collector[p].row.id \in GrantIds
              /\ collector[p].row.refresh \in CipherR
              /\ collector[p].row.refresh # NoToken => Token(p).serial \in Nat
              /\ collector[p].row.refresh # NoToken => Token(p) \in TokenR
         /\ \A g \in Given : grants[g].serial \in Nat
         /\ faults \in Nat
<1>1. conn # NoRow => /\ conn \in Row /\ conn.id \in GrantIds
                      /\ conn.access \in CipherA /\ conn.refresh \in CipherR
  BY DEF TypeOK, Row
<1>2. \A p \in Collectors : InHand(p) => collector[p].row \in RowRead
  BY CollectorShape DEF InHand, Loaded, Answered
<1>3. \A r \in RowRead : r.id \in GrantIds /\ r.refresh \in CipherR
  BY DEF RowRead
<1>4. \A x \in CipherR : x # NoToken => x.token \in TokenR
  BY DEF CipherR
<1>5. \A t \in TokenR : t.serial \in Nat
  BY DEF TokenR
<1>6. \A g \in Given : grants[g].serial \in Nat
  BY GivenType DEF Grant
<1>7. faults \in Nat
  BY Bounds DEF TypeOK
<1>8. QED BY <1>1, <1>2, <1>3, <1>4, <1>5, <1>6, <1>7 DEF Token

\* A refresh token is accepted that has its grant's serial.
LEMMA AcceptedSerial ==
  ASSUME NEW t \in TokenR
  PROVE  Accepted(t) <=> t.serial = grants[t.grant].serial
<1>1. t = [grant |-> t.grant, serial |-> t.serial]
  BY DEF TokenR
<1>2. QED BY <1>1 DEF Accepted, Latest

\* Only a row has an id a collector can have read.
LEMMA FlightOfRow ==
  ASSUME TypeOK
  PROVE  \A p \in InFlight : p \in Collectors /\ InHand(p) /\ conn # NoRow
                             /\ collector[p].row.id = conn.id
<1>1. \A p \in Collectors : InHand(p) => collector[p].row.id # NoRow.id
  BY Serials, NoRowId
<1>2. QED BY <1>1 DEF InFlight, InHand

\* Nothing the connection depends on changes.
LEMMA ConnectedFrame ==
  ASSUME TypeOK, Connected, UNCHANGED <<callback, conn, collector, rotates, grants, lost>>,
         UNCHANGED <<overtaken, raced>>, faults' = faults \/ faults' > 0
  PROVE  Connected'
<1>1. Unsaved'
  BY DEF Connected, Unsaved, Given, Pending, InHand, Token
<1>2. (Stored /\ Carried)'
  BY DEF Connected, Stored, Carried, Given, InHand, Token
<1>3. (Rotating /\ StoredIsAccepted)'
  BY DEF Connected, Rotating, StoredIsAccepted, Given, InHand, Token, Latest, Accepted
<1>4. Smooth'
  BY DEF Connected, Smooth, InFlight, Accepted, Latest, Token, Healthy
<1>5. QED BY <1>1, <1>2, <1>3, <1>4 DEF Connected

\* A request to /callback goes on with the grant it holds, or without any.
LEMMA ConnectedCallback ==
  ASSUME TypeOK, Connected, UNCHANGED <<conn, collector, rotates, grants, lost>>,
         UNCHANGED <<overtaken, raced>>, faults' = faults \/ faults' > 0,
         NEW c \in Callbacks, NEW x, callback' = [callback EXCEPT ![c] = x],
         \/ x.pc \notin {"exchanged", "listed"}
         \/ /\ Pending(c) /\ x.pc = "listed"
            /\ x.access = callback[c].access /\ x.refresh = callback[c].refresh
            /\ x.cloud \in {grants[x.access.grant].site, "unknown"}
  PROVE  Connected'
<1>1. \A d \in Callbacks : callback'[d] = IF d = c THEN x ELSE callback[d]
  BY DEF TypeOK
<1>2. \A d \in Callbacks : Pending(d)' =>
         /\ Pending(d) /\ callback'[d].access = callback[d].access
         /\ callback'[d].refresh = callback[d].refresh
         /\ callback'[d].pc = "listed" =>
              \/ callback'[d].cloud \in {grants[callback[d].access.grant].site, "unknown"}
              \/ callback'[d] = callback[d]
  BY <1>1 DEF Pending
<1>3. Unsaved'
  BY <1>2 DEF Connected, Unsaved, Given, InHand, Token
<1>4. (Stored /\ Carried /\ Rotating /\ StoredIsAccepted)'
  BY DEF Connected, Stored, Carried, Rotating, StoredIsAccepted, Given, InHand,
         Token, Latest, Accepted
<1>5. Smooth'
  BY DEF Connected, Smooth, InFlight, Accepted, Latest, Token, Healthy
<1>6. QED BY <1>3, <1>4, <1>5 DEF Connected

\* ExchangeCode gives a grant nothing refers to yet.
LEMMA ConnectedExchange ==
  ASSUME TypeOK, Connected, NEW c \in Callbacks, NEW site \in Sites, NEW offline \in BOOLEAN,
         ExchangeCode(c, site, offline)
  PROVE  Connected'
<1> DEFINE g == Cardinality(Given) + 1
<1>1. g \notin Given /\ Given' = Given \cup {g} /\ g \in Given'
  <2>1. Given' = 1..g
    BY DEF ExchangeCode, Given
  <2>2. Given = 1..Cardinality(Given) /\ Cardinality(Given) \in Nat
    BY GivenType, Bounds
  <2>3. QED BY <2>1, <2>2
<1>2. \A h \in Given : grants'[h] = grants[h]
  BY <1>1 DEF ExchangeCode, Given
<1>3. grants'[g].site = site /\ grants'[g].serial = 0
  BY <1>1 DEF ExchangeCode, Given
<1> DEFINE x == [pc |-> "exchanged", access |-> Access(g),
                 refresh |-> IF offline THEN [grant |-> g, serial |-> 0] ELSE NoToken]
<1>4. /\ callback' = [callback EXCEPT ![c] = x]
      /\ x.pc = "exchanged" /\ x.access.grant = g
      /\ x.refresh \in {NoToken, [grant |-> g, serial |-> 0]}
  BY DEF ExchangeCode, Access
<1>5. \A d \in Callbacks : callback'[d] = IF d = c THEN x ELSE callback[d]
  BY <1>4 DEF TypeOK
<1>6. UNCHANGED <<conn, collector, rotates, lost, overtaken, raced, faults>>
  BY DEF ExchangeCode, hist
<1> HIDE DEF g, x
<1>7. Stored'
  BY <1>1, <1>2, <1>6 DEF Connected, Stored
<1>8. Carried'
  BY <1>1, <1>2, <1>6 DEF Connected, Carried, InHand, Token
<1>9. Rotating'
  BY <1>1, <1>2, <1>3, <1>6, Serials DEF Connected, Rotating, Carried, InHand, Token, Latest
<1>10. Unsaved'
  <2>1. ASSUME NEW d \in Callbacks, Pending(d)', d # c
        PROVE  /\ Pending(d) /\ callback'[d] = callback[d]
               /\ callback[d].access.grant \in Given /\ callback[d].access.grant # g
    BY <1>1, <1>5, <2>1 DEF Pending, Connected, Unsaved
  <2>2. callback'[c] = x
    BY <1>5
  <2>3. conn # NoRow => conn.id \in Given /\ conn.access.token.grant \in Given
    BY DEF Connected, Stored
  <2>4. \A p \in Collectors : /\ InHand(p) => collector[p].row.id \in Given /\ Token(p).grant \in Given
                              /\ collector[p].pc = "failed" => collector[p].id \in Given
    BY DEF Connected, Carried
  <2>5. ASSUME NEW d \in Callbacks, Pending(d)', d # c
        PROVE  LET h == callback[d].access.grant IN
               /\ h \in Given' /\ grants'[h].serial = 0
               /\ callback[d].refresh \in {NoToken, [grant |-> h, serial |-> 0]}
               /\ callback[d].pc = "listed" => callback[d].cloud \in {grants'[h].site, "unknown"}
               /\ \A e \in Callbacks : Pending(e)' /\ e # d => callback'[e].access.grant # h
               /\ conn # NoRow => conn.id # h /\ conn.access.token.grant # h
               /\ \A p \in Collectors :
                    /\ InHand(p) => collector[p].row.id # h /\ Token(p).grant # h
                    /\ collector[p].pc = "failed" => collector[p].id # h
    BY <1>1, <1>2, <1>4, <2>1, <2>2, <2>5 DEF Connected, Unsaved
  <2>6. /\ g \in Given' /\ grants'[g].serial = 0
        /\ x.refresh \in {NoToken, [grant |-> g, serial |-> 0]} /\ x.pc # "listed"
        /\ \A e \in Callbacks : Pending(e)' /\ e # c => callback'[e].access.grant # g
        /\ conn # NoRow => conn.id # g /\ conn.access.token.grant # g
        /\ \A p \in Collectors :
             /\ InHand(p) => collector[p].row.id # g /\ Token(p).grant # g
             /\ collector[p].pc = "failed" => collector[p].id # g
    BY <1>1, <1>3, <1>4, <2>1, <2>3, <2>4
  <2>7. QED BY <1>4, <1>6, <2>1, <2>2, <2>5, <2>6 DEF Unsaved, InHand, Token
<1>11. StoredIsAccepted'
  BY <1>1, <1>2, <1>6 DEF Connected, StoredIsAccepted, Stored, Accepted, Latest
<1>12. Smooth'
  <2>1. InFlight' = InFlight
    BY <1>6 DEF InFlight
  <2>2. \A p \in InFlight : Accepted(Token(p)) => Accepted(Token(p))'
    BY <1>1, <1>2, <1>6, FlightOfRow DEF Connected, Carried, Accepted, Latest, Token
  <2>3. QED BY <1>6, <2>1, <2>2 DEF Connected, Smooth, Healthy
<1>13. QED BY <1>7, <1>8, <1>9, <1>10, <1>11, <1>12 DEF Connected

\* A collector lets go of what it read, or never held anything.
LEMMA ConnectedLeaves ==
  ASSUME TypeOK, Connected, UNCHANGED <<callback, conn, rotates, grants, overtaken, raced>>,
         NEW p \in Collectors, NEW x, collector' = [collector EXCEPT ![p] = x],
         x.pc \notin {"loaded", "answered"},
         x.pc = "failed" => InHand(p) /\ x.id = collector[p].row.id,
         lost \subseteq lost',
         collector[p].pc = "answered" /\ rotates /\ conn # NoRow /\ collector[p].row.id = conn.id =>
           collector[p].access.grant \in lost',
         \/ faults' > 0
         \/ /\ faults' = faults /\ lost' = lost
            /\ x.pc = "failed" => ~Accepted(Token(p)) /\ collector[p].pc = "loaded"
  PROVE  Connected'
<1>1. \A q \in Collectors : collector'[q] = IF q = p THEN x ELSE collector[q]
  BY DEF TypeOK
<1>2. \A q \in Collectors : InHand(q)' => q # p /\ InHand(q) /\ collector'[q] = collector[q]
  BY <1>1 DEF InHand
<1>3. \A q \in Collectors : collector'[q].pc = "failed" =>
        \/ q # p /\ collector[q].pc = "failed" /\ collector'[q] = collector[q]
        \/ q = p /\ InHand(p) /\ collector'[q].id = collector[p].row.id
  BY <1>1
<1>4. Unsaved'
  BY <1>2, <1>3 DEF Connected, Unsaved, Given, Pending, Token
<1>5. Stored'
  BY DEF Connected, Stored, Given
<1>6. Carried'
  BY <1>2, <1>3 DEF Connected, Carried, Given, Token
<1>7. Rotating'
  <2>1. \A q \in Collectors : collector'[q].pc = "answered" => q # p /\ collector'[q] = collector[q]
    BY <1>1
  <2>2. \A q \in Collectors : InHand(q)' => Token(q)' = Token(q)
    BY <1>2 DEF Token
  <2>3. \A q \in Collectors : collector'[q].pc = "answered" => Token(q)' = Token(q)
    BY <2>1 DEF Token
  <2>4. Given' = Given
    BY DEF Given
  <2>5. QED BY <1>2, <2>1, <2>2, <2>3, <2>4 DEF Connected, Rotating, Latest
<1>8. StoredIsAccepted'
  <2> SUFFICES ASSUME conn # NoRow, conn.refresh # NoToken,
                      conn.refresh.token.grant \notin lost',
                      ~Accepted(conn.refresh.token)
               PROVE  \E q \in Collectors : collector'[q].pc = "answered"
                        /\ collector'[q].row.id = conn.id
                        /\ collector'[q].refresh = Latest(conn.refresh.token.grant)
    BY DEF StoredIsAccepted, Accepted, Latest
  <2>1. PICK q \in Collectors : collector[q].pc = "answered" /\ collector[q].row.id = conn.id
                                /\ collector[q].refresh = Latest(conn.refresh.token.grant)
    BY DEF Connected, StoredIsAccepted
  <2>2. q # p
    <3> SUFFICES ASSUME q = p PROVE FALSE
      OBVIOUS
    <3>1. rotates /\ collector[p].refresh = Latest(collector[p].access.grant)
      <4>1. "serial" \in DOMAIN Latest(conn.refresh.token.grant) /\ DOMAIN NoToken = {"grant"}
        BY DEF Latest, NoToken
      <4>2. collector[p].refresh # NoToken
        BY <2>1, <4>1
      <4>3. QED BY <2>1, <4>2 DEF Connected, Rotating
    <3>2. Latest(collector[p].access.grant).grant = Latest(conn.refresh.token.grant).grant
      BY <2>1, <3>1
    <3>3. collector[p].access.grant = conn.refresh.token.grant
      BY <3>2 DEF Latest
    <3>4. QED BY <2>1, <3>1, <3>3
  <2>3. QED BY <1>1, <2>1, <2>2
<1>9. Smooth'
  <2> SUFFICES ASSUME faults' = 0 PROVE Smooth'
    BY DEF Smooth
  <2>1. faults = 0 /\ lost' = lost
    OBVIOUS
  <2>2. InFlight' \subseteq InFlight /\ \A q \in InFlight' : collector'[q] = collector[q]
    BY <1>1 DEF InFlight
  <2>3. ASSUME conn # NoRow, ~raced, NEW q \in Collectors, collector'[q].pc = "failed"
        PROVE  collector'[q].id # conn.id
    <3>1. CASE q # p /\ collector[q].pc = "failed" /\ collector'[q] = collector[q]
      BY <2>1, <2>3, <3>1 DEF Connected, Smooth
    <3>2. CASE q = p /\ InHand(p) /\ collector'[q].id = collector[p].row.id
      <4>1. ~Accepted(Token(p)) /\ collector[p].pc = "loaded"
        BY <1>1, <2>3, <3>2
      <4>2. p \notin InFlight
        BY <2>1, <2>3, <4>1 DEF Connected, Smooth
      <4>3. QED BY <3>2, <4>2 DEF InFlight, InHand
    <3>3. QED BY <1>3, <2>3, <3>1, <3>2
  <2>4. QED BY <2>1, <2>2, <2>3 DEF Connected, Smooth, Healthy, Accepted, Latest, Token
<1>10. QED BY <1>4, <1>5, <1>6, <1>7, <1>8, <1>9 DEF Connected

\* SaveConnection stores the tokens of a grant nothing else has.
LEMMA ConnectedSave ==
  ASSUME TypeOK, Connected, NEW c \in Callbacks, SaveConnection(c)
  PROVE  Connected'
<1> DEFINE cb == callback[c]
           g  == cb.access.grant
<1>1. cb \in Listed /\ Pending(c) /\ cb.access \in TokenA /\ cb.refresh \in TokenR \cup {NoToken}
  BY CallbackShape DEF SaveConnection, Pending, Listed
<1>2. UNCHANGED <<collector, rotates, grants, lost, raced, faults>>
  BY DEF SaveConnection
<1>3. /\ conn'.id = IF conn = NoRow THEN g ELSE conn.id
      /\ conn'.cloud = cb.cloud /\ conn'.access = Encrypt(cb.access)
      /\ conn'.refresh = Encrypt(cb.refresh) /\ conn'.error = FALSE
  BY DEF SaveConnection
<1>4. conn'.access.token = cb.access /\ conn'.access.token.grant = g
  BY <1>1, <1>3, EncryptType DEF TypeOK
<1>5. /\ conn'.refresh # NoToken => cb.refresh # NoToken /\ conn'.refresh.token = cb.refresh
  BY <1>1, <1>3, EncryptType DEF TypeOK
<1>6. \A d \in Callbacks : Pending(d)' => d # c /\ Pending(d) /\ callback'[d] = callback[d]
  BY DEF SaveConnection, TypeOK, Pending, Idle
<1>7. /\ g \in Given /\ grants[g].serial = 0 /\ cb.cloud \in {grants[g].site, "unknown"}
      /\ cb.refresh # NoToken => cb.refresh = [grant |-> g, serial |-> 0]
      /\ conn # NoRow => conn.id # g /\ conn.access.token.grant # g
      /\ \A d \in Callbacks : Pending(d) /\ d # c => callback[d].access.grant # g
      /\ \A p \in Collectors : /\ InHand(p) => collector[p].row.id # g /\ Token(p).grant # g
                               /\ collector[p].pc = "failed" => collector[p].id # g
  BY <1>1 DEF SaveConnection, Connected, Unsaved
<1>8. \A d \in Callbacks : Pending(d) /\ d # c =>
        /\ callback[d].access.grant # g
        /\ conn # NoRow => conn.id # callback[d].access.grant
  BY <1>7 DEF Connected, Unsaved
<1>9. conn'.refresh # NoToken =>
        conn'.refresh.token.grant = g /\ conn'.refresh.token.serial = 0
  BY <1>5, <1>7
<1>10. overtaken' = (overtaken \/ (conn # NoRow /\ InFlight # {})) /\ Given' = Given
  BY <1>2 DEF SaveConnection, Given
<1>11. conn # NoRow => conn.id \in Given
  BY DEF Connected, Stored
<1> HIDE DEF cb, g
<1>12. Unsaved'
  BY <1>2, <1>3, <1>4, <1>6, <1>8, <1>10 DEF Connected, Unsaved, InHand, Token
<1>13. Stored'
  BY <1>2, <1>3, <1>4, <1>7, <1>9, <1>10, <1>11 DEF Stored
<1>14. Carried'
  <2>1. ASSUME NEW p \in Collectors, InHand(p), collector[p].row.id = conn'.id PROVE overtaken'
    <3>1. conn # NoRow /\ collector[p].row.id = conn.id
      BY <1>3, <1>7, <2>1
    <3>2. p \in InFlight
      BY <2>1, <3>1 DEF InFlight, InHand
    <3>3. QED BY <1>10, <3>1, <3>2
  <2>2. \A p \in Collectors : InHand(p) => conn'.access.token.grant # Token(p).grant
    BY <1>4, <1>7
  <2>3. QED BY <1>2, <1>10, <2>1, <2>2 DEF Connected, Carried, InHand, Token
<1>15. Rotating'
  <2>1. \A p \in Collectors : InHand(p) => conn'.access.token.grant # Token(p).grant
    BY <1>4, <1>7
  <2>2. QED BY <1>2, <1>10, <2>1 DEF Connected, Rotating, InHand, Token, Latest
<1>16. StoredIsAccepted'
  BY <1>2, <1>5, <1>7 DEF StoredIsAccepted, Accepted, Latest
<1>17. Smooth'
  <2>1. CASE conn = NoRow
    <3>1. conn'.id = g
      BY <1>3, <2>1
    <3>2. InFlight' = {} /\ \A p \in Collectors : collector[p].pc = "failed" => collector[p].id # g
      BY <1>2, <1>7, <3>1 DEF InFlight, InHand
    <3>3. QED BY <1>2, <1>3, <3>1, <3>2 DEF Connected, Smooth, Healthy
  <2>2. CASE conn # NoRow
    <3>1. conn'.id = conn.id /\ InFlight' = InFlight
      BY <1>2, <1>3, <2>2 DEF InFlight
    <3>2. QED BY <1>2, <1>3, <2>2, <3>1 DEF Connected, Smooth, Healthy, Accepted, Latest, Token
  <2>3. QED BY <2>1, <2>2
<1>18. QED BY <1>12, <1>13, <1>14, <1>15, <1>16, <1>17 DEF Connected

\* The row is deleted, and nobody can meet it again.
LEMMA ConnectedDisconnect == TypeOK /\ Connected /\ Disconnect => Connected'
<1> SUFFICES ASSUME TypeOK, Connected, Disconnect PROVE Connected'
  OBVIOUS
<1>1. conn' = NoRow /\ UNCHANGED <<callback, collector, rotates, grants, lost, faults>>
  BY DEF Disconnect, DeleteConnection
<1>2. Unsaved'
  BY <1>1 DEF Connected, Unsaved, Given, Pending, InHand, Token
<1>3. Carried'
  BY <1>1 DEF Connected, Carried, Given, InHand, Token
<1>4. Rotating'
  BY <1>1 DEF Connected, Rotating, Given, InHand, Token, Latest
<1>5. (Stored /\ StoredIsAccepted /\ Smooth)'
  BY <1>1 DEF Connected, Stored, StoredIsAccepted, Smooth
<1>6. QED BY <1>2, <1>3, <1>4, <1>5 DEF Connected

\* The refresh begins with what the row holds.
LEMMA ConnectedLoad ==
  ASSUME TypeOK, Connected, NEW p \in Collectors, LoadForRefresh(p)
  PROVE  Connected'
<1>1. conn # NoRow /\ conn.refresh # NoToken /\ collector[p] = Idle
  BY DEF LoadForRefresh
<1> DEFINE x == [pc |-> "loaded", row |-> [id |-> conn.id, refresh |-> conn.refresh]]
<1>2. \A q \in Collectors : collector'[q] = IF q = p THEN x ELSE collector[q]
  BY DEF LoadForRefresh, TypeOK
<1>3. x.pc = "loaded" /\ x.row.id = conn.id /\ x.row.refresh = conn.refresh
  OBVIOUS
<1>4. UNCHANGED <<callback, conn, rotates, grants, lost, overtaken, faults>>
  BY DEF LoadForRefresh
<1>5. raced' = (raced \/ InFlight # {})
  BY DEF LoadForRefresh
<1> HIDE DEF x
<1>6. ~InHand(p)
  BY <1>1 DEF InHand, Idle
<1>7. \A q \in Collectors : InHand(q)' <=> (q = p \/ InHand(q))
  BY <1>2, <1>3 DEF InHand
<1>8. \A q \in Collectors : /\ collector'[q].pc = "answered" <=> collector[q].pc = "answered"
                            /\ collector'[q].pc = "failed" <=> collector[q].pc = "failed"
  BY <1>1, <1>2, <1>3 DEF Idle
<1>9. \A q \in Collectors : q # p => collector'[q] = collector[q] /\ Token(q)' = Token(q)
  BY <1>2 DEF Token
<1>10. collector'[p].row.id = conn.id /\ collector'[p].row.refresh = conn.refresh
       /\ collector'[p].pc = "loaded" /\ Token(p)' = conn.refresh.token
  BY <1>2, <1>3 DEF Token
<1>11. /\ conn.id \in Given /\ conn.access.token.grant \in Given
       /\ conn.refresh.token.grant = conn.access.token.grant
       /\ conn.refresh.token.serial <= grants[conn.access.token.grant].serial
  BY <1>1 DEF Connected, Stored
<1>12. Given' = Given
  BY <1>4 DEF Given
<1>13. Unsaved'
  BY <1>1, <1>4, <1>7, <1>8, <1>9, <1>10, <1>11, <1>12 DEF Connected, Unsaved, Pending
<1>14. Stored'
  BY <1>4, <1>12 DEF Connected, Stored
<1>15. Carried'
  BY <1>1, <1>4, <1>7, <1>8, <1>9, <1>10, <1>11, <1>12 DEF Connected, Carried
<1>16. Rotating'
  BY <1>1, <1>4, <1>7, <1>8, <1>9, <1>10, <1>11, <1>12 DEF Connected, Rotating, Latest
<1>17. StoredIsAccepted'
  BY <1>4, <1>8, <1>9, <1>10 DEF Connected, StoredIsAccepted, Accepted, Latest
<1>18. Smooth'
  <2> SUFFICES ASSUME faults = 0, InFlight = {}, ~raced
               PROVE  Smooth'
    BY <1>1, <1>4, <1>5 DEF Connected, Smooth
  <2>1. InFlight' = {p}
    BY <1>2, <1>4, <1>10 DEF InFlight
  <2>2. Accepted(conn.refresh.token)
    BY <1>1 DEF Connected, StoredIsAccepted, Smooth, InFlight
  <2>3. QED BY <1>1, <1>4, <1>8, <1>9, <1>10, <2>1, <2>2 DEF Connected, Smooth, Healthy, Accepted, Latest
<1>19. QED BY <1>13, <1>14, <1>15, <1>16, <1>17, <1>18 DEF Connected

\* A collector whose token Atlassian takes holds the grant's latest one, and no
\* other collector has been given a later one.
LEMMA Rotation ==
  ASSUME TypeOK, Connected, NEW p \in Collectors, collector[p].pc = "loaded",
         Accepted(Decrypt(collector[p].row.refresh)),
         grants' = Rotate(Decrypt(collector[p].row.refresh).grant)
  PROVE  LET g == Token(p).grant IN
         /\ Decrypt(collector[p].row.refresh) = Token(p)
         /\ g \in Given /\ Token(p).serial = grants[g].serial
         /\ Given' = Given
         /\ \A h \in Given : grants'[h].site = grants[h].site
         /\ \A h \in Given : ~(rotates /\ h = g) => grants'[h].serial = grants[h].serial
         /\ rotates => grants'[g].serial = grants[g].serial + 1
         /\ \A q \in Collectors : collector[q].pc = "answered" /\ rotates => Token(q).grant # g
<1>1. InHand(p)
  BY DEF InHand
<1>2. collector[p].row.refresh # NoToken /\ Token(p).grant \in Given
  BY <1>1 DEF Connected, Carried
<1>3. Decrypt(collector[p].row.refresh) = Token(p) /\ Token(p) \in TokenR
  BY <1>1, <1>2, Serials, DecryptType DEF Token
<1>4. Token(p).serial = grants[Token(p).grant].serial
  BY <1>3, AcceptedSerial
<1>5. Given' = Given
  BY RotateType DEF Given
<1>6. ASSUME NEW q \in Collectors, collector[q].pc = "answered", rotates,
             Token(q).grant = Token(p).grant
      PROVE  FALSE
  <2>1. q # p
    BY <1>6
  <2>2. Token(p).serial < grants[Token(q).grant].serial
    BY <1>1, <1>6, <2>1 DEF Connected, Rotating
  <2>3. QED BY <1>1, <1>2, <1>4, <1>6, <2>2, Serials
<1>7. QED BY <1>2, <1>3, <1>4, <1>5, <1>6, RotateType

\* Serials never fall, and what was not ahead of a grant is not afterwards.
LEMMA ConnectedAnswered ==
  ASSUME TypeOK, Connected, NEW p \in Collectors, RefreshAnswered(p)
  PROVE  Connected'
<1> DEFINE NewLatest(h) == [grant |-> h, serial |-> grants'[h].serial]
<1>0. PICK g : g = Token(p).grant
  OBVIOUS
<1>1. /\ Decrypt(collector[p].row.refresh) = Token(p)
      /\ g \in Given /\ Token(p).serial = grants[g].serial
      /\ Given' = Given
      /\ \A h \in Given : grants'[h].site = grants[h].site
      /\ \A h \in Given : ~(rotates /\ h = g) => grants'[h].serial = grants[h].serial
      /\ rotates => grants'[g].serial = grants[g].serial + 1
      /\ \A q \in Collectors : collector[q].pc = "answered" /\ rotates => Token(q).grant # g
  BY <1>0, Rotation DEF RefreshAnswered
<1>2. /\ \A h \in Given : grants[h].serial \in Nat /\ grants[h].serial <= grants'[h].serial
      /\ rotates => grants[g].serial < grants'[g].serial
  BY <1>1, Serials
<1> DEFINE x == [pc |-> "answered", row |-> collector[p].row, access |-> Access(g),
                 refresh |-> IF rotates THEN [grant |-> g, serial |-> Token(p).serial + 1]
                             ELSE NoToken]
<1>3. collector[p].pc = "loaded" /\ collector' = [collector EXCEPT ![p] = x]
  BY <1>0, <1>1 DEF RefreshAnswered
<1>4. /\ x.pc = "answered" /\ x.row = collector[p].row /\ x.access.grant = g
      /\ x.refresh = IF rotates THEN NewLatest(g) ELSE NoToken
  BY <1>0, <1>1 DEF Access
<1>5. UNCHANGED <<callback, conn, rotates, lost, overtaken, raced, faults>>
  BY DEF RefreshAnswered, hist
<1> HIDE DEF x
<1>6. \A q \in Collectors : collector'[q] = IF q = p THEN x ELSE collector[q]
  BY <1>3 DEF TypeOK
<1>7. /\ InHand(p)
      /\ \A q \in Collectors : InHand(q)' <=> InHand(q)
      /\ \A q \in Collectors : InHand(q) => Token(q)' = Token(q) /\ collector'[q].row = collector[q].row
      /\ \A q \in Collectors : collector'[q].pc = "failed" =>
           collector[q].pc = "failed" /\ collector'[q] = collector[q]
      /\ \A q \in Collectors : collector'[q].pc = "answered" =>
           InHand(q) /\ (q = p \/ (collector[q].pc = "answered" /\ collector'[q] = collector[q]))
  <2>1. \A q \in Collectors : q # p => collector'[q] = collector[q] /\ Token(q)' = Token(q)
    BY <1>6 DEF Token
  <2>2. collector'[p] = x /\ x.pc = "answered" /\ x.row = collector[p].row /\ Token(p)' = Token(p)
    BY <1>4, <1>6 DEF Token
  <2>3. \A q \in Collectors : Token(q)' = Token(q) /\ collector'[q].row = collector[q].row
    BY <2>1, <2>2
  <2>4. \A q \in Collectors : InHand(q)' <=> InHand(q)
    BY <1>3, <2>1, <2>2 DEF InHand
  <2>5. \A q \in Collectors : collector'[q].pc \in {"answered", "failed"} =>
          (q = p /\ collector'[q].pc = "answered") \/ collector'[q] = collector[q]
    BY <2>1, <2>2
  <2>6. InHand(p) /\ \A q \in Collectors : collector[q].pc = "answered" => InHand(q)
    BY <1>3 DEF InHand
  <2>7. \A q \in Collectors : collector'[q].pc = "failed" =>
          collector[q].pc = "failed" /\ collector'[q] = collector[q]
    BY <2>5
  <2>8. \A q \in Collectors : collector'[q].pc = "answered" =>
          InHand(q) /\ (q = p \/ (collector[q].pc = "answered" /\ collector'[q] = collector[q]))
    BY <2>5, <2>6
  <2>9. QED BY <2>3, <2>4, <2>6, <2>7, <2>8
<1>8. \A h \in Given : ~(rotates /\ h = g) => NewLatest(h) = Latest(h)
  BY <1>1 DEF Latest
<1>9. /\ \A q \in Collectors : InHand(q) => Token(q).serial \in Nat /\ Token(q).grant \in Given
                                            /\ Token(q).serial <= grants[Token(q).grant].serial
      /\ conn # NoRow /\ conn.refresh # NoToken =>
           conn.refresh.token.serial \in Nat /\ conn.refresh.token.grant = conn.access.token.grant
           /\ conn.refresh.token.serial <= grants[conn.access.token.grant].serial
      /\ conn # NoRow => conn.access.token.grant \in Given
  BY Serials DEF Connected, Carried, Stored
<1>10. Unsaved'
  <2>1. \A c \in Callbacks : Pending(c) =>
          callback[c].access.grant \in Given /\ callback[c].access.grant # g
    BY <1>0, <1>7 DEF Connected, Unsaved
  <2>2. QED BY <1>1, <1>5, <1>7, <2>1 DEF Connected, Unsaved, Pending
<1>11. Stored'
  BY <1>1, <1>2, <1>5, <1>9 DEF Connected, Stored
<1>12. Carried'
  <2>1. \A q \in Collectors : InHand(q) => Token(q).serial <= grants'[Token(q).grant].serial
    BY <1>1, <1>2, <1>9
  <2>2. QED BY <1>1, <1>5, <1>7, <2>1 DEF Connected, Carried
<1>13. Rotating'
  <2>1. ~rotates => \A h \in Given : grants'[h].serial = 0
    BY <1>1 DEF Connected, Rotating
  <2>2. ASSUME NEW q \in Collectors, collector[q].pc = "answered", collector'[q] = collector[q]
        PROVE  LET h == Token(q).grant IN
               /\ collector'[q].access.grant = h
               /\ collector'[q].refresh = IF rotates THEN NewLatest(h) ELSE NoToken
               /\ rotates =>
                    /\ conn # NoRow /\ conn.refresh # NoToken /\ conn.access.token.grant = h =>
                         conn.refresh.token.serial < grants'[h].serial
                    /\ \A r \in Collectors : InHand(r) /\ r # q /\ Token(r).grant = h =>
                         collector'[r].pc = "loaded" /\ Token(r).serial < grants'[h].serial
    <3>1. InHand(q) /\ (rotates => Token(q).grant # g)
      BY <1>1, <2>2 DEF InHand
    <3>2. \A r \in Collectors : Token(r).grant = Token(q).grant /\ rotates => collector'[r] = collector[r]
      BY <1>0, <1>6, <3>1
    <3>3. QED BY <1>1, <1>8, <1>9, <2>2, <3>1, <3>2 DEF Connected, Rotating
  <2>3. /\ collector'[p].access.grant = g
        /\ collector'[p].refresh = IF rotates THEN NewLatest(g) ELSE NoToken
        /\ rotates =>
             /\ conn # NoRow /\ conn.refresh # NoToken /\ conn.access.token.grant = g =>
                  conn.refresh.token.serial < grants'[g].serial
             /\ \A r \in Collectors : InHand(r) /\ r # p /\ Token(r).grant = g =>
                  collector'[r].pc = "loaded" /\ Token(r).serial < grants'[g].serial
    <3>1. collector'[p] = x
      BY <1>6
    <3>2. ASSUME NEW r \in Collectors, InHand(r), r # p, Token(r).grant = g, rotates
          PROVE  collector'[r].pc = "loaded" /\ Token(r).serial < grants'[g].serial
      <4>1. collector[r].pc # "answered"
        BY <1>1, <3>2
      <4>2. collector'[r].pc = "loaded"
        BY <1>6, <3>2, <4>1 DEF InHand
      <4>3. QED BY <1>1, <1>2, <1>9, <3>2, <4>2
    <3>3. QED BY <1>1, <1>2, <1>4, <1>9, <3>1, <3>2
  <2>4. ASSUME NEW q \in Collectors, collector'[q].pc = "answered"
        PROVE  LET h == Token(q).grant IN
               /\ collector'[q].access.grant = h
               /\ collector'[q].refresh = IF rotates THEN NewLatest(h) ELSE NoToken
               /\ rotates =>
                    /\ conn # NoRow /\ conn.refresh # NoToken /\ conn.access.token.grant = h =>
                         conn.refresh.token.serial < grants'[h].serial
                    /\ \A r \in Collectors : InHand(r) /\ r # q /\ Token(r).grant = h =>
                         collector'[r].pc = "loaded" /\ Token(r).serial < grants'[h].serial
    <3>1. CASE q = p
      BY <1>0, <2>3, <3>1
    <3>2. CASE collector[q].pc = "answered" /\ collector'[q] = collector[q]
      BY <2>2, <3>2
    <3>3. QED BY <1>7, <2>4, <3>1, <3>2
  <2>5. \A q \in Collectors : collector'[q].pc = "answered" => Token(q)' = Token(q)
    BY <1>7
  <2>6. \A q \in Collectors : InHand(q)' => InHand(q) /\ Token(q)' = Token(q)
    BY <1>7
  <2>7. QED BY <1>1, <1>5, <2>1, <2>4, <2>5, <2>6 DEF Rotating, Latest
<1>14. StoredIsAccepted'
  <2> SUFFICES ASSUME conn # NoRow, conn.refresh # NoToken,
                      conn.refresh.token.grant \notin lost
               PROVE  \/ Accepted(conn.refresh.token)'
                      \/ \E q \in Collectors : collector'[q].pc = "answered"
                           /\ collector'[q].row.id = conn.id
                           /\ collector'[q].refresh = NewLatest(conn.refresh.token.grant)
    BY <1>5 DEF StoredIsAccepted, Latest
  <2>1. CASE rotates /\ conn.access.token.grant = g
    <3>1. collector[p].row.id = conn.id
      BY <1>0, <1>7, <2>1 DEF Connected, Carried
    <3>2. collector'[p].pc = "answered" /\ collector'[p].row.id = conn.id
          /\ collector'[p].refresh = NewLatest(g)
      BY <1>4, <1>6, <2>1, <3>1
    <3>3. QED BY <1>9, <2>1, <3>2
  <2>2. CASE ~(rotates /\ conn.access.token.grant = g)
    <3>1. NewLatest(conn.refresh.token.grant) = Latest(conn.refresh.token.grant)
      BY <1>8, <1>9, <2>2
    <3>2. \/ Accepted(conn.refresh.token)
          \/ \E q \in Collectors : collector[q].pc = "answered" /\ collector[q].row.id = conn.id
               /\ collector[q].refresh = Latest(conn.refresh.token.grant)
      BY DEF Connected, StoredIsAccepted
    <3>3. \A q \in Collectors : collector[q].pc = "answered" => collector'[q] = collector[q]
      BY <1>3, <1>6
    <3>4. QED BY <1>5, <3>1, <3>2, <3>3 DEF Accepted, Latest
  <2>3. QED BY <2>1, <2>2
<1>15. Smooth'
  <2> SUFFICES ASSUME faults = 0, conn # NoRow, ~raced PROVE Smooth'
    BY <1>5 DEF Connected, Smooth
  <2>1. InFlight' = InFlight
    BY <1>5, <1>7 DEF InFlight, InHand
  <2>2. ASSUME NEW q \in InFlight, collector'[q].pc = "loaded" PROVE Accepted(Token(q))'
    <3>1. q # p /\ InHand(q) /\ q \in Collectors /\ collector[q].row.id = conn.id
          /\ collector[q].pc = "loaded"
      BY <1>4, <1>6, <2>2, FlightOfRow
    <3>2. p \notin InFlight
      BY <2>2, <3>1 DEF Connected, Smooth
    <3>3. collector[p].row.id # conn.id
      BY <1>3, <3>2 DEF InFlight
    <3>4. Token(q).grant # g
      BY <1>0, <1>7, <3>1, <3>3 DEF Connected, Carried
    <3>5. Accepted(Token(q))
      BY <2>2, <3>1 DEF Connected, Smooth
    <3>6. QED BY <1>7, <1>8, <1>9, <3>1, <3>4, <3>5 DEF Accepted, Latest
  <2>3. QED BY <1>5, <1>7, <2>1, <2>2 DEF Connected, Smooth, Healthy
<1>16. QED BY <1>10, <1>11, <1>12, <1>13, <1>14, <1>15 DEF Connected

\* Atlassian rotated and nobody heard of it: the grant is lost.
LEMMA ConnectedLost ==
  ASSUME TypeOK, Connected, NEW p \in Collectors, RefreshLost(p)
  PROVE  Connected'
<1> DEFINE x == [pc |-> "failed", id |-> collector[p].row.id]
<1>1. /\ collector[p].pc = "loaded" /\ InHand(p) /\ faults' > 0
      /\ collector' = [collector EXCEPT ![p] = x]
      /\ UNCHANGED <<callback, conn, rotates, overtaken, raced>>
  BY Serials DEF RefreshLost, Fault, InHand
<1>2. x.pc = "failed" /\ x.id = collector[p].row.id
  OBVIOUS
<1> HIDE DEF x
<1>3. CASE UNCHANGED <<grants, lost>>
  BY <1>1, <1>2, <1>3, ConnectedLeaves
<1>4. CASE /\ Accepted(Decrypt(collector[p].row.refresh)) /\ rotates
           /\ grants' = Rotate(Decrypt(collector[p].row.refresh).grant)
           /\ lost' = lost \cup {Decrypt(collector[p].row.refresh).grant}
  <2>0. PICK g : g = Token(p).grant
    OBVIOUS
  <2>1. /\ lost' = lost \cup {g} /\ g \in Given /\ Given' = Given
        /\ \A h \in Given : grants'[h].site = grants[h].site
        /\ \A h \in Given : h # g => grants'[h].serial = grants[h].serial
        /\ grants'[g].serial = grants[g].serial + 1
        /\ \A q \in Collectors : collector[q].pc = "answered" => Token(q).grant # g
    BY <1>1, <1>4, <2>0, Rotation
  <2>2. \A h \in Given : grants[h].serial \in Nat /\ grants[h].serial <= grants'[h].serial
    BY <2>1, Serials
  <2>3. \A q \in Collectors : collector'[q] = IF q = p THEN x ELSE collector[q]
    BY <1>1 DEF TypeOK
  <2>4. \A q \in Collectors : InHand(q)' => q # p /\ InHand(q) /\ collector'[q] = collector[q]
                                            /\ Token(q)' = Token(q)
    BY <1>2, <2>3 DEF InHand, Token
  <2>5. \A q \in Collectors : collector'[q].pc = "failed" =>
          \/ q # p /\ collector[q].pc = "failed" /\ collector'[q] = collector[q]
          \/ q = p /\ InHand(p) /\ collector'[q].id = collector[p].row.id
    BY <1>1, <1>2, <2>3
  <2>6. /\ \A q \in Collectors : InHand(q) => Token(q).serial \in Nat /\ Token(q).grant \in Given
                                              /\ Token(q).serial <= grants[Token(q).grant].serial
        /\ conn # NoRow /\ conn.refresh # NoToken =>
             conn.refresh.token.serial \in Nat /\ conn.refresh.token.grant = conn.access.token.grant
             /\ conn.refresh.token.serial <= grants[conn.access.token.grant].serial
        /\ conn # NoRow => conn.access.token.grant \in Given
    BY Serials DEF Connected, Carried, Stored
  <2>7. Unsaved'
    <3>1. \A c \in Callbacks : Pending(c) =>
            callback[c].access.grant \in Given /\ callback[c].access.grant # g
      BY <1>1, <2>0 DEF Connected, Unsaved
    <3>2. QED BY <1>1, <2>1, <2>4, <2>5, <3>1 DEF Connected, Unsaved, Pending
  <2>8. Stored'
    BY <1>1, <2>1, <2>2, <2>6 DEF Connected, Stored
  <2>9. Carried'
    <3>1. \A q \in Collectors : InHand(q) => Token(q).serial <= grants'[Token(q).grant].serial
      BY <2>1, <2>2, <2>6
    <3>2. QED BY <1>1, <2>1, <2>4, <2>5, <3>1 DEF Connected, Carried
  <2>10. Rotating'
    <3>1. \A q \in Collectors : collector'[q].pc = "answered" =>
            /\ collector[q].pc = "answered" /\ collector'[q] = collector[q]
            /\ InHand(q) /\ Token(q)' = Token(q)
            /\ Token(q).grant \in Given /\ Token(q).grant # g
      BY <1>2, <2>1, <2>3, <2>6 DEF InHand, Token
    <3>2. \A h \in Given : h # g => Latest(h)' = Latest(h)
      BY <2>1 DEF Latest
    <3>3. ASSUME NEW q \in Collectors, collector'[q].pc = "answered", NEW h, h = Token(q).grant
          PROVE  /\ collector'[q].access.grant = h /\ collector'[q].refresh = Latest(h)'
                 /\ conn # NoRow /\ conn.refresh # NoToken /\ conn.access.token.grant = h =>
                      conn.refresh.token.serial < grants'[h].serial
                 /\ \A r \in Collectors : InHand(r)' /\ r # q /\ Token(r)'.grant = h =>
                      collector'[r].pc = "loaded" /\ Token(r)'.serial < grants'[h].serial
      <4>1. /\ collector[q].pc = "answered" /\ collector'[q] = collector[q]
            /\ h \in Given /\ h # g /\ Latest(h)' = Latest(h) /\ grants'[h].serial = grants[h].serial
        BY <2>1, <3>1, <3>2, <3>3
      <4>2. /\ collector[q].access.grant = h /\ collector[q].refresh = Latest(h)
            /\ conn # NoRow /\ conn.refresh # NoToken /\ conn.access.token.grant = h =>
                 conn.refresh.token.serial < grants[h].serial
            /\ \A r \in Collectors : InHand(r) /\ r # q /\ Token(r).grant = h =>
                 collector[r].pc = "loaded" /\ Token(r).serial < grants[h].serial
        BY <1>4, <3>3, <4>1 DEF Connected, Rotating
      <4>3. QED BY <2>4, <4>1, <4>2
    <3>4. QED BY <1>1, <1>4, <3>1, <3>3 DEF Rotating
  <2>11. StoredIsAccepted'
    <3> SUFFICES ASSUME conn # NoRow, conn.refresh # NoToken,
                        conn.refresh.token.grant \notin lost, conn.refresh.token.grant # g
                 PROVE  \/ Accepted(conn.refresh.token)'
                        \/ \E q \in Collectors : collector'[q].pc = "answered"
                             /\ collector'[q].row.id = conn.id
                             /\ collector'[q].refresh = Latest(conn.refresh.token.grant)'
      BY <1>1, <2>1 DEF StoredIsAccepted
    <3>1. Latest(conn.refresh.token.grant)' = Latest(conn.refresh.token.grant)
      BY <1>1, <2>1, <2>6 DEF Latest
    <3>2. \A q \in Collectors : collector[q].pc = "answered" => collector'[q] = collector[q]
      BY <1>1, <2>3
    <3>3. \/ Accepted(conn.refresh.token)
          \/ \E q \in Collectors : collector[q].pc = "answered" /\ collector[q].row.id = conn.id
               /\ collector[q].refresh = Latest(conn.refresh.token.grant)
      BY DEF Connected, StoredIsAccepted
    <3>4. QED BY <1>1, <3>1, <3>2, <3>3 DEF Accepted
  <2>12. QED BY <1>1, <2>7, <2>8, <2>9, <2>10, <2>11 DEF Connected, Smooth
<1>5. QED BY <1>3, <1>4 DEF RefreshLost

\* The error a refusal leaves in the row.
LEMMA ConnectedMark ==
  ASSUME TypeOK, Connected, NEW p \in Collectors, MarkError(p)
  PROVE  Connected'
<1>1. /\ collector[p].pc = "failed" /\ collector' = [collector EXCEPT ![p] = Idle]
      /\ UNCHANGED <<callback, rotates, grants, lost, overtaken, raced>>
      /\ faults' = faults \/ faults' > 0
      /\ Idle.pc = "idle"
  BY Serials DEF MarkError, Fault, hist, Idle
<1>2. CASE conn' = conn
  BY <1>1, <1>2, ConnectedLeaves
<1>3. CASE conn.id = collector[p].id /\ conn' = [conn EXCEPT !.error = TRUE]
  <2>1. conn \in Row /\ conn # NoRow
    <3>1. collector[p].id \in GrantIds
      BY <1>1, CollectorShape DEF Failed
    <3>2. QED BY <1>3, <3>1, NoRowId DEF TypeOK
  <2>2. conn' \in Row /\ conn' # NoRow
    <3>1. conn' \in Row
      BY <1>3, <2>1 DEF Row
    <3>2. QED BY <3>1, RowApart
  <2>3. conn'.id = conn.id /\ conn'.cloud = conn.cloud /\ conn'.access = conn.access
        /\ conn'.refresh = conn.refresh
    BY <1>3, <2>1 DEF Row
  <2>4. \A q \in Collectors : collector'[q] = IF q = p THEN Idle ELSE collector[q]
    BY <1>1 DEF TypeOK
  <2>5. \A q \in Collectors :
          /\ InHand(q)' <=> InHand(q)
          /\ InHand(q) => collector'[q] = collector[q] /\ Token(q)' = Token(q)
          /\ collector'[q].pc = "answered" <=> collector[q].pc = "answered"
          /\ collector'[q].pc = "failed" => collector[q].pc = "failed" /\ collector'[q] = collector[q]
    BY <1>1, <2>4 DEF InHand, Token
  <2>6. \A q \in Collectors : collector[q].pc = "answered" => InHand(q)
    BY DEF InHand
  <2>7. Given' = Given /\ \A h : Latest(h)' = Latest(h)
    BY <1>1 DEF Given, Latest
  <2>8. Unsaved'
    BY <1>1, <2>1, <2>3, <2>5, <2>7 DEF Connected, Unsaved, Pending
  <2>9. Stored'
    BY <1>1, <2>1, <2>3, <2>7 DEF Connected, Stored
  <2>10. Carried'
    BY <1>1, <2>1, <2>3, <2>5, <2>7 DEF Connected, Carried
  <2>11. Rotating'
    BY <1>1, <2>1, <2>3, <2>5, <2>6, <2>7 DEF Connected, Rotating
  <2>12. StoredIsAccepted'
    BY <1>1, <2>1, <2>3, <2>5, <2>6, <2>7 DEF Connected, StoredIsAccepted, Accepted
  <2>13. Smooth'
    <3>1. faults = 0 => raced
      BY <1>1, <1>3, <2>1 DEF Connected, Smooth
    <3>2. QED BY <1>1, <3>1, Serials DEF Connected, Smooth
  <2>14. QED BY <2>8, <2>9, <2>10, <2>11, <2>12, <2>13 DEF Connected
<1>4. QED BY <1>2, <1>3 DEF MarkError

\* The refreshed tokens are stored in the row they were read from, or in none.
LEMMA ConnectedRefreshed ==
  ASSUME TypeOK, Connected, NEW p \in Collectors, SaveRefreshed(p)
  PROVE  Connected'
<1> DEFINE proc == collector[p]
           x == [pc |-> "has", access |-> proc.access, at |-> now]
<1>0. PICK g : g = Token(p).grant
  OBVIOUS
<1>1. /\ proc.pc = "answered" /\ InHand(p) /\ collector' = [collector EXCEPT ![p] = x]
      /\ UNCHANGED <<callback, rotates, grants, lost, overtaken, raced, faults>>
  BY DEF SaveRefreshed, InHand, hist
<1>2. x.pc = "has"
  OBVIOUS
<1> HIDE DEF x
<1>3. CASE ~Meets(proc)
  <2>1. conn' = conn /\ ~(conn # NoRow /\ proc.row.id = conn.id)
    BY <1>3 DEF SaveRefreshed, Meets
  <2>2. QED BY <1>1, <1>2, <2>1, ConnectedLeaves
<1>4. CASE Meets(proc)
  <2>1. conn \in Row /\ conn # NoRow /\ conn.id = proc.row.id
    BY <1>4 DEF Meets, TypeOK
  <2>2. proc \in Answered
    BY <1>1, CollectorShape
  <2>3. proc.access \in TokenA /\ proc.refresh \in TokenR \cup {NoToken} /\ proc.row.refresh \in CipherR
    BY <2>2 DEF Answered, RowRead
  <2>4. conn' = [conn EXCEPT !.access = Encrypt(proc.access), !.refresh = KeptRefresh(proc),
                             !.expires = now + Life, !.error = FALSE]
    BY <1>4 DEF SaveRefreshed
  <2>5. conn'.id = conn.id /\ conn'.cloud = conn.cloud /\ conn'.access = Encrypt(proc.access)
        /\ conn'.refresh = KeptRefresh(proc) /\ conn'.error = FALSE
    BY <2>1, <2>4 DEF Row
  <2>6. conn' # NoRow
    <3>1. conn' \in Row
      <4>1. Encrypt(proc.access) \in CipherA /\ now + Life \in Nat
        BY <2>3, EncryptType, Bounds DEF TypeOK
      <4>2. KeptRefresh(proc) \in CipherR
        BY <2>3, EncryptType DEF KeptRefresh, TypeOK
      <4>3. QED BY <2>1, <2>4, <4>1, <4>2 DEF Row
    <3>2. QED BY <3>1, RowApart
  <2>7. conn'.access.token = proc.access /\ proc.access.grant = g
    BY <1>0, <1>1, <2>3, <2>5, EncryptType DEF Connected, Rotating, TypeOK
  <2>8. /\ g \in Given /\ proc.row.refresh # NoToken /\ Token(p) \in TokenR
        /\ Token(p).serial \in Nat /\ Token(p).serial <= grants[g].serial /\ grants[g].serial \in Nat
    BY <1>0, <1>1, Serials DEF Connected, Carried
  <2>9. conn'.refresh # NoToken /\ conn'.refresh.token = Latest(g)
    <3>1. CASE rotates
      <4>1. proc.refresh = Latest(g)
        BY <1>0, <1>1, <3>1 DEF Connected, Rotating
      <4>2. proc.refresh \in TokenR
        BY <2>3, <4>1, TokenApart DEF Latest, NoToken
      <4>3. QED BY <2>5, <4>1, <4>2, EncryptType, TokenApart DEF KeptRefresh, TypeOK
    <3>2. CASE ~rotates
      <4>1. proc.refresh = NoToken
        BY <1>1, <3>2 DEF Connected, Rotating
      <4>2. conn'.refresh = proc.row.refresh
        BY <2>5, <4>1 DEF KeptRefresh
      <4>3. grants[g].serial = 0
        BY <2>8, <3>2 DEF Connected, Rotating
      <4>4. Token(p) = [grant |-> g, serial |-> 0]
        BY <1>0, <2>8, <4>3 DEF TokenR
      <4>5. QED BY <2>8, <4>2, <4>3, <4>4 DEF Latest, Token
    <3>3. QED BY <3>1, <3>2
  <2>10. conn'.refresh.token.grant = g /\ conn'.refresh.token.serial = grants[g].serial
    BY <2>9 DEF Latest
  <2>11. \A q \in Collectors : collector'[q] = IF q = p THEN x ELSE collector[q]
    BY <1>1 DEF TypeOK
  <2>12. \A q \in Collectors :
           /\ InHand(q)' => q # p /\ InHand(q) /\ collector'[q] = collector[q] /\ Token(q)' = Token(q)
           /\ collector'[q].pc = "answered" => InHand(q)'
           /\ collector'[q].pc = "failed" => collector[q].pc = "failed" /\ collector'[q] = collector[q]
    BY <1>2, <2>11 DEF InHand, Token
  <2>13. Given' = Given /\ \A h : Latest(h)' = Latest(h)
    BY <1>1 DEF Given, Latest
  <2>14. overtaken \/ conn.access.token.grant = g
    BY <1>0, <1>1, <2>1 DEF Connected, Carried
  <2>15. Unsaved'
    <3>1. \A c \in Callbacks : Pending(c) => callback[c].access.grant # g
      BY <1>0, <1>1 DEF Connected, Unsaved
    <3>2. QED BY <1>1, <2>1, <2>5, <2>7, <2>12, <2>13, <3>1 DEF Connected, Unsaved, Pending
  <2>16. Stored'
    BY <1>1, <2>1, <2>5, <2>7, <2>8, <2>10, <2>13, <2>14 DEF Connected, Stored
  <2>17. Carried'
    <3>1. \A q \in Collectors : InHand(q) /\ Token(q).grant = g => collector[q].row.id = conn.id
      BY <1>0, <1>1, <2>1 DEF Connected, Carried
    <3>2. QED
      BY <1>1, <2>1, <2>5, <2>7, <2>12, <2>13, <2>14, <3>1 DEF Connected, Carried
  <2>18. Rotating'
    <3>1. \A q \in Collectors : q # p /\ InHand(q) /\ Token(q).grant = g /\ rotates =>
            collector[q].pc # "answered"
      BY <1>0, <1>1 DEF Connected, Rotating
    <3>2. QED BY <1>1, <2>7, <2>12, <2>13, <3>1 DEF Connected, Rotating
  <2>19. StoredIsAccepted'
    BY <2>9, <2>10, <2>13 DEF StoredIsAccepted, Accepted
  <2>20. Smooth'
    <3>1. InFlight' \subseteq InFlight /\ \A q \in InFlight' : collector'[q] = collector[q]
      BY <2>5, <2>12 DEF InFlight, InHand
    <3>2. \A q \in InFlight' : InHand(q)' /\ q \in Collectors
      BY DEF InFlight, InHand
    <3>3. QED
      BY <1>1, <2>1, <2>5, <2>12, <2>13, <3>1, <3>2 DEF Connected, Smooth, Healthy, Accepted
  <2>21. QED BY <2>15, <2>16, <2>17, <2>18, <2>19, <2>20 DEF Connected
<1>5. QED BY <1>3, <1>4

LEMMA ConnectedInit == Init => Connected
<1> SUFFICES ASSUME Init PROVE Connected
  OBVIOUS
<1>1. Idle.pc = "idle"
  BY DEF Idle
<1>2. Given = {}
  BY DEF Init, Given
<1>3. Unsaved /\ Stored /\ Carried /\ Rotating
  BY <1>1, <1>2 DEF Init, Unsaved, Stored, Carried, Rotating, Pending, InHand
<1>4. StoredIsAccepted /\ Smooth
  BY DEF Init, StoredIsAccepted, Smooth
<1>5. QED BY <1>3, <1>4 DEF Connected

LEMMA ConnectedNext == TypeOK /\ Connected /\ [Next]_vars => Connected'
<1> SUFFICES ASSUME TypeOK, Connected, [Next]_vars PROVE Connected'
  OBVIOUS
<1>1. Idle.pc = "idle" /\ [pc |-> "consumed"].pc = "consumed"
  BY DEF Idle
<1>2. Fault => faults' > 0
  BY Serials DEF Fault
<1>3. ASSUME NEW c \in Callbacks, Callback(c) PROVE Connected'
  <2>1. ASSUME NEW s \in States, ConsumeState(c, s) PROVE Connected'
    <3>1. UNCHANGED <<conn, collector, rotates, grants, lost, overtaken, raced, faults>>
      BY <2>1 DEF ConsumeState
    <3>2. CASE callback' = callback
      BY <3>1, <3>2, ConnectedFrame
    <3>3. CASE callback' = [callback EXCEPT ![c] = [pc |-> "consumed"]]
      BY <1>1, <3>1, <3>3, ConnectedCallback
    <3>4. QED BY <2>1, <3>2, <3>3 DEF ConsumeState
  <2>2. ASSUME NEW cloud \in Sites \cup {"unknown"}, ListResources(c, cloud) PROVE Connected'
    <3> DEFINE x == [pc |-> "listed", access |-> callback[c].access,
                     refresh |-> callback[c].refresh, cloud |-> cloud]
    <3>1. /\ x.pc = "listed" /\ x.access = callback[c].access /\ x.refresh = callback[c].refresh
          /\ x.cloud \in {grants[x.access.grant].site, "unknown"}
      BY <2>2 DEF ListResources
    <3>2. /\ Pending(c) /\ callback' = [callback EXCEPT ![c] = x]
          /\ UNCHANGED <<conn, collector, rotates, grants, lost, overtaken, raced, faults>>
      BY <2>2 DEF ListResources, Pending, hist
    <3> HIDE DEF x
    <3>3. QED BY <3>1, <3>2, ConnectedCallback
  <2>3. ASSUME CallbackFails(c) PROVE Connected'
    BY <1>1, <1>2, <2>3, ConnectedCallback DEF CallbackFails, hist
  <2>4. QED BY <1>3, <2>1, <2>2, <2>3, ConnectedExchange, ConnectedSave DEF Callback
<1>4. ASSUME NEW p \in Collectors, Collector(p) PROVE Connected'
  <2>1. ASSUME TakeStored(p) PROVE Connected'
    <3> DEFINE x == [pc |-> "has", access |-> Decrypt(conn.access), at |-> now]
    <3>1. collector' = [collector EXCEPT ![p] = x] /\ x.pc = "has"
      BY <2>1 DEF TakeStored
    <3>2. /\ UNCHANGED <<callback, conn, rotates, grants, lost, overtaken, raced, faults>>
          /\ collector[p].pc # "answered"
      BY <1>1, <2>1 DEF TakeStored, hist
    <3> HIDE DEF x
    <3>3. QED BY <3>1, <3>2, ConnectedLeaves
  <2>2. ASSUME Finish(p) PROVE Connected'
    BY <1>1, <2>2, ConnectedLeaves DEF Finish, hist
  <2>3. ASSUME CollectorFails(p) PROVE Connected'
    BY <1>1, <1>2, <2>3, ConnectedLeaves DEF CollectorFails
  <2>4. ASSUME RefreshRefused(p) PROVE Connected'
    <3> DEFINE x == [pc |-> "failed", id |-> collector[p].row.id]
    <3>1. /\ collector[p].pc = "loaded" /\ InHand(p) /\ collector' = [collector EXCEPT ![p] = x]
          /\ UNCHANGED <<callback, conn, rotates, grants, lost, overtaken, raced, faults>>
      BY <2>4 DEF RefreshRefused, InHand, hist
    <3>2. Decrypt(collector[p].row.refresh) = Token(p)
      BY <3>1, Serials, DecryptType DEF Connected, Carried, Token
    <3>3. ~Accepted(Token(p))
      BY <2>4, <3>2 DEF RefreshRefused
    <3>4. x.pc = "failed" /\ x.id = collector[p].row.id
      OBVIOUS
    <3> HIDE DEF x
    <3>5. QED BY <3>1, <3>3, <3>4, ConnectedLeaves
  <2>5. QED
    BY <1>4, <2>1, <2>2, <2>3, <2>4, ConnectedLoad, ConnectedAnswered, ConnectedLost,
       ConnectedMark, ConnectedRefreshed DEF Collector
<1>5. ASSUME NEW k \in Keys, ChangeKey(k) PROVE Connected'
  BY <1>2, <1>5, ConnectedFrame DEF ChangeKey, hist
<1>6. ASSUME NEW s \in States, Authorize(s) PROVE Connected'
  BY <1>6, ConnectedFrame DEF Authorize, hist
<1>7. CASE Tick
  BY <1>7, ConnectedFrame DEF Tick, hist
<1>8. CASE UNCHANGED vars
  BY <1>8, ConnectedFrame DEF vars, hist
<1>9. QED BY <1>3, <1>4, <1>5, <1>6, <1>7, <1>8, ConnectedDisconnect DEF Next

LEMMA ConnectedInvariance == Spec => [](TypeOK /\ Connected)
  BY TypeInit, TypeNext, ConnectedInit, ConnectedNext, PTL DEF Spec

\* The tokens of a row are of one grant, and the cloud shown is its site, unless a
\* reconnection replaced the row under a running refresh.
THEOREM RowKeepsOneGrant == Spec => []RowOfOneGrant
<1>1. Connected => RowOfOneGrant
  BY DEF Connected, Stored, RowOfOneGrant
<1>2. QED BY <1>1, ConnectedInvariance, PTL

\* However collections overlap, the stored refresh token is the one Atlassian
\* accepts, or a collector is about to store that one, unless a failure lost it; and
\* a connection is shown as unhealthy only after a failure or overlapping refreshes.
THEOREM ConnectionKept == Spec => []KeptUnlessLost
<1>1. TypeOK /\ Connected => KeptUnlessLost
  BY DEF Connected, Smooth, ShownHealthy, KeptUnlessLost
<1>2. QED BY <1>1, ConnectedInvariance, PTL
=============================================================================
