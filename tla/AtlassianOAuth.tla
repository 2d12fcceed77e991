--------------------------- MODULE AtlassianOAuth ---------------------------
(***************************************************************************)
(* The Jira connection of one tenant (internal/integrations/atlassian):    *)
(* the rows of platform.oauth_state and platform.oauth_connection, the     *)
(* handlers that connect and disconnect, and the collectors that ask for   *)
(* an access token and refresh it when it is about to expire.              *)
(*                                                                         *)
(* Atlassian (external) gives a grant per authorization.  A grant has one  *)
(* refresh token at a time; where Atlassian rotates, a refresh replaces it *)
(* and the one presented is worthless from then on.  Nothing serialises    *)
(* the collectors, and Atlassian's answer, the UPDATE of the row and the   *)
(* return are separate steps.                                              *)
(***************************************************************************)
EXTENDS Integers, FiniteSets

CONSTANTS
  States,      \* values randomURLSafe draws; each is drawn once
  Callbacks,   \* requests to /callback that may run at a time
  Collectors,  \* collection tasks that may ask for a token at a time
  Sites,       \* Jira sites a user may authorize
  Keys,        \* values of OAUTH_ENCRYPTION_KEY over the life of the rows
  StateTTL,    \* ten minutes
  Margin,      \* RefreshSafetyMargin, five minutes
  Timeout,     \* of the HTTP client, fifteen seconds
  Life,        \* expires_in of an access token
  MaxTime, MaxGrants, MaxFaults   \* bounds

ASSUME OAuthAssumption ==
  /\ {StateTTL, Margin, Timeout, Life, MaxTime, MaxGrants, MaxFaults} \subseteq Nat
  /\ 2 * Timeout < Margin /\ Margin <= Life

VARIABLES
  now,
  csrf,       \* expires_at of each row of oauth_state; -1: no row yet, -2: deleted
  callback,   \* where each request to /callback is and what it holds
  conn,       \* the row of oauth_connection, or NoRow
  collector,  \* where each collector is and what it holds
  key,        \* the key the processes run with
  rotates,    \* whether Atlassian rotates refresh tokens
  grants,     \* Atlassian: per grant given, its site and latest refresh token
  uses,       \* history: connections each state was accepted for
  lost,       \* history: grants whose latest refresh token a failure lost
  overtaken,  \* history: the row was replaced under a refresh of its old tokens
  raced,      \* history: two collectors refreshed the row at a time
  faults

hist == <<uses, lost, overtaken, raced>>
vars == <<now, csrf, callback, conn, collector, key, rotates, grants, uses, lost, overtaken,
          raced, faults>>

-----------------------------------------------------------------------------
NoRow   == [id |-> 0]
NoToken == [grant |-> 0]
Idle    == [pc |-> "idle"]

GrantIds == 1..MaxGrants
Given    == DOMAIN grants

\* Cipher.Encrypt and Decrypt: the empty text stays empty, and a text opens
\* under the key that closed it only.
Encrypt(token)    == IF token = NoToken THEN NoToken ELSE [key |-> key, token |-> token]
Opens(cipher)     == cipher # NoToken => cipher.key = key
Decrypt(cipher)   == IF cipher = NoToken THEN NoToken ELSE cipher.token

\* What Atlassian issues: an access token valid for Life from now on, and the
\* grant's latest refresh token.
Access(g)         == [grant |-> g, until |-> now + Life]
Latest(g)         == [grant |-> g, serial |-> grants[g].serial]

Fault == faults < MaxFaults /\ faults' = faults + 1

Init ==
  /\ now = 0
  /\ csrf = [s \in States |-> -1]
  /\ callback = [c \in Callbacks |-> Idle]
  /\ conn = NoRow
  /\ collector = [p \in Collectors |-> Idle]
  /\ key \in Keys
  /\ rotates \in BOOLEAN
  /\ grants = <<>>
  /\ uses = [s \in States |-> 0]
  /\ lost = {}
  /\ overtaken = FALSE
  /\ raced = FALSE
  /\ faults = 0

\* Time an answer of Atlassian may have taken to arrive: a client gives up
\* after Timeout, and a callback makes a second call after the exchange.
Waits(proc) == CASE proc.pc \in {"exchanged", "answered"} -> Timeout
                 [] proc.pc = "listed"                    -> 2 * Timeout
                 [] OTHER                                 -> MaxTime

InTime(proc) == Waits(proc) < MaxTime => now - (proc.access.until - Life) < Waits(proc)

Tick ==
  /\ now < MaxTime
  /\ \A c \in Callbacks : InTime(callback[c])
  /\ \A p \in Collectors : InTime(collector[p])
  /\ now' = now + 1
  /\ UNCHANGED <<csrf, callback, conn, collector, key, rotates, grants, hist, faults>>

-----------------------------------------------------------------------------
(* Connecting.                                                              *)

\* The row StartConnect inserts for the state it drew.
StartConnect(s) == csrf' = [csrf EXCEPT ![s] = now + StateTTL]

\* POST /authorize.
Authorize(s) ==
  /\ csrf[s] = -1
  /\ StartConnect(s)
  /\ UNCHANGED <<now, callback, conn, collector, key, rotates, grants, hist, faults>>

\* A definition marked "Wrong variant" belongs to no behaviour: put in the place
\* of the one after it, it breaks a property.

\* Wrong variant: the state is looked up and deleted with the connection's row.
ConsumeStateLater(c, s) ==
  /\ callback[c] = Idle /\ csrf[s] >= 0
  /\ UNCHANGED csrf
  /\ IF now > csrf[s]
     THEN UNCHANGED <<callback, uses>>
     ELSE /\ callback' = [callback EXCEPT ![c] = [pc |-> "consumed"]]
          /\ uses' = [uses EXCEPT ![s] = @ + 1]
  /\ UNCHANGED <<now, conn, collector, key, rotates, grants, lost, overtaken, raced, faults>>

\* GET /callback: CompleteConnect deletes the state and reads what it deleted.
\* Without a row, or with an error of Atlassian's in place of a code, the
\* handler redirects and changes nothing.
ConsumeState(c, s) ==
  /\ callback[c] = Idle /\ csrf[s] >= 0
  /\ csrf' = [csrf EXCEPT ![s] = -2]
  /\ IF now > csrf[s]
     THEN UNCHANGED <<callback, uses>>
     ELSE /\ callback' = [callback EXCEPT ![c] = [pc |-> "consumed"]]
          /\ uses' = [uses EXCEPT ![s] = @ + 1]
  /\ UNCHANGED <<now, conn, collector, key, rotates, grants, lost, overtaken, raced, faults>>

\* ExchangeCode: Atlassian gives a grant, with a refresh token if the consent
\* covers offline access.
ExchangeCode(c, site, offline) ==
  /\ callback[c].pc = "consumed" /\ Cardinality(Given) < MaxGrants
  /\ LET g == Cardinality(Given) + 1 IN
     /\ grants' = [h \in 1..g |-> IF h = g THEN [site |-> site, serial |-> 0] ELSE grants[h]]
     /\ callback' = [callback EXCEPT ![c] =
          [pc |-> "exchanged", access |-> Access(g),
           refresh |-> IF offline THEN [grant |-> g, serial |-> 0] ELSE NoToken]]
  /\ UNCHANGED <<now, csrf, conn, collector, key, rotates, hist, faults>>

\* ListAccessibleResources: its failure is not fatal, the cloud stays unknown.
ListResources(c, cloud) ==
  /\ callback[c].pc = "exchanged"
  /\ cloud \in {grants[callback[c].access.grant].site, "unknown"}
  /\ callback' = [callback EXCEPT ![c] =
       [pc |-> "listed", access |-> @.access, refresh |-> @.refresh, cloud |-> cloud]]
  /\ UNCHANGED <<now, csrf, conn, collector, key, rotates, grants, hist, faults>>

\* Collectors that hold what the row held when they read it.
InFlight == {p \in Collectors : collector[p].pc \in {"loaded", "answered"}
                                /\ collector[p].row.id = conn.id}

\* The INSERT ... ON CONFLICT DO UPDATE: a tenant that has a row keeps its id.
SaveConnection(c) ==
  /\ callback[c].pc = "listed"
  /\ LET cb == callback[c] IN
     conn' = [id      |-> IF conn = NoRow THEN cb.access.grant ELSE conn.id,
              cloud   |-> cb.cloud,
              access  |-> Encrypt(cb.access),
              refresh |-> Encrypt(cb.refresh),
              expires |-> now + Life,
              error   |-> FALSE]
  /\ overtaken' = (overtaken \/ (conn # NoRow /\ InFlight # {}))
  /\ callback' = [callback EXCEPT ![c] = Idle]
  /\ UNCHANGED <<now, csrf, collector, key, rotates, grants, uses, lost, raced, faults>>

\* The exchange is refused, the INSERT fails or the process dies: the state
\* stays consumed, and so does the grant if there is one.
CallbackFails(c) ==
  /\ callback[c] # Idle /\ Fault
  /\ callback' = [callback EXCEPT ![c] = Idle]
  /\ UNCHANGED <<now, csrf, conn, collector, key, rotates, grants, hist>>

\* The DELETE by tenant; the histories are the row's.
DeleteConnection == conn' = NoRow /\ overtaken' = FALSE /\ raced' = FALSE

\* DELETE /connection.
Disconnect ==
  /\ conn # NoRow
  /\ DeleteConnection
  /\ UNCHANGED <<now, csrf, callback, collector, key, rotates, grants, uses, lost, faults>>

\* GetConnection shows a connection as healthy if its row has no error.
Healthy == ~conn.error

-----------------------------------------------------------------------------
(* AccessToken.                                                             *)

\* Wrong variant: a token is used to its last minute.
NearExpiryUnsafe(row) == now >= row.expires

NearExpiry(row) == now + Margin > row.expires

\* The row is read and the stored token is far from its end: it is returned.
TakeStored(p) ==
  /\ collector[p] = Idle /\ conn # NoRow
  /\ ~NearExpiry(conn) /\ Opens(conn.access)
  /\ collector' = [collector EXCEPT ![p] =
       [pc |-> "has", access |-> Decrypt(conn.access), at |-> now]]
  /\ UNCHANGED <<now, csrf, callback, conn, key, rotates, grants, hist, faults>>

\* The row is read and its token is about to expire.  A refresh token that does
\* not open, or is empty, ends the request at once and nothing is recorded.
LoadForRefresh(p) ==
  /\ collector[p] = Idle /\ conn # NoRow
  /\ NearExpiry(conn) /\ Opens(conn.refresh) /\ conn.refresh # NoToken
  /\ collector' = [collector EXCEPT ![p] =
       [pc |-> "loaded", row |-> [id |-> conn.id, refresh |-> conn.refresh]]]
  /\ raced' = (raced \/ InFlight # {})
  /\ UNCHANGED <<now, csrf, callback, conn, key, rotates, grants, uses, lost, overtaken,
                 faults>>

\* Atlassian takes the grant's latest refresh token, and replaces it if it
\* rotates.
Accepted(token) == token = Latest(token.grant)

Rotate(g) == IF rotates THEN [grants EXCEPT ![g].serial = @ + 1] ELSE grants

RefreshAnswered(p) ==
  /\ collector[p].pc = "loaded"
  /\ LET token == Decrypt(collector[p].row.refresh)  g == token.grant IN
     /\ Accepted(token)
     /\ grants' = Rotate(g)
     /\ collector' = [collector EXCEPT ![p] =
          [pc |-> "answered", row |-> @.row, access |-> Access(g),
           refresh |-> IF rotates THEN [grant |-> g, serial |-> token.serial + 1] ELSE NoToken]]
  /\ UNCHANGED <<now, csrf, callback, conn, key, rotates, hist, faults>>

RefreshRefused(p) ==
  /\ collector[p].pc = "loaded"
  /\ ~Accepted(Decrypt(collector[p].row.refresh))
  /\ collector' = [collector EXCEPT ![p] = [pc |-> "failed", id |-> @.row.id]]
  /\ UNCHANGED <<now, csrf, callback, conn, key, rotates, grants, hist, faults>>

\* No answer, an answer that is no 2xx or cannot be read: Atlassian may have
\* rotated all the same.
RefreshLost(p) ==
  /\ collector[p].pc = "loaded" /\ Fault
  /\ LET token == Decrypt(collector[p].row.refresh) IN
     \/ UNCHANGED <<grants, lost>>
     \/ /\ Accepted(token) /\ rotates
        /\ grants' = Rotate(token.grant)
        /\ lost' = lost \cup {token.grant}
  /\ collector' = [collector EXCEPT ![p] = [pc |-> "failed", id |-> @.row.id]]
  /\ UNCHANGED <<now, csrf, callback, conn, key, rotates, uses, overtaken, raced>>

\* The UPDATE of last_refresh_error, whose own failure nobody sees.
MarkError(p) ==
  /\ collector[p].pc = "failed"
  /\ \/ /\ conn' = IF conn.id = collector[p].id THEN [conn EXCEPT !.error = TRUE] ELSE conn
        /\ UNCHANGED faults
     \/ Fault /\ UNCHANGED conn
  /\ collector' = [collector EXCEPT ![p] = Idle]
  /\ UNCHANGED <<now, csrf, callback, key, rotates, grants, hist>>

\* The refresh token to store: a new one, or the copy of the old one.
\* Wrong variant: the old one in any case.
KeptRefreshOld(proc) == proc.row.refresh

KeptRefresh(proc) == IF proc.refresh # NoToken THEN Encrypt(proc.refresh) ELSE proc.row.refresh

\* The UPDATE's WHERE clause.
\* Wrong variant: by tenant.
MeetsTenant(proc) == conn # NoRow

Meets(proc) == conn # NoRow /\ conn.id = proc.row.id

\* The UPDATE of the refreshed row; the token goes to the caller whether or not
\* a row was met.
SaveRefreshed(p) ==
  /\ collector[p].pc = "answered"
  /\ LET proc == collector[p] IN
     /\ conn' = IF Meets(proc)
                THEN [conn EXCEPT !.access  = Encrypt(proc.access),
                                  !.refresh = KeptRefresh(proc),
                                  !.expires = now + Life,
                                  !.error   = FALSE]
                ELSE conn
     /\ collector' = [collector EXCEPT ![p] = [pc |-> "has", access |-> proc.access, at |-> now]]
  /\ UNCHANGED <<now, csrf, callback, key, rotates, grants, hist, faults>>

\* The UPDATE fails, or the process dies anywhere in the request.
CollectorFails(p) ==
  /\ collector[p].pc \in {"loaded", "answered", "failed"} /\ Fault
  /\ lost' = IF collector[p].pc = "answered" /\ rotates
             THEN lost \cup {collector[p].access.grant} ELSE lost
  /\ collector' = [collector EXCEPT ![p] = Idle]
  /\ UNCHANGED <<now, csrf, callback, conn, key, rotates, grants, uses, overtaken, raced>>

\* The collection that asked is over.
Finish(p) ==
  /\ collector[p].pc = "has"
  /\ collector' = [collector EXCEPT ![p] = Idle]
  /\ UNCHANGED <<now, csrf, callback, conn, key, rotates, grants, hist, faults>>

\* The installation is stopped and started with another key.
ChangeKey(k) ==
  /\ k # key /\ Fault
  /\ \A c \in Callbacks : callback[c] = Idle
  /\ \A p \in Collectors : collector[p] = Idle
  /\ key' = k
  /\ UNCHANGED <<now, csrf, callback, conn, collector, rotates, grants, hist>>

-----------------------------------------------------------------------------
Callback(c) ==
  \/ \E s \in States : ConsumeState(c, s)
  \/ \E site \in Sites, offline \in BOOLEAN : ExchangeCode(c, site, offline)
  \/ \E cloud \in Sites \cup {"unknown"} : ListResources(c, cloud)
  \/ SaveConnection(c)
  \/ CallbackFails(c)

Collector(p) ==
  \/ TakeStored(p) \/ LoadForRefresh(p)
  \/ RefreshAnswered(p) \/ RefreshRefused(p) \/ RefreshLost(p)
  \/ MarkError(p) \/ SaveRefreshed(p) \/ CollectorFails(p) \/ Finish(p)

Next ==
  \/ Tick
  \/ \E s \in States : Authorize(s)
  \/ \E c \in Callbacks : Callback(c)
  \/ Disconnect
  \/ \E p \in Collectors : Collector(p)
  \/ \E k \in Keys : ChangeKey(k)

Spec == Init /\ [][Next]_vars

-----------------------------------------------------------------------------
(* Properties.                                                              *)

TokenA == [grant : GrantIds, until : Nat]
TokenR == [grant : GrantIds, serial : Nat]
CipherA == [key : Keys, token : TokenA]
CipherR == [key : Keys, token : TokenR] \cup {NoToken}
Clouds == Sites \cup {"unknown"}

\* What the requests to /callback, the row and the collectors may be.
Exchanged == [pc : {"exchanged"}, access : TokenA, refresh : TokenR \cup {NoToken}]
Listed    == [pc : {"listed"}, access : TokenA, refresh : TokenR \cup {NoToken}, cloud : Clouds]
Row       == [id : GrantIds, cloud : Clouds, access : CipherA, refresh : CipherR,
              expires : Nat, error : BOOLEAN]
RowRead   == [id : GrantIds, refresh : CipherR]
Loaded    == [pc : {"loaded"}, row : RowRead]
Answered  == [pc : {"answered"}, row : RowRead, access : TokenA, refresh : TokenR \cup {NoToken}]
Failed    == [pc : {"failed"}, id : GrantIds]
Has       == [pc : {"has"}, access : TokenA, at : Nat]
Grant     == [site : Sites, serial : Nat]

TypeOK ==
  /\ now \in 0..MaxTime
  /\ csrf \in [States -> -2..MaxTime + StateTTL]
  /\ callback \in [Callbacks -> {Idle, [pc |-> "consumed"]} \cup Exchanged \cup Listed]
  /\ conn \in {NoRow} \cup Row
  /\ collector \in [Collectors -> {Idle} \cup Loaded \cup Answered \cup Failed \cup Has]
  /\ key \in Keys
  /\ rotates \in BOOLEAN
  /\ \E n \in 0..MaxGrants : grants \in [1..n -> Grant]
  /\ uses \in [States -> Nat]
  /\ lost \subseteq GrantIds
  /\ overtaken \in BOOLEAN
  /\ raced \in BOOLEAN
  /\ faults \in 0..MaxFaults

StoredIsAccepted ==
  conn # NoRow /\ conn.refresh # NoToken =>
    LET token == conn.refresh.token IN
    token.grant \notin lost =>
      \/ Accepted(token)
      \/ \E p \in Collectors : collector[p].pc = "answered"
                               /\ collector[p].row.id = conn.id
                               /\ collector[p].refresh = Latest(token.grant)

ShownHealthy == conn # NoRow /\ faults = 0 /\ ~raced => Healthy

\* However collections overlap, the refresh token stored is the one Atlassian
\* accepts, or a collector is about to store the one that is: only a failure
\* between Atlassian's rotation and the UPDATE loses a connection.  And it is
\* shown as unhealthy only after a failure or after overlapping refreshes.
KeptUnlessLost == StoredIsAccepted /\ ShownHealthy

\* The tokens of a row belong to one grant, and the cloud shown to its site,
\* unless a reconnection replaced the row under a running refresh: a refresh
\* begun before a disconnection never touches the connection made after it.
RowOfOneGrant ==
  conn # NoRow =>
    LET g == conn.access.token.grant IN
    /\ conn.refresh # NoToken => conn.refresh.token.grant = g
    /\ overtaken \/ conn.cloud \in {grants[g].site, "unknown"}

\* A state is accepted for one connection at most, however many requests carry
\* it.
StateUsedOnce == \A s \in States : uses[s] <= 1

\* A token handed out stays valid for the margin less the time its answer may
\* have taken, although its end is counted from the answer's arrival.
TakenTokensLive ==
  \A p \in Collectors : collector[p].pc = "has" =>
    collector[p].access.until >= collector[p].at + Margin - 2 * Timeout
=============================================================================
