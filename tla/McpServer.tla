------------------------------ MODULE McpServer ------------------------------
(***************************************************************************)
(* The MCP server (internal/mcp/server): the OAuth 2.1 server in its       *)
(* memory, the check of the bearer on /mcp, and the tools that read the    *)
(* latest window of projects and teams, one query at a time, while the     *)
(* workers insert windows and the API deletes what windows belong to.      *)
(*                                                                         *)
(* Each section under OAuthServer.mu is one action, and so is each query.  *)
(* Codes and tokens live in the process: a restart, perhaps with another   *)
(* environment, forgets them and cuts every request short.                 *)
(***************************************************************************)
EXTENDS Integers, Sequences, FiniteSets, FiniteSetsExt

CONSTANTS
  Codes, Tokens,          \* values randomURLSafe draws; each is drawn once
  Clients, Redirects,     \* of MCP_OAUTH_CLIENTS
  Verifiers,              \* PKCE verifiers; a challenge is known by its verifier
  StaticTokens,           \* values of MCP_SERVER_TOKEN
  Environments,           \* environments a process may start in
  Exchanges, Requests,    \* requests to /oauth/token and to /mcp that may run at a time
  Projects, Teams,
  Days,                   \* window lengths computed, and asked for beside the default
  MaxTeams,               \* of a comparison, four
  CodeTTL, TokenTTL,      \* sixty seconds, one hour
  MaxTime, MaxWindows, MaxRestarts   \* bounds

Entries == (Clients \X Redirects) \cup {<<"malformed">>}

ASSUME McpAssumption ==
  /\ {CodeTTL, TokenTTL, MaxTeams, MaxTime, MaxWindows, MaxRestarts} \subseteq Nat
  /\ Environments \subseteq [entries  : SUBSET Entries,
                             operator : BOOLEAN,   \* MCP_OAUTH_OPERATOR_TOKEN is set
                             static   : StaticTokens \cup {""},
                             insecure : BOOLEAN]   \* MCP_ALLOW_INSECURE=true
  /\ Days \subseteq Nat \ {0}

Scopes == Projects \cup Teams

VARIABLES
  now,
  env,           \* the environment of the running process
  pendingCodes,  \* per code, what was authorized; NoCode when there is no entry
  activeTokens,  \* per token, its client and expiry; NoToken when there is no entry
  exchange,      \* where each request to /oauth/token is and what it holds
  offers,        \* history: per code, what was authorized; NoCode: not drawn yet
  origin,        \* history: per token, the code and form it was issued for; NoToken: not drawn
  voided,        \* history: tokens revoked, or of an earlier process
  request,       \* where each request to /mcp is and what it holds
  live,          \* scopes that have a row
  windows,       \* per scope and length, the computed_at of its rows
  restarts

oauth == <<pendingCodes, activeTokens, exchange, offers, origin, voided>>
data  == <<request, live, windows>>
vars  == <<now, env, oauth, data, restarts>>

-----------------------------------------------------------------------------
NoCode  == [client |-> ""]
NoToken == [client |-> ""]
Idle    == [pc |-> "idle"]

\* Entries without a colon are skipped; those of one client are merged.
NewOAuthServer(entries) ==
  LET good == entries \ {<<"malformed">>} IN
  [c \in {e[1] : e \in good} |-> {e[2] : e \in {f \in good : f[1] = c}}]

clients == NewOAuthServer(env.entries)

Enabled(e) == DOMAIN NewOAuthServer(e.entries) # {}

\* main refuses to start without a static token unless told so.
MayStart(e) == e.static # "" \/ e.insecure

\* What the process holds when it starts.
NoCodes     == [c \in Codes |-> NoCode]
NoTokens    == [t \in Tokens |-> NoToken]
NoExchanges == [e \in Exchanges |-> Idle]
NoRequests  == [r \in Requests |-> Idle]

Init ==
  /\ now = 0
  /\ env \in {e \in Environments : MayStart(e)}
  /\ pendingCodes = NoCodes /\ activeTokens = NoTokens
  /\ exchange = NoExchanges /\ request = NoRequests
  /\ offers = NoCodes
  /\ origin = NoTokens
  /\ voided = {}
  /\ live = Scopes
  /\ windows = [k \in Scopes \X ({30} \cup Days) |-> {}]
  /\ restarts = 0

Tick ==
  /\ now < MaxTime
  /\ now' = now + 1
  /\ UNCHANGED <<env, oauth, data, restarts>>

-----------------------------------------------------------------------------
(* The authorization server.                                                *)

\* GET /oauth/authorize: a known client, one of its redirects, a challenge and
\* the operator's approval; anything else is an error that changes nothing.
handleAuthorize(c, client, redirect, challenge) ==
  /\ Enabled(env) /\ env.operator
  /\ client \in DOMAIN clients /\ redirect \in clients[client]
  /\ offers[c] = NoCode
  /\ LET code == [client |-> client, redirect |-> redirect, challenge |-> challenge,
                  expires |-> now + CodeTTL] IN
     /\ pendingCodes' = [pendingCodes EXCEPT ![c] = code]
     /\ offers' = [offers EXCEPT ![c] = code]
  /\ UNCHANGED <<now, env, activeTokens, exchange, origin, voided, data, restarts>>

\* A definition marked "Wrong variant" belongs to no behaviour: put in the place
\* of the one after it, it breaks a property.

\* Wrong variant: the code stays until its token is issued.
LookedUpLater(c) == pendingCodes

\* The entry is removed by the section that looks it up.
LookedUp(c) == [pendingCodes EXCEPT ![c] = NoCode]

\* POST /oauth/token, first section.  A code without an entry is an error.
TakeCode(e, c, form) ==
  /\ Enabled(env)
  /\ exchange[e] = Idle /\ pendingCodes[c] # NoCode
  /\ pendingCodes' = LookedUp(c)
  /\ exchange' = [exchange EXCEPT ![e] =
       [pc |-> "taken", code |-> c, pending |-> pendingCodes[c], form |-> form]]
  /\ UNCHANGED <<now, env, activeTokens, offers, origin, voided, data, restarts>>

\* Wrong variant: the redirect is not compared.
MatchesAnyRedirect(pending, form) ==
  /\ pending.client = form.client
  /\ pending.challenge = form.verifier

Matches(pending, form) ==
  /\ pending.client = form.client
  /\ pending.redirect = form.redirect
  /\ pending.challenge = form.verifier

\* The checks, outside the lock.  A code that fails them is gone all the same.
CheckForm(e) ==
  /\ exchange[e].pc = "taken"
  /\ LET x == exchange[e] IN
     exchange' = [exchange EXCEPT ![e] =
       IF now <= x.pending.expires /\ Matches(x.pending, x.form)
       THEN [x EXCEPT !.pc = "checked"] ELSE Idle]
  /\ UNCHANGED <<now, env, pendingCodes, activeTokens, offers, origin, voided, data, restarts>>

\* The second section: the token is drawn and stored.
IssueToken(e, t) ==
  /\ exchange[e].pc = "checked" /\ origin[t] = NoToken
  /\ LET x == exchange[e] IN
     /\ activeTokens' = [activeTokens EXCEPT ![t] =
          [client |-> x.pending.client, expires |-> now + TokenTTL]]
     /\ origin' = [origin EXCEPT ![t] =
          [client |-> x.form.client, code |-> x.code, form |-> x.form, at |-> now]]
  /\ exchange' = [exchange EXCEPT ![e] = Idle]
  /\ UNCHANGED <<now, env, pendingCodes, offers, voided, data, restarts>>

\* POST /oauth/revoke.
handleRevoke(t) ==
  /\ Enabled(env) /\ activeTokens[t] # NoToken
  /\ activeTokens' = [activeTokens EXCEPT ![t] = NoToken]
  /\ voided' = voided \cup {t}
  /\ UNCHANGED <<now, env, pendingCodes, exchange, offers, origin, data, restarts>>

\* ValidateToken: an entry past its end is refused, and deleted on the way.
Expired(t) == activeTokens[t] # NoToken /\ now > activeTokens[t].expires

ValidateToken(t) == activeTokens[t] # NoToken /\ ~Expired(t)

Swept(bearer) ==
  IF bearer \in Tokens /\ Enabled(env) /\ bearer # env.static /\ Expired(bearer)
  THEN [activeTokens EXCEPT ![bearer] = NoToken] ELSE activeTokens

-----------------------------------------------------------------------------
(* POST /mcp.                                                               *)

\* Neither a static token nor OAuth: every request passes.
Open == env.static = "" /\ ~Enabled(env)

checkAuth(bearer) ==
  \/ env.static # "" /\ bearer = env.static
  \/ Enabled(env) /\ bearer \in Tokens /\ ValidateToken(bearer)
  \/ Open

\* What the tools and the resources ask about.
effective(days) == IF days = 0 THEN 30 ELSE days

toolGetDoraMetrics(scope, days) == [scopes |-> <<scope>>, days |-> effective(days)]
toolExplainTrend(scope, days)   == toolGetDoraMetrics(scope, days)
toolCompareTeams(teams, days)   == [scopes |-> teams, days |-> effective(days)]
handleResourcesRead(scope)      == [scopes |-> <<scope>>, days |-> 30]

\* A note in place of the deployments.
toolGetDeployments(days)        == [scopes |-> <<>>, days |-> effective(days)]

handleToolsCall ==
  LET lists == UNION {[1..n -> Teams] : n \in 2..MaxTeams} IN
  UNION {{toolGetDoraMetrics(s, d) : s \in Scopes}
         \cup {toolExplainTrend(s, d) : s \in Scopes}
         \cup {toolCompareTeams(l, d) : l \in lists}
         \cup {toolGetDeployments(d)} : d \in {0} \cup Days}

dispatch == handleToolsCall \cup {handleResourcesRead(s) : s \in Scopes}

\* A request that passes is dispatched.  The windows of its scopes at that time
\* are kept to judge the reply by.
Accept(r, bearer, question) ==
  /\ request[r] = Idle /\ checkAuth(bearer)
  /\ request' = [request EXCEPT ![r] =
       [pc |-> "asking", bearer |-> bearer, question |-> question, answers |-> <<>>,
        floor |-> [k \in DOMAIN question.scopes |-> windows[<<question.scopes[k], question.days>>]]]]
  /\ UNCHANGED <<now, env, oauth, live, windows, restarts>>

\* 401: an expired token is swept.
Refuse(bearer) ==
  /\ ~checkAuth(bearer)
  /\ activeTokens' = Swept(bearer) /\ activeTokens' # activeTokens
  /\ UNCHANGED <<now, env, pendingCodes, exchange, offers, origin, voided, data, restarts>>

Asked(q)    == q.question.scopes[Len(q.answers) + 1]
Answered(q) == Len(q.answers) = Len(q.question.scopes)

\* Answers that are errors; compareTeams puts them beside the answers about the other
\* teams, and the other questions, about one scope, end with them.
NotFound == -1
Failed   == -2

\* fetchMetricsByID, first query: the scope's row, for its tenant.  There is one, or
\* there is none, or the query fails.
ResolveScope(r) ==
  /\ request[r].pc = "asking" /\ ~Answered(request[r])
  /\ LET q == request[r] IN
     \/ /\ Asked(q) \in live
        /\ request' = [request EXCEPT ![r] = [q EXCEPT !.pc = "resolved"]]
     \/ \E error \in (IF Asked(q) \in live THEN {} ELSE {NotFound}) \cup {Failed} :
          request' = [request EXCEPT ![r] = [q EXCEPT !.answers = Append(q.answers, error)]]
  /\ UNCHANGED <<now, env, oauth, live, windows, restarts>>

\* The window with the latest computed_at; 0 when there is none.
GetLatestMetricWindow(scope, days) == Max({0} \cup windows[<<scope, days>>])

\* Wrong variant: any error is taken for no window.
WindowOrNone(scope, days) == {GetLatestMetricWindow(scope, days), 0}

\* Second query: the latest window, insufficient data if there is none, or it fails.
WindowAnswers(scope, days) == {GetLatestMetricWindow(scope, days), Failed}

ReadWindow(r) ==
  /\ request[r].pc = "resolved"
  /\ LET q == request[r] IN
     \E answer \in WindowAnswers(Asked(q), q.question.days) :
       request' = [request EXCEPT ![r] =
         [q EXCEPT !.pc = "asking", !.answers = Append(q.answers, answer)]]
  /\ UNCHANGED <<now, env, oauth, live, windows, restarts>>

Reply(r) ==
  /\ request[r].pc = "asking" /\ Answered(request[r])
  /\ request' = [request EXCEPT ![r] = Idle]
  /\ UNCHANGED <<now, env, oauth, live, windows, restarts>>

-----------------------------------------------------------------------------
(* Around the server.                                                       *)

\* A worker's computation commits a window of a project; those of two may commit
\* in either order.  Nothing computes windows of teams.
UpsertMetricWindow(scope, days, computedAt) ==
  /\ computedAt \notin windows[<<scope, days>>]
  /\ windows' = [windows EXCEPT ![<<scope, days>>] = @ \cup {computedAt}]
  /\ UNCHANGED <<now, env, oauth, request, live, restarts>>

\* The team or the source instance of the project is deleted; windows stay.
DeleteScope(scope) ==
  /\ scope \in live
  /\ live' = live \ {scope}
  /\ UNCHANGED <<now, env, oauth, request, windows, restarts>>

Restart(e) ==
  /\ restarts < MaxRestarts /\ restarts' = restarts + 1
  /\ MayStart(e) /\ env' = e
  /\ pendingCodes' = NoCodes /\ activeTokens' = NoTokens
  /\ exchange' = NoExchanges /\ request' = NoRequests
  /\ voided' = voided \cup {t \in Tokens : origin[t] # NoToken}
  /\ UNCHANGED <<now, offers, origin, live, windows>>

-----------------------------------------------------------------------------
Form == [client : Clients, redirect : Redirects, verifier : Verifiers]
Bearers == Tokens \cup StaticTokens \cup {""}

OAuth ==
  \/ \E c \in Codes, client \in Clients, redirect \in Redirects, challenge \in Verifiers :
       handleAuthorize(c, client, redirect, challenge)
  \/ \E e \in Exchanges, c \in Codes, form \in Form : TakeCode(e, c, form)
  \/ \E e \in Exchanges : CheckForm(e)
  \/ \E e \in Exchanges, t \in Tokens : IssueToken(e, t)
  \/ \E t \in Tokens : handleRevoke(t)

Mcp ==
  \/ \E r \in Requests, b \in Bearers, q \in dispatch : Accept(r, b, q)
  \/ \E b \in Bearers : Refuse(b)
  \/ \E r \in Requests : ResolveScope(r) \/ ReadWindow(r) \/ Reply(r)

Around ==
  \/ Tick
  \/ \E s \in Projects, d \in Days, at \in 1..MaxWindows : UpsertMetricWindow(s, d, at)
  \/ \E s \in Scopes : DeleteScope(s)
  \/ \E e \in Environments : Restart(e)

Next == OAuth \/ Mcp \/ Around

Spec == Init /\ [][Next]_vars

-----------------------------------------------------------------------------
(* Properties.                                                              *)

CodeRec == [client : Clients, redirect : Redirects, challenge : Verifiers, expires : Nat]

RequestRec == [pc : {"asking", "resolved"}, bearer : Bearers,
               question : [scopes : Seq(Scopes), days : {30} \cup Days],
               answers : Seq(Int), floor : Seq(SUBSET Nat)]

TypeOK ==
  /\ now \in 0..MaxTime
  /\ env \in Environments
  /\ pendingCodes \in [Codes -> CodeRec \cup {NoCode}]
  /\ activeTokens \in [Tokens -> [client : Clients, expires : Nat] \cup {NoToken}]
  /\ exchange \in [Exchanges -> {Idle} \cup [pc : {"taken", "checked"}, code : Codes,
                                             pending : CodeRec, form : Form]]
  /\ offers \in [Codes -> CodeRec \cup {NoCode}]
  /\ origin \in [Tokens -> [client : Clients, code : Codes, form : Form, at : Nat]
                           \cup {NoToken}]
  /\ voided \subseteq Tokens
  /\ request \in [Requests -> {Idle} \cup RequestRec]
  /\ live \subseteq Scopes
  /\ windows \in [Scopes \X ({30} \cup Days) -> SUBSET (1..MaxWindows)]
  /\ restarts \in 0..MaxRestarts

\* Where each code stands, seen from outside, and the tokens that pass for it.
TokensOf(c) == {t \in Tokens : origin[t] # NoToken /\ origin[t].code = c}
Passing(c)  == {t \in TokensOf(c) : ValidateToken(t)}
Held(c)     == \E e \in Exchanges : exchange[e] # Idle /\ exchange[e].code = c

phase(c) ==
  CASE offers[c] = NoCode                                     -> "none"
    [] Passing(c) # {}                                        -> "granted"
    [] TokensOf(c) = {} /\ (pendingCodes[c] # NoCode \/ Held(c)) -> "offered"
    [] OTHER                                                  -> "ended"

holder == [c \in Codes |-> [phase |-> phase(c), tokens |-> Passing(c)]]

Grants == INSTANCE AccessGrant

\* However exchanges, revocations, expiry and restarts interleave, a code gives
\* one token at most and what has ended never comes back: the server implements
\* AccessGrant.
ImplementsGrant == Grants!Spec

\* A request passes with the static token of this process, where nothing is
\* protected, or with a token issued in this process, not revoked and not older
\* than an hour, in exchange for a code the operator approved: one that the same
\* client redeemed in time with the redirect and the verifier of its own request.
WasGranted(t) ==
  /\ origin[t] # NoToken /\ t \notin voided
  /\ now <= origin[t].at + TokenTTL
  /\ LET o == origin[t]  offer == offers[o.code] IN
     o.form = [client |-> offer.client, redirect |-> offer.redirect, verifier |-> offer.challenge]

Passes(bearer) ==
  \/ bearer \in StaticTokens /\ bearer = env.static
  \/ bearer \in Tokens /\ Enabled(env) /\ WasGranted(bearer)
  \/ env.static = "" /\ DOMAIN clients = {} /\ env.insecure

AcceptedWasGranted ==
  [][\A r \in Requests : request[r] = Idle /\ request'[r] # Idle => Passes(request'[r].bearer)]_vars

\* Whatever queries fail in between, and for whichever of several teams: a window in a
\* reply is of the scope and length asked for and no older than the latest there was
\* when the request was accepted; insufficient data is said only if there was none
\* then, never because a query failed; not found only if the scope was deleted.
ReplyCurrent ==
  \A r \in Requests : request[r] # Idle =>
    LET q == request[r] IN
    \A k \in DOMAIN q.answers :
      \/ q.answers[k] = Failed
      \/ q.answers[k] = NotFound /\ q.question.scopes[k] \notin live
      \/ /\ q.answers[k] \in {0} \cup windows[<<q.question.scopes[k], q.question.days>>]
         /\ \A w \in q.floor[k] : q.answers[k] >= w
=============================================================================
