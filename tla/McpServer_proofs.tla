-------------------------- MODULE McpServer_proofs --------------------------
(***************************************************************************)
(* Proofs about McpServer, for every set of codes, tokens, clients,        *)
(* requests and scopes and every value of the bounds.                      *)
(***************************************************************************)
EXTENDS McpServer, WellFoundedInduction, TLAPS

-----------------------------------------------------------------------------
(* Facts about the records.                                                 *)

ExchangeRec == [pc : {"taken", "checked"}, code : Codes, pending : CodeRec, form : Form]
TokenRec    == [client : Clients, expires : Nat]
OriginRec   == [client : Clients, code : Codes, form : Form, at : Nat]

\* An entry is never mistaken for a missing one.
LEMMA CodeApart == NoCode \notin CodeRec
<1>1. DOMAIN NoCode = {"client"}
  BY DEF NoCode
<1>2. \A r \in CodeRec : "expires" \in DOMAIN r
  BY DEF CodeRec
<1>3. QED BY <1>1, <1>2

LEMMA TokenApart == NoToken \notin TokenRec /\ NoToken \notin OriginRec
<1>1. DOMAIN NoToken = {"client"}
  BY DEF NoToken
<1>2. \A r \in TokenRec : "expires" \in DOMAIN r
  BY DEF TokenRec
<1>3. \A r \in OriginRec : "at" \in DOMAIN r
  BY DEF OriginRec
<1>4. QED BY <1>1, <1>2, <1>3

LEMMA IdleApart == Idle \notin ExchangeRec /\ Idle \notin RequestRec
<1>1. DOMAIN Idle = {"pc"}
  BY DEF Idle
<1>2. \A r \in ExchangeRec : "form" \in DOMAIN r
  BY DEF ExchangeRec
<1>3. \A r \in RequestRec : "floor" \in DOMAIN r
  BY DEF RequestRec
<1>4. QED BY <1>1, <1>2, <1>3

\* The bounds are naturals, and the environments records.
LEMMA Bounds ==
  /\ CodeTTL \in Nat /\ TokenTTL \in Nat /\ MaxTime \in Nat /\ MaxWindows \in Nat
  /\ MaxRestarts \in Nat /\ MaxTeams \in Nat
  BY McpAssumption

-----------------------------------------------------------------------------
(* Types.                                                                   *)

Lengths == {30} \cup Days

Question == [scopes : Seq(Scopes), days : Lengths]

\* A question is of known scopes and one length.
LEMMA DispatchType == dispatch \subseteq Question
<1>1. \A d \in {0} \cup Days : effective(d) \in Lengths
  BY DEF effective, Lengths
<1>2. \A s \in Scopes : <<s>> \in Seq(Scopes)
  OBVIOUS
<1>3. \A n \in Nat : \A l \in [1..n -> Teams] : l \in Seq(Scopes)
  BY DEF Scopes
<1>4. ASSUME NEW q \in handleToolsCall PROVE q \in Question
  <2>1. PICK d \in {0} \cup Days :
          \/ \E s \in Scopes : q = toolGetDoraMetrics(s, d)
          \/ \E n \in 2..MaxTeams : \E l \in [1..n -> Teams] : q = toolCompareTeams(l, d)
          \/ q = toolGetDeployments(d)
    BY DEF handleToolsCall, toolExplainTrend
  <2>2. CASE \E s \in Scopes : q = toolGetDoraMetrics(s, d)
    BY <1>1, <1>2, <2>2 DEF toolGetDoraMetrics, Question
  <2>3. CASE \E n \in 2..MaxTeams : \E l \in [1..n -> Teams] : q = toolCompareTeams(l, d)
    BY <1>1, <1>3, <2>3, Bounds DEF toolCompareTeams, Question
  <2>4. CASE q = toolGetDeployments(d)
    BY <1>1, <2>4 DEF toolGetDeployments, Question
  <2>5. QED BY <2>1, <2>2, <2>3, <2>4
<1>5. \A s \in Scopes : handleResourcesRead(s) \in Question
  BY <1>2 DEF handleResourcesRead, Question, Lengths
<1>6. QED BY <1>4, <1>5 DEF dispatch

LEMMA TypeInit == Init => TypeOK
  BY Bounds DEF Init, TypeOK, NoCodes, NoTokens, NoExchanges, NoRequests, Scopes

\* The server's own state keeps its types.
LEMMA TypeOAuth ==
  ASSUME TypeOK, OAuth
  PROVE  TypeOK'
<1>1. ASSUME NEW c \in Codes, NEW client \in Clients, NEW redirect \in Redirects,
             NEW challenge \in Verifiers, handleAuthorize(c, client, redirect, challenge)
      PROVE  TypeOK'
  <2> DEFINE code == [client |-> client, redirect |-> redirect, challenge |-> challenge,
                      expires |-> now + CodeTTL]
  <2>1. code \in CodeRec
    BY Bounds DEF TypeOK, CodeRec
  <2>2. /\ pendingCodes' = [pendingCodes EXCEPT ![c] = code]
        /\ offers' = [offers EXCEPT ![c] = code]
    BY <1>1 DEF handleAuthorize
  <2> HIDE DEF code
  <2>3. QED BY <1>1, <2>1, <2>2 DEF handleAuthorize, TypeOK, data
<1>2. ASSUME NEW e \in Exchanges, NEW c \in Codes, NEW form \in Form, TakeCode(e, c, form)
      PROVE  TypeOK'
  <2>1. pendingCodes[c] \in CodeRec
    BY <1>2 DEF TakeCode, TypeOK
  <2> DEFINE x == [pc |-> "taken", code |-> c, pending |-> pendingCodes[c], form |-> form]
  <2>2. x \in ExchangeRec
    BY <2>1 DEF ExchangeRec
  <2>3. exchange' = [exchange EXCEPT ![e] = x] /\ pendingCodes' = [pendingCodes EXCEPT ![c] = NoCode]
    BY <1>2 DEF TakeCode, LookedUp
  <2> HIDE DEF x
  <2>4. QED BY <1>2, <2>2, <2>3 DEF TakeCode, TypeOK, data, ExchangeRec
<1>3. ASSUME NEW e \in Exchanges, CheckForm(e) PROVE TypeOK'
  <2>1. exchange[e] \in ExchangeRec
    BY <1>3 DEF CheckForm, TypeOK, ExchangeRec, Idle
  <2>2. [exchange[e] EXCEPT !.pc = "checked"] \in ExchangeRec
    BY <2>1 DEF ExchangeRec
  <2>3. exchange' \in [Exchanges -> {Idle} \cup ExchangeRec]
    BY <1>3, <2>2 DEF CheckForm, TypeOK, ExchangeRec
  <2>4. QED BY <1>3, <2>3 DEF CheckForm, TypeOK, data, ExchangeRec
<1>4. ASSUME NEW e \in Exchanges, NEW t \in Tokens, IssueToken(e, t) PROVE TypeOK'
  <2> DEFINE x == exchange[e]
             token == [client |-> x.pending.client, expires |-> now + TokenTTL]
             from  == [client |-> x.form.client, code |-> x.code, form |-> x.form, at |-> now]
  <2>1. x \in ExchangeRec
    BY <1>4 DEF IssueToken, TypeOK, ExchangeRec, Idle
  <2>2. token \in TokenRec
    BY <2>1, Bounds DEF TypeOK, ExchangeRec, TokenRec, CodeRec
  <2>3. from \in OriginRec
    BY <2>1 DEF TypeOK, ExchangeRec, OriginRec, Form
  <2>4. /\ activeTokens' = [activeTokens EXCEPT ![t] = token]
        /\ origin' = [origin EXCEPT ![t] = from]
        /\ exchange' = [exchange EXCEPT ![e] = Idle]
    BY <1>4 DEF IssueToken
  <2> HIDE DEF token, from
  <2>5. QED BY <1>4, <2>2, <2>3, <2>4 DEF IssueToken, TypeOK, data, TokenRec, OriginRec
<1>5. ASSUME NEW t \in Tokens, handleRevoke(t) PROVE TypeOK'
  BY <1>5 DEF handleRevoke, TypeOK, data
<1>6. QED BY <1>1, <1>2, <1>3, <1>4, <1>5 DEF OAuth

\* A non-empty set of naturals up to n has a greatest element.
LEMMA GreatestExists ==
  ASSUME NEW n \in Nat, NEW S \in SUBSET (0..n), S # {}
  PROVE  \E i \in S : \A k \in S : i >= k
<1> DEFINE Below == {n - i : i \in S}
<1>1. Below \in SUBSET Nat /\ Below # {}
  <2>1. \A i \in S : n - i \in Nat
    OBVIOUS
  <2>2. QED BY <2>1
<1>2. PICK least \in Below : \A x \in Below : <<x, least>> \notin OpToRel(<, Nat)
  <2> HIDE DEF Below
  <2>1. QED BY <1>1, NatLessThanWellFounded, WFMin
<1>3. PICK i \in S : least = n - i
  OBVIOUS
<1>4. ASSUME NEW k \in S PROVE i >= k
  <2>1. ~ (n - k < least)
    BY <1>1, <1>2 DEF OpToRel
  <2>2. QED BY <1>3, <2>1
<1>5. QED BY <1>4

\* The latest window is one there is, and no other is later.
LEMMA LatestWindow ==
  ASSUME TypeOK, NEW s \in Scopes, NEW d \in Lengths
  PROVE  LET w == GetLatestMetricWindow(s, d) IN
         /\ w \in {0} \cup windows[<<s, d>>] /\ w \in Nat
         /\ \A v \in windows[<<s, d>>] : w >= v
<1> DEFINE W == {0} \cup windows[<<s, d>>]
<1>1. W \in SUBSET (0..MaxWindows) /\ W # {}
  BY Bounds DEF TypeOK, Lengths
<1>2. \E i \in W : \A k \in W : i >= k
  <2> HIDE DEF W
  <2>1. QED BY <1>1, GreatestExists, Bounds
<1>3. Max(W) \in W /\ \A k \in W : Max(W) >= k
  <2> HIDE DEF W
  <2>1. QED BY <1>2 DEF Max
<1>4. QED BY <1>1, <1>3 DEF GetLatestMetricWindow

\* What a step of a request makes of it.
LEMMA AcceptType ==
  ASSUME TypeOK, NEW r \in Requests, NEW b \in Bearers, NEW q \in dispatch, Accept(r, b, q)
  PROVE  /\ request'[r] \in RequestRec
         /\ request' = [request EXCEPT ![r] = request'[r]]
         /\ request'[r].bearer = b /\ request'[r].answers = <<>> /\ request'[r].question = q
         /\ request'[r].floor = [k \in DOMAIN q.scopes |-> windows[<<q.scopes[k], q.days>>]]
         /\ request'[r].pc = "asking"
<1> DEFINE floor == [k \in DOMAIN q.scopes |-> windows[<<q.scopes[k], q.days>>]]
           new == [pc |-> "asking", bearer |-> b, question |-> q, answers |-> <<>>, floor |-> floor]
<1>1. q \in Question
  BY DispatchType
<1>2. \A k \in DOMAIN q.scopes : windows[<<q.scopes[k], q.days>>] \in SUBSET Nat
  BY <1>1, Bounds DEF TypeOK, Question, Lengths
<1>3. floor \in Seq(SUBSET Nat)
  <2>1. PICK n \in Nat : DOMAIN q.scopes = 1..n
    BY <1>1 DEF Question
  <2>2. floor \in [1..n -> SUBSET Nat]
    BY <1>2, <2>1
  <2> HIDE DEF floor
  <2>3. QED BY <2>2
<1>4. <<>> \in Seq(Int)
  OBVIOUS
<1>5. new \in RequestRec
  <2> HIDE DEF floor
  <2>1. QED BY <1>1, <1>3, <1>4 DEF RequestRec, Question, Lengths
<1>6. request' = [request EXCEPT ![r] = new]
  BY DEF Accept
<1>7. request'[r] = new
  BY <1>6 DEF TypeOK
<1>8. /\ new.bearer = b /\ new.answers = <<>> /\ new.question = q /\ new.pc = "asking"
      /\ new.floor = floor
  <2> HIDE DEF floor
  <2>1. QED OBVIOUS
<1>9. QED
  <2> HIDE DEF new
  <2>1. QED BY <1>5, <1>6, <1>7, <1>8

\* One more answer.
More(q, a) == [q EXCEPT !.pc = "asking", !.answers = Append(q.answers, a)]

LEMMA Answering ==
  ASSUME NEW q \in RequestRec, NEW a \in Int, NEW n, n = More(q, a)
  PROVE  /\ n \in RequestRec /\ n.pc = "asking"
         /\ n.question = q.question /\ n.floor = q.floor /\ n.bearer = q.bearer
         /\ Len(n.answers) = Len(q.answers) + 1
         /\ \A k \in 1..Len(q.answers) : n.answers[k] = q.answers[k]
         /\ n.answers[Len(q.answers) + 1] = a
<1> DEFINE longer == Append(q.answers, a)
<1>1. /\ longer \in Seq(Int) /\ Len(longer) = Len(q.answers) + 1
      /\ \A k \in 1..Len(q.answers) : longer[k] = q.answers[k]
      /\ longer[Len(q.answers) + 1] = a
  BY DEF RequestRec
<1>2. \A x \in Seq(Int) : \A m : m = [q EXCEPT !.pc = "asking", !.answers = x] =>
        /\ m \in RequestRec /\ m.pc = "asking" /\ m.answers = x
        /\ m.question = q.question /\ m.floor = q.floor /\ m.bearer = q.bearer
  BY DEF RequestRec
<1>3. n = [q EXCEPT !.pc = "asking", !.answers = longer]
  BY DEF More
<1>4. /\ n \in RequestRec /\ n.pc = "asking" /\ n.answers = longer
      /\ n.question = q.question /\ n.floor = q.floor /\ n.bearer = q.bearer
  <2>1. longer \in Seq(Int)
    BY <1>1
  <2> HIDE DEF longer
  <2>2. QED BY <1>2, <1>3, <2>1
<1>5. QED
  <2> HIDE DEF longer
  <2>1. QED BY <1>1, <1>4

-----------------------------------------------------------------------------
(* Replies are current.                                                     *)

\* What a request in hand holds when the windows are W and the scopes L live: as
\* many answers as scopes read, each judged against the windows there are and
\* those there were.
Judged(q, k, W, L) ==
  \/ q.answers[k] = Failed
  \/ q.answers[k] = NotFound /\ q.question.scopes[k] \notin L
  \/ /\ q.answers[k] \in {0} \cup W[<<q.question.scopes[k], q.question.days>>]
     /\ \A w \in q.floor[k] : q.answers[k] >= w

Reading(q, W, L) ==
  /\ Len(q.answers) <= Len(q.question.scopes)
  /\ q.pc = "resolved" => Len(q.answers) < Len(q.question.scopes)
  /\ DOMAIN q.floor = DOMAIN q.question.scopes
  /\ \A k \in DOMAIN q.floor : q.floor[k] \subseteq W[<<q.question.scopes[k], q.question.days>>]
  /\ \A k \in 1..Len(q.answers) : Judged(q, k, W, L)

Requested == \A r \in Requests : request[r] # Idle => Reading(request[r], windows, live)

\* A step of one request leaves the others as they are.
LEMMA OneRequest ==
  ASSUME TypeOK, Requested, NEW r \in Requests, NEW q \in RequestRec,
         request' = [request EXCEPT ![r] = q], Reading(q, windows, live),
         UNCHANGED <<windows, live>>
  PROVE  Requested'
  BY DEF TypeOK, Requested

\* Windows are only added, and scopes only removed.
LEMMA ReadingLasts ==
  ASSUME NEW q \in RequestRec, NEW W, NEW V, NEW L, NEW M, Reading(q, W, L),
         \A s \in Scopes, d \in Lengths : W[<<s, d>>] \subseteq V[<<s, d>>],
         M \subseteq L
  PROVE  Reading(q, V, M)
<1>1. q.question.scopes \in Seq(Scopes) /\ q.question.days \in Lengths /\ q.answers \in Seq(Int)
  BY DEF RequestRec, Lengths
<1>2. \A k \in DOMAIN q.question.scopes : q.question.scopes[k] \in Scopes
  BY <1>1
<1>3. \A k \in DOMAIN q.floor : q.floor[k] \subseteq V[<<q.question.scopes[k], q.question.days>>]
  BY <1>1, <1>2 DEF Reading
<1>4. ASSUME NEW k \in 1..Len(q.answers) PROVE Judged(q, k, V, M)
  <2>1. Judged(q, k, W, L)
    BY DEF Reading
  <2>2. q.question.scopes[k] \in Scopes
    BY <1>1, <1>2 DEF Reading
  <2>3. QED BY <1>1, <2>1, <2>2 DEF Judged
<1>5. QED BY <1>3, <1>4 DEF Reading

LEMMA AcceptReads ==
  ASSUME TypeOK, Requested, NEW r \in Requests, NEW b \in Bearers, NEW q \in dispatch,
         Accept(r, b, q)
  PROVE  Requested'
<1>1. /\ request'[r] \in RequestRec
      /\ request' = [request EXCEPT ![r] = request'[r]]
      /\ request'[r].answers = <<>> /\ request'[r].question = q /\ request'[r].pc = "asking"
      /\ request'[r].floor = [k \in DOMAIN q.scopes |-> windows[<<q.scopes[k], q.days>>]]
  BY AcceptType
<1>2. PICK n \in RequestRec : n = request'[r]
  BY <1>1
<1>3. Reading(n, windows, live)
  <2>1. q.scopes \in Seq(Scopes)
    BY DispatchType DEF Question
  <2>2. QED BY <1>1, <1>2, <2>1 DEF Reading
<1>4. UNCHANGED <<windows, live>>
  BY DEF Accept
<1>5. QED BY <1>1, <1>2, <1>3, <1>4, OneRequest

LEMMA ResolveReads ==
  ASSUME TypeOK, Requested, NEW r \in Requests, ResolveScope(r)
  PROVE  /\ Requested'
         /\ \E q \in RequestRec : request' = [request EXCEPT ![r] = q]
<1> DEFINE q == request[r]
<1>1. q \in RequestRec /\ Reading(q, windows, live) /\ Len(q.answers) < Len(q.question.scopes)
  <2>1. q \in RequestRec
    BY DEF ResolveScope, TypeOK, Idle
  <2>2. Reading(q, windows, live)
    BY <2>1, IdleApart DEF Requested
  <2>3. Len(q.answers) \in Nat /\ Len(q.question.scopes) \in Nat
    BY <2>1 DEF RequestRec
  <2>4. ~ Answered(q)
    BY DEF ResolveScope
  <2>5. QED BY <2>1, <2>2, <2>3, <2>4 DEF Answered, Reading
<1>2. UNCHANGED <<windows, live>>
  BY DEF ResolveScope
<1>3. CASE Asked(q) \in live /\ request' = [request EXCEPT ![r] = [q EXCEPT !.pc = "resolved"]]
  <2> DEFINE n == [q EXCEPT !.pc = "resolved"]
  <2>1. n \in RequestRec /\ request' = [request EXCEPT ![r] = n]
    BY <1>1, <1>3 DEF RequestRec
  <2>2. /\ n.question = q.question /\ n.floor = q.floor /\ n.answers = q.answers
        /\ n.pc = "resolved"
    BY <1>1 DEF RequestRec
  <2> HIDE DEF n
  <2>3. Reading(n, windows, live)
    BY <1>1, <2>2 DEF Reading, Judged
  <2>4. QED BY <1>2, <2>1, <2>3, OneRequest
<1>4. ASSUME NEW error \in {NotFound, Failed}, error = NotFound => Asked(q) \notin live,
             request' = [request EXCEPT ![r] = [q EXCEPT !.answers = Append(q.answers, error)]]
      PROVE  /\ Requested'
             /\ \E n \in RequestRec : request' = [request EXCEPT ![r] = n]
  <2> DEFINE l == Len(q.answers)
  <2>0. PICK n : n = More(q, error)
    OBVIOUS
  <2>1. /\ n \in RequestRec /\ n.pc = "asking"
        /\ n.question = q.question /\ n.floor = q.floor
        /\ Len(n.answers) = l + 1
        /\ \A k \in 1..l : n.answers[k] = q.answers[k]
        /\ n.answers[l + 1] = error
    <3>1. error \in Int
      BY DEF NotFound, Failed
    <3>2. QED BY <1>1, <2>0, <3>1, Answering
  <2>2. n = [q EXCEPT !.answers = Append(q.answers, error)]
    BY <1>1, <2>0 DEF More, RequestRec, ResolveScope
  <2>3. request' = [request EXCEPT ![r] = n]
    BY <1>4, <2>2
  <2>4. l \in Nat /\ Len(q.question.scopes) \in Nat
    BY <1>1 DEF RequestRec
  <2>5. Reading(n, windows, live)
    <3>1. ASSUME NEW k \in 1..(l + 1) PROVE Judged(n, k, windows, live)
      <4>1. CASE k = l + 1
        BY <1>4, <2>1, <4>1 DEF Judged, Asked
      <4>2. CASE k # l + 1
        <5>1. k \in 1..l
          BY <2>4, <4>2
        <5>2. QED BY <1>1, <2>1, <5>1 DEF Reading, Judged
      <4>3. QED BY <4>1, <4>2
    <3>2. Len(n.answers) <= Len(n.question.scopes)
      BY <1>1, <2>1, <2>4
    <3>3. QED BY <1>1, <2>1, <3>1, <3>2 DEF Reading
  <2>6. QED BY <1>2, <2>1, <2>3, <2>5, OneRequest
<1>5. \/ Asked(q) \in live /\ request' = [request EXCEPT ![r] = [q EXCEPT !.pc = "resolved"]]
      \/ \E error \in {NotFound, Failed} :
           /\ error = NotFound => Asked(q) \notin live
           /\ request' = [request EXCEPT ![r] = [q EXCEPT !.answers = Append(q.answers, error)]]
  BY DEF ResolveScope, NotFound, Failed
<1>6. QED BY <1>3, <1>4, <1>5

LEMMA ReadReads ==
  ASSUME TypeOK, Requested, NEW r \in Requests, ReadWindow(r)
  PROVE  /\ Requested'
         /\ \E q \in RequestRec : request' = [request EXCEPT ![r] = q]
<1> DEFINE q == request[r]
           w == GetLatestMetricWindow(Asked(q), q.question.days)
           l == Len(q.answers)
<1>1. q \in RequestRec /\ Reading(q, windows, live) /\ l < Len(q.question.scopes)
  <2>1. q \in RequestRec
    BY DEF ReadWindow, TypeOK, Idle
  <2>2. Reading(q, windows, live)
    BY <2>1, IdleApart DEF Requested
  <2>3. QED BY <2>1, <2>2 DEF ReadWindow, Reading
<1>2. l \in Nat /\ Len(q.question.scopes) \in Nat
  BY <1>1 DEF RequestRec
<1>3. Asked(q) \in Scopes /\ Asked(q) = q.question.scopes[l + 1] /\ q.question.days \in Lengths
  BY <1>1, <1>2 DEF RequestRec, Lengths, Asked
<1>4. /\ w \in {0} \cup windows[<<Asked(q), q.question.days>>] /\ w \in Nat
      /\ \A v \in windows[<<Asked(q), q.question.days>>] : w >= v
  BY <1>3, LatestWindow
<1>5. PICK a \in {w, Failed} :
        request' = [request EXCEPT ![r] = [q EXCEPT !.pc = "asking", !.answers = Append(q.answers, a)]]
  BY DEF ReadWindow, WindowAnswers
<1> HIDE DEF w
<1>0. PICK n : n = More(q, a)
  OBVIOUS
<1>6. /\ n \in RequestRec /\ n.pc = "asking"
      /\ n.question = q.question /\ n.floor = q.floor
      /\ Len(n.answers) = l + 1
      /\ \A k \in 1..l : n.answers[k] = q.answers[k]
      /\ n.answers[l + 1] = a
  <2>1. a \in Int
    BY <1>4 DEF Failed
  <2>2. QED BY <1>0, <1>1, <2>1, Answering
<1>7. request' = [request EXCEPT ![r] = n] /\ UNCHANGED <<windows, live>>
  BY <1>0, <1>5 DEF ReadWindow, More
<1>8. Reading(n, windows, live)
  <2>1. ASSUME NEW k \in 1..(l + 1) PROVE Judged(n, k, windows, live)
    <3>1. CASE k = l + 1
      <4>1. k \in DOMAIN q.floor
        <5>1. DOMAIN q.question.scopes = 1..Len(q.question.scopes)
          BY <1>1 DEF RequestRec
        <5>2. k \in 1..Len(q.question.scopes)
          BY <1>1, <1>2, <3>1
        <5>3. QED BY <1>1, <5>1, <5>2 DEF Reading
      <4>2. n.floor[k] \subseteq windows[<<Asked(q), q.question.days>>]
        BY <1>1, <1>3, <1>6, <3>1, <4>1 DEF Reading
      <4>3. n.answers[k] = a /\ n.question.scopes[k] = Asked(q) /\ n.question.days = q.question.days
        BY <1>3, <1>6, <3>1
      <4>4. \A v \in n.floor[k] : w >= v
        BY <1>4, <4>2
      <4>5. QED BY <1>4, <4>3, <4>4 DEF Judged
    <3>2. CASE k # l + 1
      <4>1. k \in 1..l
        BY <1>2, <3>2
      <4>2. QED BY <1>1, <1>6, <4>1 DEF Reading, Judged
    <3>3. QED BY <3>1, <3>2
  <2>2. Len(n.answers) <= Len(n.question.scopes)
    BY <1>1, <1>2, <1>6
  <2>3. QED BY <1>1, <1>6, <2>1, <2>2 DEF Reading
<1>9. QED BY <1>6, <1>7, <1>8, OneRequest

\* A step that leaves the requests alone, or ends them, adds windows at most and
\* removes scopes at most.
LEMMA ElsewhereReads ==
  ASSUME TypeOK, Requested,
         \A r \in Requests : request'[r] \in {request[r], Idle},
         \A s \in Scopes, d \in Lengths : windows[<<s, d>>] \subseteq windows'[<<s, d>>],
         live' \subseteq live
  PROVE  Requested'
<1>1. ASSUME NEW r \in Requests, request'[r] # Idle PROVE Reading(request'[r], windows', live')
  <2>1. request'[r] = request[r] /\ request[r] \in RequestRec /\ Reading(request[r], windows, live)
    BY <1>1 DEF TypeOK, Requested
  <2>2. QED BY <2>1, ReadingLasts
<1>2. QED BY <1>1 DEF Requested

LEMMA RequestedNext ==
  ASSUME TypeOK, Requested, [Next]_vars
  PROVE  Requested'
<1>1. CASE OAuth \/ (\E b \in Bearers : Refuse(b)) \/ Tick \/ UNCHANGED vars
  <2>1. UNCHANGED data
    BY <1>1 DEF OAuth, handleAuthorize, TakeCode, CheckForm, IssueToken, handleRevoke, Refuse, Tick, vars
  <2>2. QED BY <2>1, ElsewhereReads DEF data
<1>2. ASSUME NEW r \in Requests, Reply(r) PROVE Requested'
  BY <1>2, ElsewhereReads DEF Reply, TypeOK
<1>3. ASSUME NEW s \in Projects, NEW d \in Days, NEW at \in 1..MaxWindows, UpsertMetricWindow(s, d, at)
      PROVE  Requested'
  <2>1. \A k \in Scopes \X Lengths : windows[k] \subseteq windows'[k]
    BY <1>3 DEF UpsertMetricWindow, TypeOK, Lengths
  <2>2. QED BY <1>3, <2>1, ElsewhereReads DEF UpsertMetricWindow
<1>4. ASSUME NEW s \in Scopes, DeleteScope(s) PROVE Requested'
  BY <1>4, ElsewhereReads DEF DeleteScope
<1>5. ASSUME NEW e \in Environments, Restart(e) PROVE Requested'
  BY <1>5, ElsewhereReads DEF Restart, NoRequests
<1>6. ASSUME NEW r \in Requests, NEW b \in Bearers, NEW q \in dispatch, Accept(r, b, q)
      PROVE  Requested'
  BY <1>6, AcceptReads
<1>7. ASSUME NEW r \in Requests, ResolveScope(r) \/ ReadWindow(r) PROVE Requested'
  BY <1>7, ResolveReads, ReadReads
<1>8. QED BY <1>1, <1>2, <1>3, <1>4, <1>5, <1>6, <1>7 DEF Next, Mcp, Around

LEMMA TypeNext ==
  ASSUME TypeOK, Requested, [Next]_vars
  PROVE  TypeOK'
<1>1. ASSUME NEW r \in Requests, NEW b \in Bearers, NEW q \in dispatch, Accept(r, b, q)
      PROVE  TypeOK'
  <2>1. request' \in [Requests -> {Idle} \cup RequestRec]
    <3>1. PICK n \in RequestRec : request' = [request EXCEPT ![r] = n]
      BY <1>1, AcceptType
    <3>2. QED BY <3>1 DEF TypeOK
  <2>2. QED BY <1>1, <2>1 DEF Accept, TypeOK, oauth
<1>2. ASSUME NEW r \in Requests, ResolveScope(r) \/ ReadWindow(r) \/ Reply(r) PROVE TypeOK'
  <2>1. request' \in [Requests -> {Idle} \cup RequestRec]
    <3>1. CASE Reply(r)
      BY <3>1 DEF Reply, TypeOK
    <3>2. CASE ResolveScope(r) \/ ReadWindow(r)
      BY <3>2, ResolveReads, ReadReads DEF TypeOK
    <3>3. QED BY <1>2, <3>1, <3>2
  <2>2. UNCHANGED <<now, env, oauth, live, windows, restarts>>
    BY <1>2 DEF ResolveScope, ReadWindow, Reply
  <2>3. QED BY <2>1, <2>2 DEF TypeOK, oauth
<1>3. ASSUME NEW b \in Bearers, Refuse(b) PROVE TypeOK'
  <2>1. activeTokens' \in [Tokens -> TokenRec \cup {NoToken}]
    BY <1>3 DEF Refuse, Swept, TypeOK, TokenRec
  <2>2. QED BY <1>3, <2>1 DEF Refuse, TypeOK, data, TokenRec
<1>4. CASE Tick
  BY <1>4, Bounds DEF Tick, TypeOK, oauth, data
<1>5. ASSUME NEW s \in Projects, NEW d \in Days, NEW at \in 1..MaxWindows, UpsertMetricWindow(s, d, at)
      PROVE  TypeOK'
  <2>1. windows' \in [Scopes \X ({30} \cup Days) -> SUBSET (1..MaxWindows)]
    BY <1>5 DEF UpsertMetricWindow, TypeOK
  <2>2. QED BY <1>5, <2>1 DEF UpsertMetricWindow, TypeOK, oauth
<1>6. ASSUME NEW s \in Scopes, DeleteScope(s) PROVE TypeOK'
  BY <1>6 DEF DeleteScope, TypeOK, oauth
<1>7. ASSUME NEW e \in Environments, Restart(e) PROVE TypeOK'
  BY <1>7, Bounds DEF Restart, TypeOK, NoCodes, NoTokens, NoExchanges, NoRequests
<1>8. CASE UNCHANGED vars
  BY <1>8 DEF TypeOK, vars, oauth, data
<1>9. QED BY <1>1, <1>2, <1>3, <1>4, <1>5, <1>6, <1>7, <1>8, TypeOAuth DEF Next, Mcp, Around

LEMMA RequestedInit == Init => Requested
  BY DEF Init, NoRequests, Requested

\* Types, and what the requests in hand have read.
LEMMA ReadingInvariance == Spec => [](TypeOK /\ Requested)
<1>1. Init => TypeOK /\ Requested
  BY TypeInit, RequestedInit
<1>2. TypeOK /\ Requested /\ [Next]_vars => (TypeOK /\ Requested)'
  BY TypeNext, RequestedNext
<1>3. QED BY <1>1, <1>2, PTL DEF Spec

\* Every variable keeps its type.
THEOREM TypeCorrect == Spec => []TypeOK
  BY ReadingInvariance, PTL

\* However computations, deletions, restarts and failing queries interleave with its two
\* queries per scope, what a reply says of a scope is no older than the request, and of
\* the length asked for; an error is never taken for a lack of data, nor for a deletion.
THEOREM RepliesAreCurrent == Spec => []ReplyCurrent
<1>1. TypeOK /\ Requested => ReplyCurrent
  <2> SUFFICES ASSUME TypeOK, Requested, NEW r \in Requests, request[r] # Idle,
                      NEW k \in DOMAIN request[r].answers
               PROVE  Judged(request[r], k, windows, live)
    BY DEF ReplyCurrent, Judged
  <2>1. k \in 1..Len(request[r].answers)
    BY DEF TypeOK, RequestRec
  <2>2. QED BY <2>1 DEF Requested, Reading
<1>2. QED BY <1>1, ReadingInvariance, PTL

-----------------------------------------------------------------------------
(* Codes and tokens.                                                        *)

\* A code is in the map, held by one exchange, or spent on one token, never two
\* of them; until it is drawn it is none of them.
Once(c) ==
  /\ offers[c] = NoCode => pendingCodes[c] = NoCode /\ ~Held(c) /\ TokensOf(c) = {}
  /\ pendingCodes[c] # NoCode => pendingCodes[c] = offers[c] /\ ~Held(c)
  /\ pendingCodes[c] # NoCode \/ Held(c) => TokensOf(c) = {}
  /\ \A d, e \in Exchanges : exchange[d] # Idle /\ exchange[e] # Idle
                             /\ exchange[d].code = c /\ exchange[e].code = c => d = e
  /\ \A s, t \in TokensOf(c) : s = t

\* An exchange holds what was authorized, and past the checks its form matches.
Faithful(e) ==
  exchange[e] # Idle =>
    LET x == exchange[e] IN
    /\ x.pending = offers[x.code]
    /\ x.pc = "checked" => Matches(x.pending, x.form)

\* A token was drawn for a form that matched; it is active within its hour only,
\* unless it was revoked or its process is gone.
Founded(t) ==
  /\ origin[t] # NoToken => Matches(offers[origin[t].code], origin[t].form)
  /\ activeTokens[t] # NoToken =>
       /\ origin[t] # NoToken /\ t \notin voided
       /\ activeTokens[t].expires = origin[t].at + TokenTTL
  /\ t \in voided => origin[t] # NoToken

Granting ==
  /\ MayStart(env)
  /\ \A c \in Codes : Once(c)
  /\ \A e \in Exchanges : Faithful(e)
  /\ \A t \in Tokens : Founded(t)

LEMMA GrantingInit == Init => Granting
  BY DEF Init, Granting, Once, Faithful, Founded, Held, TokensOf, NoCodes, NoTokens, NoExchanges

\* The code of an exchange, and of a token, was drawn.
LEMMA Drawn ==
  ASSUME TypeOK, Granting
  PROVE  /\ \A e \in Exchanges : exchange[e] # Idle =>
              /\ exchange[e] \in ExchangeRec /\ exchange[e].code \in Codes
              /\ Held(exchange[e].code) /\ offers[exchange[e].code] # NoCode
         /\ \A t \in Tokens : origin[t] # NoToken =>
              /\ origin[t] \in OriginRec /\ origin[t].code \in Codes
              /\ t \in TokensOf(origin[t].code) /\ offers[origin[t].code] # NoCode
<1>1. ASSUME NEW e \in Exchanges, exchange[e] # Idle
      PROVE  /\ exchange[e] \in ExchangeRec /\ exchange[e].code \in Codes
             /\ Held(exchange[e].code) /\ offers[exchange[e].code] # NoCode
  <2>1. exchange[e] \in ExchangeRec
    BY <1>1 DEF TypeOK, ExchangeRec
  <2>2. exchange[e].code \in Codes
    BY <2>1 DEF ExchangeRec
  <2>3. Held(exchange[e].code)
    BY <1>1 DEF Held
  <2>4. QED BY <2>1, <2>2, <2>3 DEF Granting, Once
<1>2. ASSUME NEW t \in Tokens, origin[t] # NoToken
      PROVE  /\ origin[t] \in OriginRec /\ origin[t].code \in Codes
             /\ t \in TokensOf(origin[t].code) /\ offers[origin[t].code] # NoCode
  <2>1. origin[t] \in OriginRec
    BY <1>2 DEF TypeOK, OriginRec
  <2>2. origin[t].code \in Codes
    BY <2>1 DEF OriginRec
  <2>3. t \in TokensOf(origin[t].code)
    BY <1>2 DEF TokensOf
  <2>4. QED BY <2>1, <2>2, <2>3 DEF Granting, Once
<1>3. QED BY <1>1, <1>2

LEMMA AuthorizeGrants ==
  ASSUME TypeOK, Granting, NEW c \in Codes, NEW client \in Clients, NEW redirect \in Redirects,
         NEW challenge \in Verifiers, handleAuthorize(c, client, redirect, challenge)
  PROVE  Granting'
<1>1. PICK code \in CodeRec : /\ pendingCodes' = [pendingCodes EXCEPT ![c] = code]
                              /\ offers' = [offers EXCEPT ![c] = code]
  <2> DEFINE code == [client |-> client, redirect |-> redirect, challenge |-> challenge,
                      expires |-> now + CodeTTL]
  <2>1. code \in CodeRec
    BY Bounds DEF TypeOK, CodeRec
  <2>2. pendingCodes' = [pendingCodes EXCEPT ![c] = code] /\ offers' = [offers EXCEPT ![c] = code]
    BY DEF handleAuthorize
  <2> HIDE DEF code
  <2>3. QED BY <2>1, <2>2
<1>2. /\ UNCHANGED <<env, exchange, activeTokens, origin, voided>>
      /\ offers[c] = NoCode
  BY DEF handleAuthorize
<1>3. \A d \in Codes : Held(d)' = Held(d) /\ TokensOf(d)' = TokensOf(d)
  BY <1>2 DEF Held, TokensOf
<1>4. \A d \in Codes \ {c} : offers'[d] = offers[d] /\ pendingCodes'[d] = pendingCodes[d]
  BY <1>1 DEF TypeOK
<1>5. offers'[c] = code /\ pendingCodes'[c] = code /\ code # NoCode
  BY <1>1, CodeApart DEF TypeOK
<1>6. ASSUME NEW d \in Codes PROVE Once(d)'
  <2>1. Once(d) /\ Once(c)
    BY DEF Granting
  <2>2. CASE d = c
    BY <1>2, <1>3, <1>5, <2>1, <2>2 DEF Once
  <2>3. CASE d # c
    BY <1>2, <1>3, <1>4, <2>1, <2>3 DEF Once
  <2>4. QED BY <2>2, <2>3
<1>7. ASSUME NEW e \in Exchanges PROVE Faithful(e)'
  BY <1>2, <1>4, Drawn DEF Faithful, Granting
<1>8. ASSUME NEW t \in Tokens PROVE Founded(t)'
  BY <1>2, <1>4, Drawn DEF Founded, Granting
<1>9. MayStart(env)'
  BY <1>2 DEF Granting, MayStart
<1>10. QED BY <1>6, <1>7, <1>8, <1>9 DEF Granting

LEMMA TakeGrants ==
  ASSUME TypeOK, Granting, NEW e \in Exchanges, NEW c \in Codes, NEW form \in Form,
         TakeCode(e, c, form)
  PROVE  Granting'
<1> DEFINE x == [pc |-> "taken", code |-> c, pending |-> pendingCodes[c], form |-> form]
<1>1. /\ exchange' = [exchange EXCEPT ![e] = x]
      /\ pendingCodes' = [pendingCodes EXCEPT ![c] = NoCode]
      /\ UNCHANGED <<env, activeTokens, offers, origin, voided>>
      /\ exchange[e] = Idle /\ pendingCodes[c] # NoCode
  BY DEF TakeCode, LookedUp
<1>2. x.code = c /\ x.pending = pendingCodes[c] /\ x.pc = "taken" /\ x # Idle
  <2>1. x \in ExchangeRec
    BY <1>1 DEF TypeOK, ExchangeRec
  <2>2. QED BY <2>1, IdleApart
<1> HIDE DEF x
<1>3. \A d \in Exchanges \ {e} : exchange'[d] = exchange[d]
  BY <1>1 DEF TypeOK
<1>4. exchange'[e] = x
  BY <1>1 DEF TypeOK
<1>5. \A d \in Codes : TokensOf(d)' = TokensOf(d)
  BY <1>1 DEF TokensOf
<1>6. \A d \in Codes \ {c} : (Held(d)' <=> Held(d)) /\ pendingCodes'[d] = pendingCodes[d]
  BY <1>1, <1>2, <1>3, <1>4 DEF Held, TypeOK
<1>7. pendingCodes'[c] = NoCode /\ Held(c)'
  BY <1>1, <1>2, <1>4 DEF TypeOK, Held
<1>8. ASSUME NEW d \in Codes PROVE Once(d)'
  <2>1. Once(d)
    BY DEF Granting
  <2>2. CASE d = c
    <3>1. ~Held(c) /\ TokensOf(c) = {} /\ offers[c] # NoCode
      BY <1>1, <2>1, <2>2 DEF Once
    <3>2. \A f \in Exchanges \ {e} : exchange'[f] # Idle => exchange'[f].code # c
      BY <1>3, <3>1 DEF Held
    <3>3. QED BY <1>1, <1>5, <1>7, <2>2, <3>1, <3>2 DEF Once
  <2>3. CASE d # c
    <3>1. \A f \in Exchanges : exchange'[f] # Idle /\ exchange'[f].code = d =>
            exchange[f] # Idle /\ exchange[f].code = d
      BY <1>2, <1>3, <1>4, <2>3
    <3>2. QED BY <1>1, <1>5, <1>6, <2>1, <2>3, <3>1 DEF Once
  <2>4. QED BY <2>2, <2>3
<1>9. ASSUME NEW d \in Exchanges PROVE Faithful(d)'
  <2>1. CASE d = e
    BY <1>1, <1>2, <1>4, <2>1 DEF Faithful, Granting, Once
  <2>2. CASE d # e
    BY <1>1, <1>3, <2>2 DEF Faithful, Granting
  <2>3. QED BY <2>1, <2>2
<1>10. ASSUME NEW t \in Tokens PROVE Founded(t)'
  BY <1>1 DEF Founded, Granting
<1>11. MayStart(env)'
  BY <1>1 DEF Granting, MayStart
<1>12. QED BY <1>8, <1>9, <1>10, <1>11 DEF Granting

LEMMA CheckGrants ==
  ASSUME TypeOK, Granting, NEW e \in Exchanges, CheckForm(e)
  PROVE  Granting'
<1> DEFINE x == exchange[e]
           y == [x EXCEPT !.pc = "checked"]
<1>1. x \in ExchangeRec /\ x # Idle
  BY IdleApart DEF CheckForm, TypeOK, ExchangeRec, Idle
<1>2. y \in ExchangeRec /\ y.code = x.code /\ y.pending = x.pending /\ y.form = x.form
  BY <1>1 DEF ExchangeRec
<1>3. /\ UNCHANGED <<env, pendingCodes, activeTokens, offers, origin, voided>>
      /\ \A d \in Exchanges \ {e} : exchange'[d] = exchange[d]
      /\ exchange'[e] = Idle \/ (exchange'[e] = y /\ Matches(x.pending, x.form))
  BY DEF CheckForm, TypeOK
<1> HIDE DEF y
<1>4. \A d \in Exchanges : exchange'[d] # Idle =>
        /\ exchange[d] # Idle
        /\ exchange'[d].code = exchange[d].code /\ exchange'[d].pending = exchange[d].pending
  BY <1>1, <1>2, <1>3
<1>5. ASSUME NEW d \in Codes PROVE Once(d)'
  <2>1. Once(d) /\ TokensOf(d)' = TokensOf(d) /\ (Held(d)' => Held(d))
    BY <1>3, <1>4 DEF Granting, TokensOf, Held
  <2>2. QED BY <1>3, <1>4, <2>1 DEF Once
<1>6. ASSUME NEW d \in Exchanges PROVE Faithful(d)'
  BY <1>2, <1>3, <1>4 DEF Faithful, Granting
<1>7. ASSUME NEW t \in Tokens PROVE Founded(t)'
  BY <1>3 DEF Founded, Granting
<1>8. MayStart(env)'
  BY <1>3 DEF Granting, MayStart
<1>9. QED BY <1>5, <1>6, <1>7, <1>8 DEF Granting

\* What a token is issued for.
LEMMA IssueEffect ==
  ASSUME TypeOK, Granting, NEW e \in Exchanges, NEW t \in Tokens, IssueToken(e, t)
  PROVE  LET x == exchange[e] IN
         /\ x \in ExchangeRec /\ x # Idle /\ x.code \in Codes /\ x.pc = "checked"
         /\ origin[t] = NoToken /\ origin'[t] # NoToken
         /\ origin'[t].code = x.code /\ origin'[t].form = x.form /\ origin'[t].at = now
         /\ activeTokens'[t] # NoToken /\ activeTokens'[t].expires = now + TokenTTL
         /\ exchange'[e] = Idle
         /\ \A d \in Exchanges \ {e} : exchange'[d] = exchange[d]
         /\ \A s \in Tokens \ {t} : origin'[s] = origin[s] /\ activeTokens'[s] = activeTokens[s]
         /\ UNCHANGED <<now, env, pendingCodes, offers, voided>>
<1> DEFINE x == exchange[e]
           token == [client |-> x.pending.client, expires |-> now + TokenTTL]
           from  == [client |-> x.form.client, code |-> x.code, form |-> x.form, at |-> now]
<1>1. x \in ExchangeRec /\ x # Idle
  BY IdleApart DEF IssueToken, TypeOK, ExchangeRec, Idle
<1>2. token \in TokenRec /\ token # NoToken /\ token.expires = now + TokenTTL
  <2>1. token \in TokenRec
    BY <1>1, Bounds DEF TypeOK, ExchangeRec, TokenRec, CodeRec
  <2>2. QED BY <2>1, TokenApart
<1>3. from \in OriginRec /\ from # NoToken /\ from.code = x.code /\ from.form = x.form /\ from.at = now
  <2>1. from \in OriginRec
    BY <1>1 DEF TypeOK, ExchangeRec, OriginRec, Form
  <2>2. QED BY <2>1, TokenApart
<1>4. /\ activeTokens' = [activeTokens EXCEPT ![t] = token]
      /\ origin' = [origin EXCEPT ![t] = from]
      /\ exchange' = [exchange EXCEPT ![e] = Idle]
      /\ x.pc = "checked" /\ origin[t] = NoToken
      /\ UNCHANGED <<now, env, pendingCodes, offers, voided>>
  BY DEF IssueToken
<1> HIDE DEF token, from
<1>5. x.code \in Codes
  BY <1>1 DEF ExchangeRec
<1>6. QED BY <1>1, <1>2, <1>3, <1>4, <1>5 DEF TypeOK

LEMMA IssueGrants ==
  ASSUME TypeOK, Granting, NEW e \in Exchanges, NEW t \in Tokens, IssueToken(e, t),
         NEW c, c = exchange[e].code
  PROVE  /\ Granting'
         /\ TokensOf(c) = {} /\ Held(c)
         /\ TokensOf(c)' = {t} /\ ~Held(c)'
         /\ \A d \in Codes \ {c} : TokensOf(d)' = TokensOf(d) /\ (Held(d)' <=> Held(d))
<1> DEFINE x == exchange[e]
<1>1. /\ x # Idle /\ c \in Codes /\ x.pc = "checked"
      /\ origin[t] = NoToken /\ origin'[t] # NoToken
      /\ origin'[t].code = c /\ origin'[t].form = x.form /\ origin'[t].at = now
      /\ activeTokens'[t] # NoToken /\ activeTokens'[t].expires = now + TokenTTL
      /\ exchange'[e] = Idle
      /\ \A d \in Exchanges \ {e} : exchange'[d] = exchange[d]
      /\ \A s \in Tokens \ {t} : origin'[s] = origin[s] /\ activeTokens'[s] = activeTokens[s]
      /\ UNCHANGED <<now, env, pendingCodes, offers, voided>>
  BY IssueEffect
<1>2. Once(c) /\ Held(c) /\ offers[c] # NoCode /\ pendingCodes[c] = NoCode /\ TokensOf(c) = {}
  <2>1. Once(c) /\ Held(c) /\ offers[c] # NoCode
    BY <1>1, Drawn DEF Granting
  <2>2. QED BY <2>1 DEF Once
<1>3. ~Held(c)'
  <2>1. \A d \in Exchanges \ {e} : exchange[d] # Idle => exchange[d].code # c
    BY <1>1, <1>2 DEF Once
  <2>2. QED BY <1>1, <2>1 DEF Held
<1>4. TokensOf(c)' = {t}
  BY <1>1, <1>2 DEF TokensOf
<1>5. ASSUME NEW d \in Codes \ {c}
      PROVE  TokensOf(d)' = TokensOf(d) /\ (Held(d)' <=> Held(d))
  BY <1>1 DEF TokensOf, Held
<1>6. ASSUME NEW d \in Codes PROVE Once(d)'
  <2>1. CASE d = c
    <3>1. \A f \in Exchanges : exchange'[f] # Idle => exchange'[f].code # c
      BY <1>3 DEF Held
    <3>2. QED BY <1>1, <1>2, <1>3, <1>4, <2>1, <3>1 DEF Once
  <2>2. CASE d # c
    <3>1. Once(d)
      BY DEF Granting
    <3>2. QED BY <1>1, <1>5, <2>2, <3>1 DEF Once
  <2>3. QED BY <2>1, <2>2
<1>7. ASSUME NEW d \in Exchanges PROVE Faithful(d)'
  BY <1>1 DEF Faithful, Granting
<1>8. ASSUME NEW s \in Tokens PROVE Founded(s)'
  <2>1. CASE s = t
    <3>1. Matches(offers[c], x.form)
      BY <1>1 DEF Granting, Faithful
    <3>2. t \notin voided
      BY <1>1 DEF Granting, Founded
    <3>3. QED BY <1>1, <2>1, <3>1, <3>2 DEF Founded
  <2>2. CASE s # t
    BY <1>1, <2>2 DEF Founded, Granting
  <2>3. QED BY <2>1, <2>2
<1>9. MayStart(env)'
  BY <1>1 DEF Granting, MayStart
<1>10. QED BY <1>2, <1>3, <1>4, <1>5, <1>6, <1>7, <1>8, <1>9 DEF Granting

\* Steps that only take tokens away, or leave the server alone.
LEMMA ElsewhereGrants ==
  ASSUME TypeOK, Granting,
         UNCHANGED <<env, pendingCodes, exchange, offers, origin>>,
         \A t \in Tokens : activeTokens'[t] \in {activeTokens[t], NoToken},
         \A t \in Tokens : activeTokens'[t] # NoToken => (t \in voided' => t \in voided),
         \A t \in voided' \ voided : origin[t] # NoToken
  PROVE  Granting'
<1>1. ASSUME NEW c \in Codes PROVE Once(c)'
  <2>1. Once(c) /\ (Held(c)' <=> Held(c)) /\ TokensOf(c)' = TokensOf(c)
    BY DEF Granting, Held, TokensOf
  <2>2. QED BY <2>1 DEF Once
<1>2. ASSUME NEW e \in Exchanges PROVE Faithful(e)'
  BY DEF Faithful, Granting
<1>3. ASSUME NEW t \in Tokens PROVE Founded(t)'
  <2>1. Founded(t)
    BY DEF Granting
  <2>2. QED BY <2>1 DEF Founded
<1>4. MayStart(env)'
  BY DEF Granting, MayStart
<1>5. QED BY <1>1, <1>2, <1>3, <1>4 DEF Granting

LEMMA RestartGrants ==
  ASSUME TypeOK, Granting, NEW e \in Environments, Restart(e)
  PROVE  Granting'
<1>1. /\ pendingCodes' = NoCodes /\ activeTokens' = NoTokens /\ exchange' = NoExchanges
      /\ voided' = voided \cup {t \in Tokens : origin[t] # NoToken}
      /\ UNCHANGED <<offers, origin>>
  BY DEF Restart
<1>2. ASSUME NEW c \in Codes PROVE Once(c)'
  <2>1. Once(c) /\ ~Held(c)' /\ TokensOf(c)' = TokensOf(c) /\ pendingCodes'[c] = NoCode
    BY <1>1 DEF Granting, Held, TokensOf, NoExchanges, NoCodes
  <2>2. QED BY <1>1, <2>1 DEF Once, NoExchanges
<1>3. ASSUME NEW d \in Exchanges PROVE Faithful(d)'
  BY <1>1 DEF Faithful, NoExchanges
<1>4. ASSUME NEW t \in Tokens PROVE Founded(t)'
  <2>1. Founded(t)
    BY DEF Granting
  <2>2. QED BY <1>1, <2>1 DEF Founded, NoTokens
<1>5. MayStart(env)'
  BY DEF Restart, MayStart
<1>6. QED BY <1>2, <1>3, <1>4, <1>5 DEF Granting

\* An expired token is refused and may be swept.
LEMMA SweptTokens ==
  ASSUME TypeOK, NEW b \in Bearers, NEW t \in Tokens
  PROVE  Swept(b)[t] \in {activeTokens[t], NoToken}
  BY DEF Swept, TypeOK

LEMMA GrantingNext ==
  ASSUME TypeOK, Granting, [Next]_vars
  PROVE  Granting'
<1>1. ASSUME NEW c \in Codes, NEW client \in Clients, NEW redirect \in Redirects,
             NEW challenge \in Verifiers, handleAuthorize(c, client, redirect, challenge)
      PROVE  Granting'
  BY <1>1, AuthorizeGrants
<1>2. ASSUME NEW e \in Exchanges, NEW c \in Codes, NEW form \in Form, TakeCode(e, c, form)
      PROVE  Granting'
  BY <1>2, TakeGrants
<1>3. ASSUME NEW e \in Exchanges, CheckForm(e) PROVE Granting'
  BY <1>3, CheckGrants
<1>4. ASSUME NEW e \in Exchanges, NEW t \in Tokens, IssueToken(e, t) PROVE Granting'
  BY <1>4, IssueGrants
<1>5. ASSUME NEW t \in Tokens, handleRevoke(t) PROVE Granting'
  <2>1. activeTokens[t] # NoToken => origin[t] # NoToken
    BY DEF Granting, Founded
  <2>2. QED BY <1>5, <2>1, ElsewhereGrants DEF handleRevoke, TypeOK
<1>6. ASSUME NEW b \in Bearers, Refuse(b) PROVE Granting'
  BY <1>6, SweptTokens, ElsewhereGrants DEF Refuse
<1>7. CASE \/ \E r \in Requests, b \in Bearers, q \in dispatch : Accept(r, b, q)
           \/ \E r \in Requests : ResolveScope(r) \/ ReadWindow(r) \/ Reply(r)
           \/ Tick
           \/ \E s \in Projects, d \in Days, at \in 1..MaxWindows : UpsertMetricWindow(s, d, at)
           \/ \E s \in Scopes : DeleteScope(s)
           \/ UNCHANGED vars
  <2>1. UNCHANGED <<env, oauth>>
    BY <1>7 DEF Accept, ResolveScope, ReadWindow, Reply, Tick, UpsertMetricWindow, DeleteScope, vars
  <2>2. QED BY <2>1, ElsewhereGrants DEF oauth
<1>8. ASSUME NEW e \in Environments, Restart(e) PROVE Granting'
  BY <1>8, RestartGrants
<1>9. QED BY <1>1, <1>2, <1>3, <1>4, <1>5, <1>6, <1>7, <1>8 DEF Next, OAuth, Mcp, Around

LEMMA GrantingInvariance == Spec => []Granting
<1>1. TypeOK /\ Granting /\ [Next]_vars => Granting'
  BY GrantingNext
<1>2. QED BY <1>1, GrantingInit, TypeCorrect, PTL DEF Spec

\* A token that passes was granted.
LEMMA ValidWasGranted ==
  ASSUME TypeOK, Granting, NEW t \in Tokens, ValidateToken(t)
  PROVE  WasGranted(t)
<1>1. origin[t] # NoToken /\ t \notin voided /\ activeTokens[t].expires = origin[t].at + TokenTTL
  BY DEF ValidateToken, Granting, Founded
<1>2. origin[t] \in OriginRec /\ activeTokens[t] \in TokenRec
  BY <1>1 DEF TypeOK, OriginRec, TokenRec, ValidateToken
<1>3. now <= origin[t].at + TokenTTL
  BY <1>1, <1>2, Bounds DEF ValidateToken, Expired, TypeOK, OriginRec
<1>4. Matches(offers[origin[t].code], origin[t].form)
  BY <1>1 DEF Granting, Founded
<1>5. origin[t].form = [client |-> origin[t].form.client, redirect |-> origin[t].form.redirect,
                        verifier |-> origin[t].form.verifier]
  BY <1>2 DEF OriginRec, Form
<1>6. QED BY <1>1, <1>3, <1>4, <1>5 DEF WasGranted, Matches

\* Whatever restarts, revocations and expiry come between, a request passes with
\* what checkAuth should pass only: the static token, a token granted in this process
\* for a code approved and redeemed as it was asked for, or no protection at all.
THEOREM AcceptedBearers == Spec => AcceptedWasGranted
<1>1. ASSUME TypeOK, Granting, [Next]_vars, NEW r \in Requests, request[r] = Idle, request'[r] # Idle
      PROVE  Passes(request'[r].bearer)
  <2>1. PICK b \in Bearers, q \in dispatch : Accept(r, b, q)
    <3>1. ASSUME NEW s \in Requests, ResolveScope(s) \/ ReadWindow(s) \/ Reply(s) PROVE FALSE
      <4>1. PICK n : request' = [request EXCEPT ![s] = n]
        BY <3>1 DEF ResolveScope, ReadWindow, Reply
      <4>2. s # r
        <5>1. request[s].pc \in {"asking", "resolved"}
          BY <3>1 DEF ResolveScope, ReadWindow, Reply
        <5>2. request[r].pc = "idle"
          BY <1>1 DEF Idle
        <5>3. QED BY <5>1, <5>2
      <4>3. QED BY <1>1, <4>1, <4>2 DEF TypeOK
    <3>2. ASSUME NEW s \in Requests, NEW b \in Bearers, NEW q \in dispatch, Accept(s, b, q), s # r
          PROVE  FALSE
      BY <1>1, <3>2 DEF Accept, TypeOK
    <3>3. ASSUME NEW e \in Environments, Restart(e) PROVE FALSE
      BY <1>1, <3>3 DEF Restart, NoRequests
    <3>4. UNCHANGED request => FALSE
      BY <1>1
    <3>5. (OAuth \/ Tick \/ \E b \in Bearers : Refuse(b)) => UNCHANGED request
      BY DEF OAuth, handleAuthorize, TakeCode, CheckForm, IssueToken, handleRevoke, Refuse, Tick, data
    <3>6. \A s, d, at : UpsertMetricWindow(s, d, at) \/ DeleteScope(s) => UNCHANGED request
      BY DEF UpsertMetricWindow, DeleteScope
    <3>7. QED BY <1>1, <3>1, <3>2, <3>3, <3>4, <3>5, <3>6 DEF Next, Mcp, Around, vars, data
  <2>2. request'[r].bearer = b /\ checkAuth(b)
    BY <1>1, <2>1, AcceptType DEF Accept
  <2>3. env \in Environments /\ env.static \in StaticTokens \cup {""}
    BY <1>1, McpAssumption DEF TypeOK
  <2>4. Passes(b)
    <3>1. CASE env.static # "" /\ b = env.static
      BY <2>3, <3>1 DEF Passes
    <3>2. CASE Enabled(env) /\ b \in Tokens /\ ValidateToken(b)
      BY <1>1, <3>2, ValidWasGranted DEF Passes
    <3>3. CASE Open
      BY <1>1, <3>3 DEF Open, Passes, Enabled, clients, Granting, MayStart
    <3>4. QED BY <2>2, <3>1, <3>2, <3>3 DEF checkAuth
  <2>5. QED BY <2>2, <2>4
<1>2. TypeOK /\ Granting /\ [Next]_vars =>
        \A r \in Requests : request[r] = Idle /\ request'[r] # Idle => Passes(request'[r].bearer)
  BY <1>1
<1>3. QED BY <1>2, TypeCorrect, GrantingInvariance, PTL DEF Spec, AcceptedWasGranted

-----------------------------------------------------------------------------
(* Every step is a step of AccessGrant, or one it does not see.             *)

HolderOf(c) == [phase |-> phase(c), tokens |-> Passing(c)]

\* phase by its parts: what was authorized, the tokens that pass, all tokens, and
\* whether the code waits in the map or in an exchange.
PhaseFrom(offer, passing, tokens, waits) ==
  CASE offer = NoCode          -> "none"
    [] passing # {}            -> "granted"
    [] tokens = {} /\ waits    -> "offered"
    [] OTHER                   -> "ended"

LEMMA PhaseCases ==
  ASSUME NEW offer, NEW passing, NEW tokens, NEW waits \in BOOLEAN, passing \subseteq tokens,
         offer = NoCode => tokens = {} /\ ~waits
  PROVE  LET p == PhaseFrom(offer, passing, tokens, waits) IN
         /\ offer = NoCode => p = "none"
         /\ offer # NoCode /\ passing # {} => p = "granted"
         /\ offer # NoCode /\ tokens = {} /\ waits => p = "offered"
         /\ offer # NoCode /\ passing = {} /\ ~(tokens = {} /\ waits) => p = "ended"
<1>1. CASE offer = NoCode
  <2>1. passing = {} /\ ~waits
    BY <1>1
  <2>2. QED BY <1>1, <2>1, Zenon DEF PhaseFrom
<1>2. CASE offer # NoCode /\ passing # {}
  <2>1. tokens # {}
    BY <1>2
  <2>2. QED BY <1>2, <2>1, Zenon DEF PhaseFrom
<1>3. CASE offer # NoCode /\ passing = {} /\ tokens = {} /\ waits
  BY <1>3, Zenon DEF PhaseFrom
<1>4. CASE offer # NoCode /\ passing = {} /\ ~(tokens = {} /\ waits)
  BY <1>4, Zenon DEF PhaseFrom
<1>5. QED BY <1>1, <1>2, <1>3, <1>4

Waits(c) == pendingCodes[c] # NoCode \/ Held(c)

\* What a code that was not drawn has none of, and that phase is PhaseFrom.
LEMMA Parts ==
  ASSUME NEW c \in Codes
  PROVE  /\ phase(c) = PhaseFrom(offers[c], Passing(c), TokensOf(c), Waits(c))
         /\ Waits(c) \in BOOLEAN /\ Passing(c) \subseteq TokensOf(c)
         /\ Granting => (offers[c] = NoCode => TokensOf(c) = {} /\ ~Waits(c))
<1>1. phase(c) = PhaseFrom(offers[c], Passing(c), TokensOf(c), Waits(c))
  BY Zenon DEF phase, PhaseFrom, Waits
<1>2. Waits(c) \in BOOLEAN /\ Passing(c) \subseteq TokensOf(c)
  BY DEF Waits, Passing, Held
<1>3. Granting => (offers[c] = NoCode => TokensOf(c) = {} /\ ~Waits(c))
  BY DEF Granting, Once, Waits
<1>4. QED BY <1>1, <1>2, <1>3

LEMMA PartsNext ==
  ASSUME NEW c \in Codes
  PROVE  /\ phase(c)' = PhaseFrom(offers'[c], Passing(c)', TokensOf(c)', Waits(c)')
         /\ Waits(c)' \in BOOLEAN /\ Passing(c)' \subseteq TokensOf(c)'
         /\ Granting' => (offers'[c] = NoCode => TokensOf(c)' = {} /\ ~Waits(c)')
<1>1. phase(c)' = PhaseFrom(offers'[c], Passing(c)', TokensOf(c)', Waits(c)')
  BY Zenon DEF phase, PhaseFrom, Waits
<1>2. Waits(c)' \in BOOLEAN /\ Passing(c)' \subseteq TokensOf(c)'
  BY DEF Waits, Passing, Held
<1>3. Granting' => (offers'[c] = NoCode => TokensOf(c)' = {} /\ ~Waits(c)')
  BY DEF Granting, Once, Waits
<1>4. QED BY <1>1, <1>2, <1>3

\* A code that gains nothing stays as it was, or ends.
LEMMA CodeFades ==
  ASSUME Granting, Granting', NEW c \in Codes,
         offers'[c] = offers[c], TokensOf(c)' = TokensOf(c), Passing(c)' \subseteq Passing(c),
         Waits(c)' => Waits(c)
  PROVE  \/ HolderOf(c)' = HolderOf(c)
         \/ phase(c) # "none" /\ HolderOf(c)' = Grants!State("ended", {})
<1>1. \A s, t \in Passing(c) : s = t
  BY DEF Granting, Once, Passing
<1>2. CASE offers[c] = NoCode
  <2>1. phase(c)' = "none" /\ phase(c) = "none"
    BY <1>2, Parts, PartsNext, PhaseCases
  <2>2. Passing(c)' = {} /\ Passing(c) = {}
    BY <1>2, Parts
  <2>3. QED BY <2>1, <2>2 DEF HolderOf
<1>3. CASE offers[c] # NoCode /\ Passing(c)' # {}
  <2>1. Passing(c)' = Passing(c)
    BY <1>1, <1>3
  <2>2. phase(c)' = "granted" /\ phase(c) = "granted"
    BY <1>3, <2>1, Parts, PartsNext, PhaseCases
  <2>3. QED BY <2>1, <2>2 DEF HolderOf
<1>4. CASE offers[c] # NoCode /\ Passing(c)' = {} /\ TokensOf(c) = {} /\ Waits(c)'
  <2>1. Passing(c) = {}
    BY <1>4, Parts
  <2>2. phase(c)' = "offered" /\ phase(c) = "offered"
    BY <1>4, <2>1, Parts, PartsNext, PhaseCases
  <2>3. QED BY <1>4, <2>1, <2>2 DEF HolderOf
<1>5. CASE offers[c] # NoCode /\ Passing(c)' = {} /\ ~(TokensOf(c) = {} /\ Waits(c)')
  <2>1. phase(c)' = "ended"
    BY <1>5, PartsNext, PhaseCases
  <2>2. phase(c) # "none"
    <3>1. phase(c) \in {"granted", "offered", "ended"}
      BY <1>5, Parts, PhaseCases
    <3>2. QED BY <3>1
  <2>3. QED BY <1>5, <2>1, <2>2 DEF HolderOf, Grants!State
<1>6. QED BY <1>2, <1>3, <1>4, <1>5

\* When no code gains anything, some end.
LEMMA EndsOnly ==
  ASSUME \A c \in Codes : \/ HolderOf(c)' = HolderOf(c)
                          \/ phase(c) # "none" /\ HolderOf(c)' = Grants!State("ended", {})
  PROVE  Grants!Next
<1> DEFINE some == {c \in Codes : HolderOf(c)' # HolderOf(c)}
<1>1. holder = [c \in Codes |-> HolderOf(c)] /\ holder' = [c \in Codes |-> HolderOf(c)']
  BY DEF holder, HolderOf
<1>2. \A c \in some : holder[c].phase # "none"
  BY <1>1 DEF HolderOf
<1>3. holder' = [c \in Codes |-> IF c \in some THEN Grants!State("ended", {}) ELSE holder[c]]
  BY <1>1
<1>4. Grants!End(some)
  BY <1>2, <1>3 DEF Grants!End
<1>5. QED BY <1>4 DEF Grants!Next

\* Steps in which no code gains a token or waits anew.
LEMMA FadeRefines ==
  ASSUME Granting, Granting', UNCHANGED <<offers, origin>>,
         \A t \in Tokens : ValidateToken(t)' => ValidateToken(t),
         \A c \in Codes : Waits(c)' => Waits(c)
  PROVE  Grants!Next
<1>1. ASSUME NEW c \in Codes PROVE TokensOf(c)' = TokensOf(c) /\ Passing(c)' \subseteq Passing(c)
  BY DEF TokensOf, Passing
<1>2. QED BY <1>1, CodeFades, EndsOnly

LEMMA AuthorizeRefines ==
  ASSUME TypeOK, Granting, Granting', NEW c \in Codes, NEW client \in Clients,
         NEW redirect \in Redirects, NEW challenge \in Verifiers,
         handleAuthorize(c, client, redirect, challenge)
  PROVE  Grants!Next
<1>1. /\ offers[c] = NoCode /\ UNCHANGED <<now, exchange, activeTokens, origin>>
      /\ \A d \in Codes \ {c} : offers'[d] = offers[d] /\ pendingCodes'[d] = pendingCodes[d]
  BY DEF handleAuthorize, TypeOK
<1>2. offers'[c] # NoCode /\ pendingCodes'[c] # NoCode
  <2> DEFINE code == [client |-> client, redirect |-> redirect, challenge |-> challenge,
                      expires |-> now + CodeTTL]
  <2>1. code \in CodeRec
    BY Bounds DEF TypeOK, CodeRec
  <2>2. pendingCodes'[c] = code /\ offers'[c] = code
    BY DEF handleAuthorize, TypeOK
  <2> HIDE DEF code
  <2>3. QED BY <2>1, <2>2, CodeApart
<1>3. \A d \in Codes : TokensOf(d)' = TokensOf(d) /\ Passing(d)' = Passing(d)
  BY <1>1 DEF TokensOf, Passing, ValidateToken, Expired
<1>4. HolderOf(c) = Grants!State("none", {})
  <2>1. TokensOf(c) = {} /\ Passing(c) = {} /\ phase(c) = "none"
    BY <1>1, Parts, PhaseCases
  <2>2. QED BY <2>1 DEF HolderOf, Grants!State
<1>5. HolderOf(c)' = Grants!State("offered", {})
  <2>1. TokensOf(c)' = {} /\ Passing(c)' = {} /\ Waits(c)'
    BY <1>1, <1>2, <1>3, Parts DEF Waits
  <2>2. phase(c)' = "offered"
    BY <1>2, <2>1, PartsNext, PhaseCases
  <2>3. QED BY <2>1, <2>2 DEF HolderOf, Grants!State
<1>6. ASSUME NEW d \in Codes \ {c} PROVE HolderOf(d)' = HolderOf(d)
  <2>1. Waits(d)' = Waits(d)
    BY <1>1 DEF Waits, Held
  <2>2. phase(d)' = phase(d)
    BY <1>1, <1>3, <2>1, Parts, PartsNext
  <2>3. QED BY <1>3, <2>2 DEF HolderOf
<1>7. holder = [d \in Codes |-> HolderOf(d)] /\ holder' = [d \in Codes |-> HolderOf(d)']
  BY DEF holder, HolderOf
<1>8. holder[c].phase = "none"
  BY <1>4, <1>7 DEF Grants!State
<1>9. holder' = [holder EXCEPT ![c] = Grants!State("offered", {})]
  BY <1>5, <1>6, <1>7
<1>10. Grants!Offer(c)
  BY <1>8, <1>9 DEF Grants!Offer
<1>11. QED BY <1>10 DEF Grants!Next

LEMMA IssueRefines ==
  ASSUME TypeOK, Granting, Granting', NEW e \in Exchanges, NEW t \in Tokens, IssueToken(e, t)
  PROVE  Grants!Next
<1>1. PICK c \in Codes : c = exchange[e].code
  BY IssueEffect
<1>2. /\ TokensOf(c) = {} /\ Held(c) /\ TokensOf(c)' = {t} /\ ~Held(c)'
      /\ \A d \in Codes \ {c} : TokensOf(d)' = TokensOf(d) /\ (Held(d)' <=> Held(d))
  BY <1>1, IssueGrants
<1>3. /\ origin[t] = NoToken
      /\ activeTokens'[t] # NoToken /\ activeTokens'[t].expires = now + TokenTTL
      /\ \A s \in Tokens \ {t} : activeTokens'[s] = activeTokens[s]
      /\ UNCHANGED <<now, pendingCodes, offers>>
  BY IssueEffect
<1>4. ValidateToken(t)' /\ \A s \in Tokens \ {t} : ValidateToken(s)' = ValidateToken(s)
  <2>1. ~(now' > activeTokens'[t].expires)
    BY <1>3, Bounds DEF TypeOK
  <2>2. QED BY <1>3, <2>1 DEF ValidateToken, Expired
<1>5. offers[c] # NoCode
  BY <1>2, Parts DEF Waits
<1>6. HolderOf(c) = Grants!State("offered", {})
  <2>1. Passing(c) = {} /\ Waits(c)
    BY <1>2 DEF Passing, Waits
  <2>2. phase(c) = "offered"
    BY <1>2, <1>5, <2>1, Parts, PhaseCases
  <2>3. QED BY <2>1, <2>2 DEF HolderOf, Grants!State
<1>7. HolderOf(c)' = Grants!State("granted", {t})
  <2>1. Passing(c)' = {t}
    BY <1>2, <1>4 DEF Passing
  <2>2. offers'[c] # NoCode
    BY <1>3, <1>5
  <2>3. phase(c)' = "granted"
    BY <2>1, <2>2, PartsNext, PhaseCases
  <2>4. QED BY <2>1, <2>3 DEF HolderOf, Grants!State
<1>8. ASSUME NEW d \in Codes \ {c} PROVE HolderOf(d)' = HolderOf(d)
  <2>1. t \notin TokensOf(d)
    BY <1>3 DEF TokensOf
  <2>2. Passing(d)' = Passing(d)
    BY <1>2, <1>4, <2>1 DEF Passing, TokensOf
  <2>3. Waits(d)' = Waits(d)
    BY <1>2, <1>3 DEF Waits, Held
  <2>4. phase(d)' = phase(d)
    BY <1>2, <1>3, <2>2, <2>3, Parts, PartsNext
  <2>5. QED BY <2>2, <2>4 DEF HolderOf
<1>9. holder = [d \in Codes |-> HolderOf(d)] /\ holder' = [d \in Codes |-> HolderOf(d)']
  BY DEF holder, HolderOf
<1>10. holder[c].phase = "offered" /\ \A d \in Codes : t \notin holder[d].tokens
  <2>1. \A d \in Codes : t \notin Passing(d)
    BY <1>3 DEF Passing, TokensOf
  <2>2. QED BY <1>6, <1>9, <2>1 DEF Grants!State, HolderOf
<1>11. holder' = [holder EXCEPT ![c] = Grants!State("granted", {t})]
  BY <1>7, <1>8, <1>9
<1>12. Grants!Grant(c, t)
  BY <1>10, <1>11 DEF Grants!Grant
<1>13. QED BY <1>12 DEF Grants!Next

LEMMA InitGrants == Init => Grants!Init
<1> SUFFICES ASSUME Init PROVE Grants!Init
  OBVIOUS
<1>1. Granting
  BY GrantingInit
<1>2. ASSUME NEW c \in Codes PROVE HolderOf(c) = Grants!State("none", {})
  <2>1. offers[c] = NoCode
    BY DEF Init, NoCodes
  <2>2. phase(c) = "none" /\ Passing(c) = {}
    BY <1>1, <2>1, Parts, PhaseCases
  <2>3. QED BY <2>2 DEF HolderOf, Grants!State
<1>3. QED BY <1>2 DEF Grants!Init, holder, HolderOf

LEMMA StepGrants == TypeOK /\ Granting /\ Granting' /\ [Next]_vars => [Grants!Next]_holder
<1> SUFFICES ASSUME TypeOK, Granting, Granting', [Next]_vars PROVE Grants!Next
  OBVIOUS
<1>1. ASSUME NEW c \in Codes, NEW client \in Clients, NEW redirect \in Redirects,
             NEW challenge \in Verifiers, handleAuthorize(c, client, redirect, challenge)
      PROVE  Grants!Next
  BY <1>1, AuthorizeRefines
<1>2. ASSUME NEW e \in Exchanges, NEW c \in Codes, NEW form \in Form, TakeCode(e, c, form)
      PROVE  Grants!Next
  <2>1. /\ UNCHANGED <<now, activeTokens, offers, origin>>
        /\ exchange[e] = Idle /\ pendingCodes[c] # NoCode
        /\ \A d \in Codes : pendingCodes'[d] # NoCode => pendingCodes[d] # NoCode
    BY <1>2 DEF TakeCode, LookedUp, TypeOK
  <2>2. \A d \in Exchanges : exchange'[d] # Idle => exchange'[d] = exchange[d] \/ exchange'[d].code = c
    BY <1>2 DEF TakeCode, TypeOK
  <2>3. \A d \in Codes : Waits(d)' => Waits(d)
    BY <2>1, <2>2 DEF Waits, Held
  <2>4. QED BY <2>1, <2>3, FadeRefines DEF ValidateToken, Expired
<1>3. ASSUME NEW e \in Exchanges, CheckForm(e) PROVE Grants!Next
  <2>1. exchange[e] \in ExchangeRec
    BY <1>3 DEF CheckForm, TypeOK, ExchangeRec, Idle
  <2>2. \A d \in Exchanges : exchange'[d] # Idle => exchange[d] # Idle /\ exchange'[d].code = exchange[d].code
    BY <1>3, <2>1, IdleApart DEF CheckForm, TypeOK, ExchangeRec
  <2>3. UNCHANGED <<now, activeTokens, pendingCodes, offers, origin>>
    BY <1>3 DEF CheckForm
  <2>4. \A d \in Codes : Waits(d)' => Waits(d)
    BY <2>2, <2>3 DEF Waits, Held
  <2>5. QED BY <2>3, <2>4, FadeRefines DEF ValidateToken, Expired
<1>4. ASSUME NEW e \in Exchanges, NEW t \in Tokens, IssueToken(e, t) PROVE Grants!Next
  BY <1>4, IssueRefines
<1>5. ASSUME UNCHANGED <<now, offers, origin, pendingCodes, exchange>>,
             \A t \in Tokens : activeTokens'[t] \in {activeTokens[t], NoToken}
      PROVE  Grants!Next
  <2>1. \A t \in Tokens : ValidateToken(t)' => ValidateToken(t)
    BY <1>5 DEF ValidateToken, Expired
  <2>2. \A c \in Codes : Waits(c)' => Waits(c)
    BY <1>5 DEF Waits, Held
  <2>3. QED BY <1>5, <2>1, <2>2, FadeRefines
<1>6. ASSUME NEW t \in Tokens, handleRevoke(t) PROVE Grants!Next
  BY <1>5, <1>6 DEF handleRevoke, TypeOK
<1>7. ASSUME NEW b \in Bearers, Refuse(b) PROVE Grants!Next
  BY <1>5, <1>7, SweptTokens DEF Refuse
<1>8. CASE \/ \E r \in Requests, b \in Bearers, q \in dispatch : Accept(r, b, q)
           \/ \E r \in Requests : ResolveScope(r) \/ ReadWindow(r) \/ Reply(r)
           \/ \E s \in Projects, d \in Days, at \in 1..MaxWindows : UpsertMetricWindow(s, d, at)
           \/ \E s \in Scopes : DeleteScope(s)
           \/ UNCHANGED vars
  <2>1. UNCHANGED <<now, oauth>>
    BY <1>8 DEF Accept, ResolveScope, ReadWindow, Reply, UpsertMetricWindow, DeleteScope, vars
  <2>2. QED BY <1>5, <2>1 DEF oauth
<1>9. CASE Tick
  <2>1. \A t \in Tokens : ValidateToken(t)' => ValidateToken(t)
    <3>1. ASSUME NEW t \in Tokens, activeTokens[t] # NoToken PROVE activeTokens[t].expires \in Nat
      BY <3>1 DEF TypeOK
    <3>2. now \in Nat /\ now' = now + 1 /\ activeTokens' = activeTokens
      BY <1>9 DEF TypeOK, Tick, oauth
    <3>3. QED BY <3>1, <3>2 DEF ValidateToken, Expired
  <2>2. \A c \in Codes : Waits(c)' => Waits(c)
    BY <1>9 DEF Tick, oauth, Waits, Held
  <2>3. QED BY <1>9, <2>1, <2>2, FadeRefines DEF Tick, oauth
<1>10. ASSUME NEW e \in Environments, Restart(e) PROVE Grants!Next
  <2>1. \A t \in Tokens : ~ValidateToken(t)'
    BY <1>10 DEF Restart, ValidateToken, NoTokens
  <2>2. \A c \in Codes : ~Waits(c)'
    BY <1>10 DEF Restart, Waits, Held, NoCodes, NoExchanges
  <2>3. QED BY <1>10, <2>1, <2>2, FadeRefines DEF Restart
<1>11. QED BY <1>1, <1>2, <1>3, <1>4, <1>6, <1>7, <1>8, <1>9, <1>10 DEF Next, OAuth, Mcp, Around

\* A code gives one token at most, and what has ended never comes back: the
\* authorization server implements AccessGrant.
THEOREM Implementation == Spec => ImplementsGrant
<1>1. Spec => Grants!Init /\ [][Grants!Next]_holder
  BY TypeCorrect, GrantingInvariance, InitGrants, StepGrants, PTL DEF Spec
<1>2. QED BY <1>1 DEF ImplementsGrant, Grants!Spec
=============================================================================
