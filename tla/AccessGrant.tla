----------------------------- MODULE AccessGrant -----------------------------
(***************************************************************************)
(* What the authorization server of the MCP server promises of the codes   *)
(* it hands out: a code gives one access token at most, a token comes of   *)
(* one code, and what has ended never comes back.                          *)
(***************************************************************************)
CONSTANTS Codes, Tokens

VARIABLE holder   \* of each code: where it stands, and the tokens that pass for it

State(phase, tokens) == [phase |-> phase, tokens |-> tokens]

Init == holder = [c \in Codes |-> State("none", {})]

Offer(c) ==
  /\ holder[c].phase = "none"
  /\ holder' = [holder EXCEPT ![c] = State("offered", {})]

Grant(c, t) ==
  /\ holder[c].phase = "offered"
  /\ \A d \in Codes : t \notin holder[d].tokens
  /\ holder' = [holder EXCEPT ![c] = State("granted", {t})]

\* Revocation, expiry, a refused exchange, or the end of the process.
End(some) ==
  /\ \A c \in some : holder[c].phase # "none"
  /\ holder' = [c \in Codes |-> IF c \in some THEN State("ended", {}) ELSE holder[c]]

Next ==
  \/ \E c \in Codes : Offer(c)
  \/ \E c \in Codes, t \in Tokens : Grant(c, t)
  \/ \E some \in SUBSET Codes : End(some)

Spec == Init /\ [][Next]_holder
=============================================================================
