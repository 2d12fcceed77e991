---------------------------- MODULE MCMcpServer -----------------------------
(* Small instances of McpServer for TLC. *)
EXTENDS McpServer, TLC

CONSTANTS acme, st

Env(entries, operator, static, insecure) ==
  [entries |-> entries, operator |-> operator, static |-> static, insecure |-> insecure]

\* A process with OAuth beside the static token, one with OAuth only, one open to
\* all, one whose only entry is malformed, and one that cannot start.
MCEnvironments ==
  {Env(Clients \X Redirects, TRUE, st, FALSE),
   Env({acme} \X Redirects, TRUE, "", TRUE),
   Env({<<"malformed">>}, FALSE, "", TRUE),
   Env(Clients \X Redirects, FALSE, "", FALSE)}

Symmetry == Permutations(Codes) \cup Permutations(Tokens) \cup Permutations(Exchanges)
            \cup Permutations(Redirects) \cup Permutations(Verifiers) \cup Permutations(Teams)

CONSTANT MaxRows

\* Bound: the authorization server and the tools share the check of the bearer
\* only, so one of them at a time leaves its initial state; the tools do not look
\* at the clock.
HalfAtATime ==
  \/ /\ offers = NoCodes /\ now = 0 /\ restarts = 0
     /\ Cardinality(UNION {{k} \X windows[k] : k \in DOMAIN windows}) <= MaxRows
  \/ /\ windows = [k \in DOMAIN windows |-> {}] /\ live = Scopes
     /\ \A r \in Requests : request[r] # Idle => request[r].question = toolGetDeployments(0)
=============================================================================
