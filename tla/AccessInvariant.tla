--------------------------- MODULE AccessInvariant ---------------------------
(***************************************************************************)
(* The inductive invariant of the guards: what a request knows of itself at *)
(* each await, and what the shared state (key clients, cache, counters)     *)
(* means to the requests that will read it.                                 *)
(***************************************************************************)
EXTENDS Access

Caller(q) ==
  q.user # NoUser => q.token \in Token /\ q.user.issuer = q.token.iss /\ q.user.id = q.token.sub
\* A caller is known from the key's answer on, by its token; the provisioned user after it.
Known(q) ==
  /\ q.pc \in {"resolving", "key"} => q.token \in Token
  /\ q.pc \in {"idle", "resolving", "key"} => q.user = NoUser
  /\ q.pc \in {"cacheGet", "provisioning", "cacheSet"} => q.user # NoUser
  /\ q.pc = "cacheSet" => q.dbUser # NoUser
  /\ q.pc = "idle" <=> q.route = NoConfig
  /\ q.route # NoConfig => q.ip \in Ip
  /\ Caller(q)

\* What admits a request is established before the limits, and the rules are passed in turn.
Cleared(q) ==
  /\ ~q.route.public => q.user # NoUser /\ q.dbUser # NoUser
  /\ q.route.roles => q.user # NoUser /\ q.user.roles
Passed(q) ==
  /\ q.pc # "done" <=> q.outcome = "none"
  /\ q.pc \notin {"limit", "done"} => q.approved = {} /\ q.waived = {}
  /\ q.pc = "limit" =>
       /\ Cleared(q) /\ q.rule \in DOMAIN q.route.rules
       /\ \A k \in DOMAIN q.route.rules : Resolvable(q.route.rules[k])
       /\ q.approved \cup q.waived = 1..(q.rule - 1)
  /\ app.policy = "deny" => q.waived = {}

\* The key of a request is that of the client of its issuer, which once was the resolver's answer.
Vouched(r) ==
  LET q == req[r] IN
  /\ q.pc = "resolving" => app.mode = "dynamic"
  /\ q.pc = "key" =>
       IF app.mode = "static" THEN q.uri = StaticUri
       ELSE resolved[r] # NoConfig /\ clients[q.token.iss] # NoConfig /\ q.uri = clients[q.token.iss]
Clients == \A i \in Issuer : clients[i] # NoConfig => clients[i] \in vouched[i]

\* An entry is of the caller that its key names, and ends in time; so does provisioning.
Cached ==
  \A k \in Identity :
    cache[k] # NoEntry =>
      /\ cache[k].user.issuer = k[1] /\ cache[k].user.id = k[2]
      /\ cache[k].expires <= cache[k].user.at + Slow + CacheTtl
Timely(q) ==
  /\ q.pc \in {"provisioning", "cacheSet"} => q.since <= now /\ now <= q.since + Slow
  /\ q.pc = "cacheSet" => q.dbUser.at = q.since

\* The hits key lives for the window, and counts its approvals; the block key is the promise.
Counted ==
  \A b \in Bucket :
    /\ hits[b].expires = NoExpiry => window[b].ends = -1
    /\ hits[b].expires # NoExpiry =>
         window[b].ends = hits[b].expires /\ window[b].approved <= hits[b].count
    /\ window[b].blockedUntil = IF blocks[b] = NoExpiry THEN 0 ELSE blocks[b]
\* A late command was sent for a rule that its request had resolved.
Sent ==
  \A command \in late :
    LET q == req[command[1]] IN
    /\ q.route # NoConfig /\ command[2] \in DOMAIN q.route.rules
    /\ \A k \in DOMAIN q.route.rules : Resolvable(q.route.rules[k])

Passage == \A r \in Request : Known(req[r]) /\ Passed(req[r]) /\ Vouched(r) /\ Timely(req[r])
Shared == Clients /\ Cached /\ Counted /\ Sent

\* The inductive invariant: a request is admitted as the caller it was verified to be, by checks
\* that hold whatever the other requests, the issuers, the cache and Redis do at its awaits.
IInv == TypeOK /\ Passage /\ Shared /\ AdmittedWasChecked /\ TrustIsPerIssuer /\ UserIsCurrent
=============================================================================
