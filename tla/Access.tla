------------------------------- MODULE Access -------------------------------
(***************************************************************************)
(* The way of a request through the guards of an application: JwtAuthGuard  *)
(* with JwtStrategy, the provisioning guard with its cache, RolesGuard      *)
(* (src/auth) and RateLimitGuard (src/rate-limit).  Requests overlap at     *)
(* every await: the issuer resolver, the key client, the cache, the         *)
(* provisioner and Redis.                                                   *)
(***************************************************************************)
EXTENDS RateLimit

CONSTANTS
  Requests,     \* how many requests arrive at most
  App, Token, Issuer, Subject, Uri, Ip,
  NoToken, NoConfig, NoUser, NoEntry,
  StaticIssuer, StaticUri,   \* options.issuer and jwksUri of the static mode
  CacheTtl,     \* cacheTtlMs
  Slow,         \* longest time that the provisioner and the cache take
  MaxChanges,   \* changes of the issuer registry
  MaxFaults     \* failures of any of the services

Request == 1..Requests
Identity == Issuer \X Subject
Config == [uri : Uri, trustRoles : BOOLEAN]
User == [issuer : Issuer, id : Subject, roles : BOOLEAN]

\* A token as signed: with which keys, for this audience, with the required role.
ASSUME TokenAssumption ==
  Token \subseteq [iss : Issuer, sub : Subject, signedBy : Uri, audience : BOOLEAN, role : BOOLEAN]
\* An application: static or dynamic issuer, cacheTtlMs set, onStorageError, and its routes, with
\* @Public() (or the path /health), @Roles() and the rules of @RateLimit(); load bounds
\* its requests, and tokens are those that its callers have.
Route == [public : BOOLEAN, roles : BOOLEAN, rules : Seq(Rule)]
ASSUME AppAssumption ==
  App \subseteq [mode : {"static", "dynamic"}, cached : BOOLEAN, policy : {"allow", "deny"},
                load : 0..Requests, tokens : SUBSET Token, routes : SUBSET Route]
ASSUME StaticAssumption == StaticIssuer \in Issuer /\ StaticUri \in Uri
ASSUME TrackerAssumption == Tracker = Identity \cup Ip
ASSUME AccessBounds == {Requests, CacheTtl, Slow, MaxChanges, MaxFaults} \subseteq Nat

VARIABLES
  app,          \* the options of this application
  registry,     \* what resolveIssuer answers for an issuer
  clients,      \* the key clients: the URI of the one of each issuer
  resolved,     \* WeakMap: the configuration resolved for a request
  cache,        \* provisioned users by cache key
  req,
  late,         \* commands of requests that no longer wait for them
  vouched,      \* history: the URIs that the resolver ever gave for an issuer
  changes, faults

authVars == <<registry, clients, resolved, vouched, changes>>
vars == <<now, limitVars, app, authVars, cache, req, late, faults>>

Outcome == {"none", "admitted", "401", "403", "429", "500", "503"}
Pc == {"idle", "resolving", "key", "cacheGet", "provisioning", "cacheSet", "limit", "done"}
DbUser == [issuer : Issuer, id : Subject, at : Nat]
Entry == [user : DbUser, expires : Nat]
Idle == [pc |-> "idle", token |-> NoToken, route |-> NoConfig, ip |-> NoUser, uri |-> StaticUri,
         user |-> NoUser, dbUser |-> NoUser, since |-> 0, servedAt |-> 0,
         rule |-> 1, asked |-> FALSE, reply |-> NoEntry, waived |-> {}, approved |-> {},
         retry |-> 0, outcome |-> "none"]
RequestState ==
  [pc : Pc, token : Token \cup {NoToken}, route : app.routes \cup {NoConfig}, ip : Ip \cup {NoUser},
   uri : Uri, user : User \cup {NoUser}, dbUser : DbUser \cup {NoUser}, since : Nat, servedAt : Nat,
   rule : Nat, asked : BOOLEAN, reply : Reply \cup {NoEntry}, waived : SUBSET Nat,
   approved : SUBSET Nat, retry : Nat, outcome : Outcome]
ASSUME NothingAssumption ==
  /\ NoToken \notin Token /\ NoConfig \notin Config \cup Uri \cup Route
  /\ NoUser \notin User \cup DbUser /\ NoEntry \notin Entry \cup Reply

TypeOK ==
  /\ LimitTypeOK
  /\ app \in App
  /\ registry \in [Issuer -> Config \cup {NoConfig}]
  /\ clients \in [Issuer -> Uri \cup {NoConfig}]
  /\ resolved \in [Request -> Config \cup {NoConfig}]
  /\ cache \in [Identity -> Entry \cup {NoEntry}]
  /\ req \in [Request -> RequestState]
  /\ vouched \in [Issuer -> SUBSET Uri]
  /\ late \subseteq Request \X Nat
  /\ changes \in Nat /\ faults \in Nat

Init ==
  /\ LimitInit
  /\ app \in App
  /\ registry \in [Issuer -> Config \cup {NoConfig}]
  /\ clients = [i \in Issuer |-> NoConfig]
  /\ resolved = [r \in Request |-> NoConfig]
  /\ cache = [k \in Identity |-> NoEntry]
  /\ req = [r \in Request |-> Idle]
  /\ late = {} /\ vouched = [i \in Issuer |-> {}]
  /\ changes = 0 /\ faults = 0

Fault == faults < MaxFaults /\ faults' = faults + 1
Becomes(r, q) == req' = [req EXCEPT ![r] = q]
Rejected(q, outcome) == [q EXCEPT !.pc = "done", !.outcome = outcome]
Rejects(r, outcome) == Becomes(r, Rejected(req[r], outcome))

-----------------------------------------------------------------------------
(* Rate limits of the route *)

\* tracker: the caller when the rule is per identity and there is one, else the address.
TrackerOf(q, rule) ==
  IF rule.key = "identity" /\ q.user # NoUser THEN <<q.user.issuer, q.user.id>> ELSE q.ip
RuleOf(q) == Resolve(q.route.rules[q.rule])
BucketOf(q) == LET rule == RuleOf(q) IN <<rule.name, TrackerOf(q, rule)>>

\* The guard asks for its rule number n, or is through.
\* Mutant of Asks: one rule too many.
AsksPast(q, n) ==
  IF n > Len(q.route.rules) + 1 THEN [q EXCEPT !.pc = "done", !.outcome = "admitted"]
  ELSE [q EXCEPT !.pc = "limit", !.rule = n, !.asked = TRUE, !.reply = NoEntry]
Asks(q, n) ==
  IF n > Len(q.route.rules) THEN [q EXCEPT !.pc = "done", !.outcome = "admitted"]
  ELSE [q EXCEPT !.pc = "limit", !.rule = n, !.asked = TRUE, !.reply = NoEntry]

\* Every rule is resolved before the first one is counted.
Limited(q) ==
  IF \E k \in DOMAIN q.route.rules : ~Resolvable(q.route.rules[k]) THEN Rejected(q, "500")
  ELSE Asks(q, 1)

\* RolesGuard, and the guards that follow it.
Guarded(q) ==
  IF q.route.roles /\ (q.user = NoUser \/ ~q.user.roles) THEN Rejected(q, "403") ELSE Limited(q)

-----------------------------------------------------------------------------
(* JwtAuthGuard and JwtStrategy *)

\* The strategy's super() verifies issuer and audience only in the static mode.
Arrive(r, token, route, ip) ==
  /\ req[r].pc = "idle" /\ \A s \in 1..(r - 1) : req[s].pc # "idle"
  /\ r <= app.load
  /\ route.public => token = NoToken  \* it is not looked at
  /\ LET q == [Idle EXCEPT !.token = token, !.route = route, !.ip = ip] IN
     Becomes(r, IF route.public THEN Guarded(q)
                ELSE IF token = NoToken THEN Rejected(q, "401")
                ELSE IF app.mode = "dynamic" THEN [q EXCEPT !.pc = "resolving"]
                ELSE [q EXCEPT !.pc = "key", !.uri = StaticUri])
  /\ UNCHANGED <<now, limitVars, app, authVars, cache, late, faults>>

\* resolveIssuer answers: the configuration is kept for the request, and the key is asked of the
\* client of the issuer, which is made with the first configuration and stays.
ResolverAnswers(r) ==
  /\ req[r].pc = "resolving"
  /\ LET q == req[r]
         iss == q.token.iss
         config == registry[iss] IN
     /\ vouched' = IF config = NoConfig THEN vouched ELSE [vouched EXCEPT ![iss] = @ \cup {config.uri}]
     /\ IF config = NoConfig \/ ~q.token.audience
        THEN Rejects(r, "401") /\ UNCHANGED <<clients, resolved>>
        ELSE /\ resolved' = [resolved EXCEPT ![r] = config]
             /\ clients' = IF clients[iss] # NoConfig THEN clients ELSE [clients EXCEPT ![iss] = config.uri]
             /\ Becomes(r, [q EXCEPT !.pc = "key", !.uri = clients'[iss]])
  /\ UNCHANGED <<now, limitVars, app, registry, changes, cache, late, faults>>

\* roleSource: under which configuration the roles of the request are read.
\* Mutant of RoleSource: a second call of the resolver.
RoleSourceAgain(r) == IF registry[req[r].token.iss] = NoConfig THEN resolved[r] ELSE registry[req[r].token.iss]
RoleSource(r) == resolved[r]

Validated(r) ==
  [issuer |-> req[r].token.iss, id |-> req[r].token.sub,
   roles |-> req[r].token.role /\ (app.mode = "static" \/ RoleSource(r).trustRoles)]

Provisioned(q) == [q EXCEPT !.pc = IF app.cached THEN "cacheGet" ELSE "provisioning", !.since = now]

\* The key is there and the token is verified with it; validate builds request.user, and the
\* provisioning guard looks into the cache.
KeyAnswers(r) ==
  /\ req[r].pc = "key"
  /\ LET t == req[r].token IN
     IF \/ t.signedBy # req[r].uri
        \/ app.mode = "static" /\ (t.iss # StaticIssuer \/ ~t.audience)
     THEN Rejects(r, "401")
     ELSE Becomes(r, Provisioned([req[r] EXCEPT !.user = Validated(r)]))
  /\ UNCHANGED <<now, limitVars, app, authVars, cache, late, faults>>

\* The resolver or the key client fails, which answers 401.
AuthFails(r) ==
  /\ req[r].pc \in {"resolving", "key"} /\ Rejects(r, "401") /\ Fault
  /\ UNCHANGED <<now, limitVars, app, authVars, cache, late>>

RegistryChanges(i, config) ==
  /\ app.mode = "dynamic" /\ changes < MaxChanges /\ changes' = changes + 1
  /\ registry[i] # config /\ registry' = [registry EXCEPT ![i] = config]
  /\ UNCHANGED <<now, limitVars, app, clients, resolved, vouched, cache, req, late, faults>>

-----------------------------------------------------------------------------
(* The provisioning guard *)

\* provisioningCacheKey.
\* Mutant of CacheKey: the subject alone.
CacheKeyOfSubject(user) == <<CHOOSE i \in Issuer : TRUE, user.id>>
CacheKey(user) == <<user.issuer, user.id>>

CacheAnswers(r) ==
  /\ req[r].pc = "cacheGet"
  /\ LET q == req[r]
         entry == cache[CacheKey(q.user)] IN
     IF entry # NoEntry /\ now < entry.expires
     THEN Becomes(r, Guarded([q EXCEPT !.dbUser = entry.user, !.servedAt = now]))
     ELSE Becomes(r, [q EXCEPT !.pc = "provisioning", !.since = now])
  /\ UNCHANGED <<now, limitVars, app, authVars, cache, late, faults>>

\* provision returns the user as of the time it was asked, or null.
Provisions(r) ==
  /\ req[r].pc = "provisioning"
  /\ LET user == req[r].user
         q == [req[r] EXCEPT !.dbUser = [issuer |-> user.issuer, id |-> user.id, at |-> req[r].since],
                             !.servedAt = now] IN
     Becomes(r, IF app.cached THEN [q EXCEPT !.pc = "cacheSet"] ELSE Guarded(q))
  /\ UNCHANGED <<now, limitVars, app, authVars, cache, late, faults>>

CacheStores(r) ==
  /\ req[r].pc = "cacheSet"
  /\ cache' = [cache EXCEPT ![CacheKey(req[r].user)] = [user |-> req[r].dbUser, expires |-> now + CacheTtl]]
  /\ Becomes(r, Guarded(req[r]))
  /\ UNCHANGED <<now, limitVars, app, authVars, late, faults>>

\* Unknown to the provisioner: 401.  An exception of the provisioner or of the cache: 500.
ProvisioningFails(r) ==
  /\ \/ req[r].pc = "provisioning" /\ Rejects(r, "401")
     \/ req[r].pc \in {"cacheGet", "provisioning", "cacheSet"} /\ Rejects(r, "500")
  /\ Fault
  /\ UNCHANGED <<now, limitVars, app, authVars, cache, late>>

Evicts(k) ==
  /\ cache[k] # NoEntry /\ Fault /\ cache' = [cache EXCEPT ![k] = NoEntry]
  /\ UNCHANGED <<now, limitVars, app, authVars, req, late>>

-----------------------------------------------------------------------------
(* RateLimitGuard and Redis *)

RedisExecutes(r) ==
  /\ req[r].pc = "limit" /\ req[r].asked
  /\ LET rule == RuleOf(req[r])
         b == BucketOf(req[r]) IN
     /\ Increment(b, rule)
     /\ Becomes(r, [req[r] EXCEPT !.asked = FALSE, !.reply = Script(b, rule).reply])
  /\ UNCHANGED <<now, app, authVars, cache, late, faults>>

\* The record arrives: blocked is 429 with Retry-After, at least a second.
RecordArrives(r) ==
  /\ req[r].pc = "limit" /\ req[r].reply # NoEntry /\ ~req[r].reply.error
  /\ LET q == req[r] IN
     IF q.reply.blocked
     THEN Becomes(r, [Rejected(q, "429") EXCEPT !.retry = IF q.reply.retry > 1 THEN q.reply.retry ELSE 1])
     ELSE Becomes(r, Asks([q EXCEPT !.approved = @ \cup {q.rule}], q.rule + 1))
  /\ UNCHANGED <<now, limitVars, app, authVars, cache, late, faults>>

\* increment throws: the rule is waived, or the request is refused with 503.
\* Mutant of Waives: onStorageError is not looked at.
WaivesAlways(r) ==
  Becomes(r, Asks([req[r] EXCEPT !.waived = @ \cup {req[r].rule}], req[r].rule + 1))
Waives(r) ==
  Becomes(r, IF app.policy = "deny" THEN Rejected(req[r], "503")
             ELSE Asks([req[r] EXCEPT !.waived = @ \cup {req[r].rule}], req[r].rule + 1))
ScriptFails(r) ==
  /\ req[r].pc = "limit" /\ req[r].reply # NoEntry /\ req[r].reply.error
  /\ Waives(r)
  /\ UNCHANGED <<now, limitVars, app, authVars, cache, late, faults>>

\* The command fails at once or times out, after 250 ms; it may have been executed, and may still be.
\* Mutant of StorageFails: no commandTimeout.
StorageFailsAtOnce(r) ==
  /\ req[r].pc = "limit" /\ req[r].asked /\ Waives(r) /\ late' = late \cup {<<r, req[r].rule>>} /\ Fault
  /\ UNCHANGED <<now, limitVars, app, authVars, cache>>
StorageFails(r) ==
  /\ req[r].pc = "limit" /\ Waives(r)
  /\ \/ UNCHANGED <<late, faults>>
     \/ req[r].asked /\ late' = late \cup {<<r, req[r].rule>>} /\ Fault
  /\ UNCHANGED <<now, limitVars, app, authVars, cache>>

LateCommand(r, k) ==
  /\ <<r, k>> \in late /\ late' = late \ {<<r, k>>}
  /\ LET q == [req[r] EXCEPT !.rule = k] IN Increment(BucketOf(q), RuleOf(q))
  /\ UNCHANGED <<now, app, authVars, cache, req, faults>>

-----------------------------------------------------------------------------
Tick ==
  /\ now < MaxTime
  /\ \A r \in Request : req[r].pc \in {"provisioning", "cacheSet"} => now < req[r].since + Slow
  /\ now' = now + 1
  /\ UNCHANGED <<limitVars, app, authVars, cache, req, late, faults>>

Services(r) ==
  ResolverAnswers(r) \/ KeyAnswers(r) \/ CacheAnswers(r) \/ Provisions(r) \/ CacheStores(r)
  \/ StorageFails(r)

Next ==
  \/ \E r \in Request :
       \/ \E token \in app.tokens \cup {NoToken}, route \in app.routes, ip \in Ip : Arrive(r, token, route, ip)
       \/ Services(r) \/ AuthFails(r) \/ ProvisioningFails(r)
       \/ RedisExecutes(r) \/ RecordArrives(r) \/ ScriptFails(r)
  \/ \E i \in Issuer, config \in Config \cup {NoConfig} : RegistryChanges(i, config)
  \/ \E k \in Identity : Evicts(k)
  \/ \E command \in late : LateCommand(command[1], command[2])
  \/ Tick

\* The services that a request waits for answer, but for Redis, on which a timeout is set.
Fairness == \A r \in Request : WF_vars(Services(r))
Spec == Init /\ [][Next]_vars /\ Fairness

-----------------------------------------------------------------------------
(* Properties *)

\* Redis approves no more requests of a tracker in a window than the limit of the rule it counts
\* for, and none before the block it has promised is over, however increments, expiries and lost
\* answers interleave; and Retry-After reaches the end of the block that held when it was asked.
LimitHolds ==
  [][\A r \in Request :
       LET q == req[r]
           s == req'[r].reply
           b == BucketOf(q) IN
       /\ q.pc = "limit" /\ q.asked /\ req'[r].pc = "limit" /\ ~req'[r].asked /\ ~s.error
          => /\ ~s.blocked => window'[b].approved <= RuleOf(q).limit /\ now >= window[b].blockedUntil
             /\ s.blocked => now + s.retry * Second >= window'[b].blockedUntil
       /\ q.pc = "limit" /\ req'[r].outcome = "429" => req'[r].retry >= q.reply.retry]_vars

\* An admitted request passed every guard of its route: verified and provisioned unless public,
\* in the role, and with every rule approved, or waived because the storage failed and may.
AdmittedWasChecked ==
  \A r \in Request :
    LET q == req[r] IN
    q.outcome = "admitted" =>
      /\ ~q.route.public => q.user # NoUser /\ q.dbUser # NoUser
      /\ q.route.roles => q.user # NoUser /\ q.user.roles
      /\ q.approved \cup q.waived = DOMAIN q.route.rules
      /\ app.policy = "deny" => q.waived = {}

\* Issuers do not stand in for each other: a caller was verified with keys that the resolver gave
\* for its own issuer, be it earlier (see VerifiedAsResolved), and has roles only when the very
\* configuration resolved for this request trusts them, while the registry changes.
TrustIsPerIssuer ==
  \A r \in Request :
    LET q == req[r] IN
    q.user # NoUser =>
      IF app.mode = "static" THEN q.user.issuer = StaticIssuer /\ q.token.signedBy = StaticUri
      ELSE q.token.signedBy \in vouched[q.user.issuer] /\ (q.user.roles => resolved[r].trustRoles)

\* The user given to a request is the caller's own, by issuer and subject, and not older than the
\* lifetime of a cache entry and the time that provisioning takes.
UserIsCurrent ==
  \A r \in Request :
    LET q == req[r] IN
    q.dbUser # NoUser =>
      /\ q.dbUser.issuer = q.token.iss /\ q.dbUser.id = q.token.sub
      /\ q.servedAt - q.dbUser.at <= CacheTtl + Slow

\* Every request is answered: Redis, of which nothing is assumed, cannot hold one up.
RequestsSettle == \A r \in Request : req[r].pc # "idle" ~> req[r].pc = "done"

-----------------------------------------------------------------------------
(* What the documents say and the code does not do *)

\* src/auth/README.md:87: trust in dynamic mode rests on the "signature verification against the
\* resolved issuer's current key": the keys that a caller was verified with are those of the
\* configuration that was resolved for its request.
VerifiedAsResolved ==
  \A r \in Request :
    app.mode = "dynamic" /\ req[r].user # NoUser => req[r].token.signedBy = resolved[r].uri
=============================================================================
