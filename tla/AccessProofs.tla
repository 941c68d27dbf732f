----------------------------- MODULE AccessProofs -----------------------------
(***************************************************************************)
(* That the guards keep their invariant, and what follows from it, for any  *)
(* number of requests, applications, issuers and rules.                     *)
(***************************************************************************)
EXTENDS AccessInvariant, TLAPS

-----------------------------------------------------------------------------
(* The counters *)

\* A duration in whole seconds, rounded up, is not shorter (Math.ceil in increment).
LEMMA CeilCovers ==
  ASSUME NEW n \in Nat
  PROVE  CeilSeconds(n) \in Nat /\ CeilSeconds(n) * Second >= n
  <1>1. Second \in Nat /\ Second > 0
    BY ClockAssumption
  <1>2. PICK m \in Int : m = n + Second - 1
    BY <1>1
  <1>3. m >= 0
    BY <1>1, <1>2
  <1>4. m \div Second \in Int /\ m = Second * (m \div Second) + (m % Second) /\ m % Second \in 0..(Second - 1)
    BY <1>1, <1>2
  <1>. QED BY <1>1, <1>2, <1>3, <1>4 DEF CeilSeconds

\* A resolved rule has all its fields (RateLimitGuard.resolve).
LEMMA ResolveTyped ==
  ASSUME NEW rule \in Rule, Resolvable(rule)
  PROVE  Resolve(rule) \in ResolvedRule
  <1>1. Limits[rule.name] \in Definition \cup {Undefined}
    BY LimitsAssumption DEF Rule
  <1>2. Overrides(rule, Limits[rule.name], "limit") \in Nat
    BY <1>1, NoneAssumption DEF Overrides, Rule, Definition, Resolvable
  <1>3. Overrides(rule, Limits[rule.name], "ttl") \in Nat \ {0}
    BY <1>1, NoneAssumption DEF Overrides, Rule, Definition, Resolvable
  <1>4. Overrides(rule, Limits[rule.name], "block") \in Nat \cup {Undefined}
    BY <1>1, NoneAssumption DEF Overrides, Rule, Definition
  <1>5. Overrides(rule, Limits[rule.name], "key") \in {"identity", "ip", Undefined}
    BY <1>1, NoneAssumption DEF Overrides, Rule, Definition
  <1>. QED BY <1>2, <1>3, <1>4, <1>5, NoneAssumption DEF Resolve, ResolvedRule, Rule

\* What the script leaves and returns: under a block, over the limit, failing, or approved.
ScriptResult == [counted : BOOLEAN, hits : [count : Nat, expires : Nat \cup {NoExpiry}],
                 block : Nat \cup {NoExpiry}, reply : Reply]
Hit(count, expires, block, reply) ==
  [counted |-> TRUE, hits |-> [count |-> count, expires |-> expires], block |-> block, reply |-> reply]
Says(error, blocked, retry) == [error |-> error, blocked |-> blocked, retry |-> retry]
Counts(b, rule, count, expires) ==
  IF hits[b].expires # NoExpiry /\ now <= hits[b].expires
  THEN count = hits[b].count + 1 /\ expires = hits[b].expires
  ELSE count = 1 /\ expires = now + rule.ttl

\* One hit of a rule, in each case of the Redis script.
LEMMA ScriptCases ==
  ASSUME LimitTypeOK, NEW b \in Bucket, NEW rule \in ResolvedRule
  PROVE  \/ /\ blocks[b] \in Nat /\ now < blocks[b]
            /\ Script(b, rule) = [counted |-> FALSE, hits |-> hits[b], block |-> blocks[b],
                                  reply |-> Says(FALSE, TRUE, CeilSeconds(blocks[b] - now))]
         \/ /\ blocks[b] = NoExpiry \/ blocks[b] <= now
            /\ \E count, expires, block \in Nat :
                 /\ Counts(b, rule, count, expires) /\ now <= expires
                 /\ \/ /\ count > rule.limit /\ block > 0
                       /\ Script(b, rule) = Hit(count, expires, now + block, Says(FALSE, TRUE, CeilSeconds(block)))
                    \/ /\ count > rule.limit
                       /\ Script(b, rule) = Hit(count, expires, blocks[b], Says(TRUE, FALSE, 0))
                    \/ /\ count <= rule.limit
                       /\ Script(b, rule) = Hit(count, expires, blocks[b], Says(FALSE, FALSE, 0))
  <1>. USE ClockAssumption, NoneAssumption
  <1>1. now \in Nat /\ hits[b].count \in Nat /\ hits[b].expires \in Nat \cup {NoExpiry}
        /\ blocks[b] \in Nat \cup {NoExpiry}
    BY DEF LimitTypeOK
  <1>2. rule.limit \in Nat /\ rule.ttl \in Nat \ {0} /\ rule.block \in Nat
    BY DEF ResolvedRule
  <1>3. Pttl(blocks[b]) > 0 <=> blocks[b] \in Nat /\ now < blocks[b]
    BY <1>1 DEF Pttl
  <1>4. Pttl(hits[b].expires) >= 0 <=> hits[b].expires # NoExpiry /\ now <= hits[b].expires
    BY <1>1 DEF Pttl
  <1>5. CASE Pttl(blocks[b]) > 0
    <2>1. Pttl(blocks[b]) = blocks[b] - now
      BY <1>1, <1>3, <1>5 DEF Pttl
    <2>. QED BY <1>3, <1>5, <2>1 DEF Script, Says
  <1>6. CASE ~(Pttl(blocks[b]) > 0)
    <2>0. blocks[b] = NoExpiry \/ blocks[b] <= now
      BY <1>1, <1>3, <1>6
    <2>1. PICK count \in Nat : count = IF Pttl(hits[b].expires) >= 0 THEN hits[b].count + 1 ELSE 1
      BY <1>1
    <2>2. PICK expires \in Nat : expires = IF Pttl(hits[b].expires) >= 0 THEN hits[b].expires ELSE now + rule.ttl
      BY <1>1, <1>2, <1>4
    <2>3. Counts(b, rule, count, expires) /\ now <= expires
      BY <1>1, <1>2, <1>4, <2>1, <2>2 DEF Counts
    <2>4. PICK block \in Nat : block = IF rule.block > 0 THEN rule.block ELSE expires - now
      BY <1>1, <1>2, <2>3
    <2>5. CASE count > rule.limit /\ block # 0
      <3>1. Script(b, rule) =
              [counted |-> TRUE, hits |-> [count |-> count, expires |-> expires], block |-> now + block,
               reply |-> [error |-> FALSE, blocked |-> TRUE, retry |-> CeilSeconds(block)]]
        BY <1>6, <2>1, <2>2, <2>4, <2>5 DEF Script
      <3>2. block > 0
        BY <2>5
      <3>. QED BY <2>0, <2>3, <2>5, <3>1, <3>2 DEF Hit, Says
    <2>6. CASE count > rule.limit /\ block = 0
      <3>1. Script(b, rule) =
              [counted |-> TRUE, hits |-> [count |-> count, expires |-> expires], block |-> blocks[b],
               reply |-> [error |-> TRUE, blocked |-> FALSE, retry |-> 0]]
        BY <1>6, <2>1, <2>2, <2>4, <2>6 DEF Script
      <3>. QED BY <2>0, <2>3, <2>6, <3>1 DEF Hit, Says
    <2>7. CASE ~(count > rule.limit)
      <3>1. Script(b, rule) =
              [counted |-> TRUE, hits |-> [count |-> count, expires |-> expires], block |-> blocks[b],
               reply |-> [error |-> FALSE, blocked |-> FALSE, retry |-> 0]]
        BY <1>6, <2>1, <2>2, <2>4, <2>7 DEF Script
      <3>2. count <= rule.limit
        BY <1>2, <2>7
      <3>. QED BY <2>0, <2>3, <3>1, <3>2 DEF Hit, Says
    <2>. QED BY <1>2, <2>5, <2>6, <2>7
  <1>. QED BY <1>5, <1>6

\* A hit of a rule is well formed.
LEMMA ScriptTyped ==
  ASSUME LimitTypeOK, NEW b \in Bucket, NEW rule \in ResolvedRule
  PROVE  Script(b, rule) \in ScriptResult
  <1>1. now \in Nat /\ hits[b] \in [count : Nat, expires : Nat \cup {NoExpiry}]
        /\ blocks[b] \in Nat \cup {NoExpiry}
    BY ClockAssumption DEF LimitTypeOK
  <1>2. CASE /\ blocks[b] \in Nat /\ now < blocks[b]
             /\ Script(b, rule) = [counted |-> FALSE, hits |-> hits[b], block |-> blocks[b],
                                   reply |-> Says(FALSE, TRUE, CeilSeconds(blocks[b] - now))]
    <2>1. CeilSeconds(blocks[b] - now) \in Nat
      BY <1>1, <1>2, CeilCovers
    <2>. QED BY <1>1, <1>2, <2>1 DEF ScriptResult, Reply, Says
  <1>3. ASSUME NEW count \in Nat, NEW expires \in Nat, NEW block \in Nat,
               Script(b, rule) = Hit(count, expires, now + block, Says(FALSE, TRUE, CeilSeconds(block)))
        PROVE  Script(b, rule) \in ScriptResult
    <2>1. CeilSeconds(block) \in Nat
      BY CeilCovers
    <2>. QED BY <1>1, <1>3, <2>1 DEF ScriptResult, Reply, Says, Hit
  <1>4. ASSUME NEW count \in Nat, NEW expires \in Nat, NEW error \in BOOLEAN,
               Script(b, rule) = Hit(count, expires, blocks[b], Says(error, FALSE, 0))
        PROVE  Script(b, rule) \in ScriptResult
    BY <1>1, <1>4 DEF ScriptResult, Reply, Says, Hit
  <1>. QED BY ScriptCases, <1>2, <1>3, <1>4

\* What a hit leaves of its bucket, and that it leaves the other ones alone.
Window == [ends : Int, approved : Nat, blockedUntil : Nat]
LEMMA IncrementIs ==
  ASSUME LimitTypeOK, NEW b \in Bucket, NEW rule \in ResolvedRule, NEW s \in ScriptResult,
         s = Script(b, rule), Increment(b, rule)
  PROVE  \E w \in Window :
           /\ hits' = [hits EXCEPT ![b] = s.hits] /\ blocks' = [blocks EXCEPT ![b] = s.block]
           /\ window' = [window EXCEPT ![b] = w]
           /\ w.ends = IF s.counted /\ now > window[b].ends THEN now + rule.ttl ELSE window[b].ends
           /\ w.approved = (IF s.counted /\ now > window[b].ends THEN 0 ELSE window[b].approved)
                           + (IF Approves(s) THEN 1 ELSE 0)
           /\ w.blockedUntil = IF s.reply.blocked /\ s.counted THEN s.block ELSE window[b].blockedUntil
  <1>1. now \in Nat /\ rule.ttl \in Nat /\ window \in [Bucket -> Window]
    BY ClockAssumption DEF LimitTypeOK, ResolvedRule, Window
  <1>2. PICK ends \in Int : ends = IF s.counted /\ now > window[b].ends THEN now + rule.ttl ELSE window[b].ends
    BY <1>1 DEF Window
  <1>3. PICK approved \in Nat :
          approved = (IF s.counted /\ now > window[b].ends THEN 0 ELSE window[b].approved)
                     + (IF Approves(s) THEN 1 ELSE 0)
    BY <1>1 DEF Window
  <1>4. s.reply.blocked /\ s.counted => s.block \in Nat
    <2>1. now \in Nat
      BY <1>1
    <2>. QED BY <2>1, ScriptCases, NoneAssumption DEF Hit, Says
  <1>5. PICK blockedUntil \in Nat :
          blockedUntil = IF s.reply.blocked /\ s.counted THEN s.block ELSE window[b].blockedUntil
    BY <1>1, <1>4 DEF Window
  <1>6. window' = [window EXCEPT ![b] = [ends |-> ends, approved |-> approved, blockedUntil |-> blockedUntil]]
    BY <1>2, <1>3, <1>5 DEF Increment
  <1>7. hits' = [hits EXCEPT ![b] = s.hits] /\ blocks' = [blocks EXCEPT ![b] = s.block]
    BY DEF Increment
  <1>8. [ends |-> ends, approved |-> approved, blockedUntil |-> blockedUntil] \in Window
    BY DEF Window
  <1>. QED BY <1>2, <1>3, <1>5, <1>6, <1>7, <1>8

\* The counters stay well formed.
LEMMA IncrementTyped ==
  ASSUME LimitTypeOK, NEW b \in Bucket, NEW rule \in ResolvedRule, Increment(b, rule), now' = now
  PROVE  LimitTypeOK'
  <1>1. PICK s \in ScriptResult : s = Script(b, rule)
    BY ScriptTyped
  <1>2. PICK w \in Window : /\ hits' = [hits EXCEPT ![b] = s.hits] /\ blocks' = [blocks EXCEPT ![b] = s.block]
                            /\ window' = [window EXCEPT ![b] = w]
    BY <1>1, IncrementIs
  <1>. QED BY <1>2 DEF LimitTypeOK, ScriptResult, Window

\* The hits key still lives for the window and counts its approvals, and the block key is still
\* the block that was promised; and what the hit returns keeps to the limit and to the block.
LEMMA IncrementCounts ==
  ASSUME LimitTypeOK, Counted, NEW b \in Bucket, NEW rule \in ResolvedRule, Increment(b, rule), now' = now
  PROVE  /\ Counted'
         /\ LET s == Script(b, rule).reply IN
            ~s.error =>
              /\ ~s.blocked => window'[b].approved <= rule.limit /\ now >= window[b].blockedUntil
              /\ s.blocked => now + s.retry * Second >= window'[b].blockedUntil
  <1>1. PICK s \in ScriptResult : s = Script(b, rule)
    BY ScriptTyped
  <1>2. PICK w \in Window :
          /\ hits' = [hits EXCEPT ![b] = s.hits] /\ blocks' = [blocks EXCEPT ![b] = s.block]
          /\ window' = [window EXCEPT ![b] = w]
          /\ w.ends = IF s.counted /\ now > window[b].ends THEN now + rule.ttl ELSE window[b].ends
          /\ w.approved = (IF s.counted /\ now > window[b].ends THEN 0 ELSE window[b].approved)
                          + (IF Approves(s) THEN 1 ELSE 0)
          /\ w.blockedUntil = IF s.reply.blocked /\ s.counted THEN s.block ELSE window[b].blockedUntil
    BY <1>1, IncrementIs
  <1>3. /\ now \in Nat /\ rule.ttl \in Nat /\ rule.limit \in Nat
        /\ hits[b] \in [count : Nat, expires : Nat \cup {NoExpiry}] /\ blocks[b] \in Nat \cup {NoExpiry}
        /\ window[b] \in Window
    BY ClockAssumption DEF LimitTypeOK, ResolvedRule, Window
  <1>4. /\ hits'[b] = s.hits /\ blocks'[b] = s.block /\ window'[b] = w
        /\ \A c \in Bucket : c # b => hits'[c] = hits[c] /\ blocks'[c] = blocks[c] /\ window'[c] = window[c]
    BY <1>2 DEF LimitTypeOK
  <1>5. /\ hits[b].expires = NoExpiry => window[b].ends = -1
        /\ hits[b].expires # NoExpiry =>
             window[b].ends = hits[b].expires /\ window[b].approved <= hits[b].count
        /\ window[b].blockedUntil = IF blocks[b] = NoExpiry THEN 0 ELSE blocks[b]
    BY DEF Counted
  <1> DEFINE Kept == /\ s.hits.expires = NoExpiry => w.ends = -1
                     /\ s.hits.expires # NoExpiry => w.ends = s.hits.expires /\ w.approved <= s.hits.count
                     /\ w.blockedUntil = IF s.block = NoExpiry THEN 0 ELSE s.block
             Honest == ~s.reply.error =>
                         /\ ~s.reply.blocked => w.approved <= rule.limit /\ now >= window[b].blockedUntil
                         /\ s.reply.blocked => now + s.reply.retry * Second >= w.blockedUntil
  <1>6. ASSUME blocks[b] \in Nat, now < blocks[b],
               s = [counted |-> FALSE, hits |-> hits[b], block |-> blocks[b],
                    reply |-> Says(FALSE, TRUE, CeilSeconds(blocks[b] - now))]
        PROVE  Kept /\ Honest
    <2>1. CeilSeconds(blocks[b] - now) \in Nat /\ CeilSeconds(blocks[b] - now) * Second >= blocks[b] - now
      BY <1>3, <1>6, CeilCovers
    <2>2. s.reply.blocked /\ ~s.counted /\ s.hits = hits[b] /\ s.block = blocks[b]
          /\ s.reply.retry = CeilSeconds(blocks[b] - now)
      BY <1>6 DEF Says
    <2>3. ~Approves(s)
      BY <2>2 DEF Approves
    <2>4. w.ends = window[b].ends /\ w.approved = window[b].approved /\ w.blockedUntil = window[b].blockedUntil
      BY <1>2, <1>3, <2>2, <2>3 DEF Window
    <2>5. Kept
      BY <1>5, <2>2, <2>4
    <2>6. w.blockedUntil = blocks[b]
      BY <1>5, <1>6, <2>4, NoneAssumption
    <2>7. PICK covered \in Int : covered = CeilSeconds(blocks[b] - now) * Second
      BY <2>1, ClockAssumption
    <2>8. now + covered >= blocks[b]
      BY <1>3, <1>6, <2>1, <2>7
    <2>9. s.reply.retry * Second = covered
      BY <2>2, <2>7
    <2>10. Honest
      BY <2>2, <2>6, <2>8, <2>9
    <2>. QED BY <2>5, <2>10
  <1>7. ASSUME blocks[b] = NoExpiry \/ blocks[b] <= now,
               NEW count \in Nat, NEW expires \in Nat, NEW block \in Nat, Counts(b, rule, count, expires),
               now <= expires,
               \/ /\ count > rule.limit /\ block > 0
                  /\ s = Hit(count, expires, now + block, Says(FALSE, TRUE, CeilSeconds(block)))
               \/ /\ count > rule.limit
                  /\ s = Hit(count, expires, blocks[b], Says(TRUE, FALSE, 0))
               \/ /\ count <= rule.limit
                  /\ s = Hit(count, expires, blocks[b], Says(FALSE, FALSE, 0))
        PROVE  Kept /\ Honest
    <2>0. PICK left, reply : s = Hit(count, expires, left, reply)
      BY <1>7
    <2>1. s.counted /\ s.hits.count = count /\ s.hits.expires = expires
      BY <2>0 DEF Hit
    <2>2. w.ends = expires
      BY <1>2, <1>3, <1>5, <1>7, <2>1, NoneAssumption DEF Counts, Window
    <2>3. w.approved <= count
      BY <1>2, <1>3, <1>5, <1>7, <2>1, NoneAssumption DEF Counts, Window
    <2>4. CASE /\ count > rule.limit /\ block > 0
               /\ s = Hit(count, expires, now + block, Says(FALSE, TRUE, CeilSeconds(block)))
      <3>1. s.reply.blocked /\ ~s.reply.error /\ s.reply.retry = CeilSeconds(block) /\ s.block = now + block
        BY <2>4 DEF Hit, Says
      <3>2. w.blockedUntil = now + block /\ now + block # NoExpiry
        BY <1>2, <1>3, <2>1, <3>1, NoneAssumption
      <3>3. CeilSeconds(block) \in Nat /\ CeilSeconds(block) * Second >= block
        BY CeilCovers
      <3>4. PICK covered \in Int : covered = CeilSeconds(block) * Second
        BY <3>3, ClockAssumption
      <3>. QED BY <1>3, <2>1, <2>2, <2>3, <3>1, <3>2, <3>3, <3>4, NoneAssumption
    <2>5. CASE s = Hit(count, expires, blocks[b], Says(TRUE, FALSE, 0))
      <3>1. ~s.reply.blocked /\ s.reply.error /\ s.block = blocks[b]
        BY <2>5 DEF Hit, Says
      <3>2. w.blockedUntil = window[b].blockedUntil
        BY <1>2, <3>1
      <3>. QED BY <1>5, <2>1, <2>2, <2>3, <3>1, <3>2, NoneAssumption
    <2>6. CASE count <= rule.limit /\ s = Hit(count, expires, blocks[b], Says(FALSE, FALSE, 0))
      <3>1. ~s.reply.blocked /\ ~s.reply.error /\ s.block = blocks[b]
        BY <2>6 DEF Hit, Says
      <3>2. w.blockedUntil = window[b].blockedUntil
        BY <1>2, <3>1
      <3>3. w.approved <= rule.limit
        BY <1>3, <2>3, <2>6 DEF Window
      <3>4. now >= window[b].blockedUntil
        BY <1>3, <1>5, <1>7
      <3>. QED BY <1>5, <2>1, <2>2, <2>3, <3>1, <3>2, <3>3, <3>4, NoneAssumption
    <2>. QED BY <1>7, <2>4, <2>5, <2>6
  <1>8. Kept /\ Honest
    <2> HIDE DEF Kept, Honest
    <2>. QED BY <1>1, <1>6, <1>7, ScriptCases
  <1>9. Counted'
    BY <1>4, <1>5, <1>8 DEF Counted
  <1>. QED BY <1>1, <1>4, <1>8, <1>9

-----------------------------------------------------------------------------
(* A request, by its value *)

Checked(q) ==
  q.outcome = "admitted" =>
    /\ Cleared(q)
    /\ q.approved \cup q.waived = DOMAIN q.route.rules
    /\ app.policy = "deny" => q.waived = {}
Current(q) ==
  q.dbUser # NoUser =>
    /\ q.dbUser.issuer = q.token.iss /\ q.dbUser.id = q.token.sub
    /\ q.servedAt - q.dbUser.at <= CacheTtl + Slow
Sound(q) == Known(q) /\ Passed(q) /\ Timely(q) /\ Checked(q) /\ Current(q)
Same(p, q) == p.token = q.token /\ p.route = q.route /\ p.uri = q.uri /\ p.user = q.user

\* The options that a request meets are those of an application.
LEMMA RouteTyped ==
  ASSUME TypeOK, NEW q \in RequestState, q.route # NoConfig
  PROVE  /\ q.route \in app.routes /\ q.route \in Route
         /\ app.mode \in {"static", "dynamic"} /\ app.cached \in BOOLEAN /\ app.policy \in {"allow", "deny"}
         /\ Len(q.route.rules) \in Nat /\ DOMAIN q.route.rules = 1..Len(q.route.rules)
         /\ \A k \in DOMAIN q.route.rules : q.route.rules[k] \in Rule
  <1>1. app \in [mode : {"static", "dynamic"}, cached : BOOLEAN, policy : {"allow", "deny"},
                 load : 0..Requests, tokens : SUBSET Token, routes : SUBSET Route]
    BY AppAssumption DEF TypeOK
  <1>2. q.route \in Route /\ q.route \in app.routes
    BY <1>1 DEF RequestState
  <1>3. q.route.rules \in Seq(Rule)
    BY <1>2 DEF Route
  <1>. QED BY <1>1, <1>2, <1>3

\* A command to Redis is for a resolved rule, in the counter of the caller or of the address.
LEMMA BucketTyped ==
  ASSUME TypeOK, NEW q \in RequestState, q.route # NoConfig, q.ip \in Ip,
         q.rule \in DOMAIN q.route.rules, Resolvable(q.route.rules[q.rule])
  PROVE  RuleOf(q) \in ResolvedRule /\ BucketOf(q) \in Bucket
  <1>1. RuleOf(q) \in ResolvedRule
    BY RouteTyped, ResolveTyped DEF RuleOf
  <1>2. q.user # NoUser => <<q.user.issuer, q.user.id>> \in Identity
    BY DEF RequestState, User, Identity
  <1>3. TrackerOf(q, RuleOf(q)) \in Tracker
    BY <1>2, TrackerAssumption DEF TrackerOf
  <1>. QED BY <1>1, <1>3 DEF BucketOf, Bucket, ResolvedRule

\* A refusal.
LEMMA RejectedSound ==
  ASSUME NEW q \in RequestState, NEW outcome \in Outcome \ {"none", "admitted"},
         q.route # NoConfig, q.ip \in Ip, Caller(q), Current(q), app.policy = "deny" => q.waived = {}
  PROVE  /\ Rejected(q, outcome) \in RequestState /\ Sound(Rejected(q, outcome))
         /\ Same(Rejected(q, outcome), q) /\ Rejected(q, outcome).pc = "done"
         /\ Rejected(q, outcome).outcome = outcome
  <1>1. PICK p : p = Rejected(q, outcome)
    OBVIOUS
  <1>2. /\ p.pc = "done" /\ p.outcome = outcome /\ p.token = q.token /\ p.route = q.route /\ p.ip = q.ip
        /\ p.uri = q.uri /\ p.user = q.user /\ p.dbUser = q.dbUser /\ p.servedAt = q.servedAt
        /\ p.waived = q.waived
    BY <1>1 DEF Rejected, RequestState
  <1>3. p \in RequestState
    BY <1>1 DEF Rejected, RequestState, Pc
  <1>4. Known(p)
    BY <1>2 DEF Known, Caller
  <1>5. Passed(p) /\ Timely(p) /\ Checked(p) /\ Current(p)
    BY <1>2 DEF Passed, Timely, Checked, Current
  <1>. QED BY <1>1, <1>2, <1>3, <1>4, <1>5 DEF Sound, Same

\* The next rule, or the way through.
LEMMA AsksSound ==
  ASSUME TypeOK, NEW q \in RequestState, NEW n \in Nat, n > 0, n <= Len(q.route.rules) + 1,
         q.route # NoConfig, q.ip \in Ip, Caller(q), Current(q), q.outcome = "none",
         app.policy = "deny" => q.waived = {}, Cleared(q),
         \A k \in DOMAIN q.route.rules : Resolvable(q.route.rules[k]),
         q.approved \cup q.waived = 1..(n - 1)
  PROVE  /\ Asks(q, n) \in RequestState /\ Sound(Asks(q, n)) /\ Same(Asks(q, n), q)
         /\ Asks(q, n).outcome \in {"none", "admitted"}
         /\ Asks(q, n).pc = "limit" => Asks(q, n).asked
  <1>1. Len(q.route.rules) \in Nat /\ DOMAIN q.route.rules = 1..Len(q.route.rules)
    BY RouteTyped
  <1>2. CASE n > Len(q.route.rules)
    <2>1. PICK p : p = Asks(q, n)
      OBVIOUS
    <2>2. p = [q EXCEPT !.pc = "done", !.outcome = "admitted"]
      BY <1>2, <2>1 DEF Asks
    <2>3. /\ p.pc = "done" /\ p.outcome = "admitted" /\ p.token = q.token /\ p.route = q.route
          /\ p.ip = q.ip /\ p.uri = q.uri /\ p.user = q.user /\ p.dbUser = q.dbUser
          /\ p.servedAt = q.servedAt /\ p.waived = q.waived /\ p.approved = q.approved
      BY <2>2 DEF RequestState
    <2>4. p \in RequestState
      BY <2>2 DEF RequestState, Pc, Outcome
    <2>5. Known(p)
      BY <2>3 DEF Known, Caller
    <2>6. Passed(p) /\ Timely(p) /\ Current(p)
      BY <2>3 DEF Passed, Timely, Current
    <2>7. n - 1 = Len(q.route.rules)
      BY <1>1, <1>2
    <2>8. Checked(p)
      BY <1>1, <2>3, <2>7 DEF Checked, Cleared
    <2>. QED BY <2>1, <2>3, <2>4, <2>5, <2>6, <2>8 DEF Sound, Same
  <1>3. CASE ~(n > Len(q.route.rules))
    <2>1. PICK p : p = Asks(q, n)
      OBVIOUS
    <2>2. p = [q EXCEPT !.pc = "limit", !.rule = n, !.asked = TRUE, !.reply = NoEntry]
      BY <1>3, <2>1 DEF Asks
    <2>3. /\ p.pc = "limit" /\ p.outcome = "none" /\ p.token = q.token /\ p.route = q.route
          /\ p.ip = q.ip /\ p.uri = q.uri /\ p.user = q.user /\ p.dbUser = q.dbUser
          /\ p.servedAt = q.servedAt /\ p.waived = q.waived /\ p.approved = q.approved /\ p.rule = n
          /\ p.asked
      BY <2>2 DEF RequestState
    <2>4. p \in RequestState
      BY <2>2 DEF RequestState, Pc
    <2>5. Known(p)
      BY <2>3 DEF Known, Caller
    <2>6. n \in DOMAIN q.route.rules
      BY <1>1, <1>3
    <2>7. Passed(p)
      BY <2>3, <2>6 DEF Passed, Cleared
    <2>8. Timely(p) /\ Checked(p) /\ Current(p)
      BY <2>3 DEF Timely, Checked, Current
    <2>. QED BY <2>1, <2>3, <2>4, <2>5, <2>7, <2>8 DEF Sound, Same
  <1>. QED BY <1>2, <1>3

\* RolesGuard and RateLimitGuard up to their first answer.
LEMMA GuardedSound ==
  ASSUME TypeOK, NEW q \in RequestState,
         q.route # NoConfig, q.ip \in Ip, Caller(q), Current(q), q.outcome = "none",
         q.approved = {}, q.waived = {}, ~q.route.public => q.user # NoUser /\ q.dbUser # NoUser
  PROVE  Guarded(q) \in RequestState /\ Sound(Guarded(q)) /\ Same(Guarded(q), q)
  <1>1. CASE q.route.roles /\ (q.user = NoUser \/ ~q.user.roles)
    BY <1>1, RejectedSound DEF Guarded, Outcome
  <1>2. CASE ~(q.route.roles /\ (q.user = NoUser \/ ~q.user.roles))
    <2>1. Cleared(q)
      BY <1>2 DEF Cleared
    <2>2. CASE \E k \in DOMAIN q.route.rules : ~Resolvable(q.route.rules[k])
      BY <1>2, <2>2, RejectedSound DEF Guarded, Limited, Outcome
    <2>3. CASE ~(\E k \in DOMAIN q.route.rules : ~Resolvable(q.route.rules[k]))
      <3>1. Len(q.route.rules) \in Nat
        BY RouteTyped
      <3>2. q.approved \cup q.waived = 1..(1 - 1)
        OBVIOUS
      <3>3. Asks(q, 1) \in RequestState /\ Sound(Asks(q, 1)) /\ Same(Asks(q, 1), q)
        BY <2>1, <2>3, <3>1, <3>2, AsksSound
      <3>. QED BY <1>2, <2>3, <3>3 DEF Guarded, Limited
    <2>. QED BY <2>2, <2>3
  <1>. QED BY <1>1, <1>2

-----------------------------------------------------------------------------
(* A step of one request among the others *)

AuthTypeOK ==
  /\ registry \in [Issuer -> Config \cup {NoConfig}] /\ clients \in [Issuer -> Uri \cup {NoConfig}]
  /\ resolved \in [Request -> Config \cup {NoConfig}] /\ vouched \in [Issuer -> SUBSET Uri]
  /\ changes \in Nat
CacheTypeOK == cache \in [Identity -> Entry \cup {NoEntry}]

\* What a request relies on of the issuer registry's answers, at the await of its key and after.
Trusting(p, r) ==
  /\ p.pc = "resolving" => app.mode = "dynamic"
  /\ p.pc = "key" =>
       IF app.mode = "static" THEN p.uri = StaticUri
       ELSE resolved[r] # NoConfig /\ clients[p.token.iss] # NoConfig /\ p.uri = clients[p.token.iss]
  /\ p.user # NoUser =>
       IF app.mode = "static" THEN p.user.issuer = StaticIssuer /\ p.token.signedBy = StaticUri
       ELSE p.token.signedBy \in vouched[p.user.issuer] /\ (p.user.roles => resolved[r].trustRoles)

\* What the invariant says of one request.
LEMMA RequestHolds ==
  ASSUME IInv, NEW r \in Request
  PROVE  req[r] \in RequestState /\ Sound(req[r]) /\ Trusting(req[r], r)
  <1>1. req[r] \in RequestState
    BY DEF IInv, TypeOK
  <1>2. Known(req[r]) /\ Passed(req[r]) /\ Timely(req[r]) /\ Vouched(r)
    BY DEF IInv, Passage
  <1>3. Checked(req[r])
    BY DEF IInv, AdmittedWasChecked, Checked, Cleared
  <1>4. Current(req[r])
    BY DEF IInv, UserIsCurrent, Current
  <1>5. Trusting(req[r], r)
    BY <1>2 DEF IInv, TrustIsPerIssuer, Vouched, Trusting
  <1>. QED BY <1>1, <1>2, <1>3, <1>4, <1>5 DEF Sound

\* A request that moves leaves the other ones what they rely on: the keys of an issuer once
\* there are not replaced, and what was resolved for a request is its own.
LEMMA RequestMoves ==
  ASSUME IInv, NEW r \in Request, NEW p \in RequestState, Sound(p), Trusting(p, r)',
         req' = [req EXCEPT ![r] = p], now' = now, app' = app,
         LimitTypeOK', AuthTypeOK', CacheTypeOK', Clients', Cached', Counted',
         \A i \in Issuer : /\ clients[i] # NoConfig => clients'[i] = clients[i]
                           /\ vouched[i] \subseteq vouched'[i],
         \A s \in Request : s # r => resolved'[s] = resolved[s],
         p.route = req[r].route \/ req[r].route = NoConfig,
         late' \subseteq Request \X Nat, faults' \in Nat,
         \A command \in late' :
           \/ command \in late
           \/ /\ command[1] = r /\ p.route # NoConfig /\ command[2] \in DOMAIN p.route.rules
              /\ \A k \in DOMAIN p.route.rules : Resolvable(p.route.rules[k])
  PROVE  IInv'
  <1>1. /\ req \in [Request -> RequestState] /\ req'[r] = p
        /\ \A s \in Request : s # r => req'[s] = req[s]
    BY DEF IInv, TypeOK
  <1>2. TypeOK'
    <2>1. (req \in [Request -> RequestState])'
      BY <1>1 DEF RequestState
    <2>2. (app \in App)'
      BY DEF IInv, TypeOK
    <2>. QED BY <2>1, <2>2 DEF TypeOK, AuthTypeOK, CacheTypeOK
  <1>3. ASSUME NEW s \in Request PROVE Sound(req[s])'
    <2>1. PICK q : q = req'[s]
      OBVIOUS
    <2>2. Sound(q)
      <3>1. CASE s = r
        BY <1>1, <2>1, <3>1
      <3>2. CASE s # r
        BY <1>1, <2>1, <3>2, RequestHolds
      <3>. QED BY <3>1, <3>2
    <2>. QED BY <2>1, <2>2 DEF Sound, Known, Caller, Passed, Cleared, Timely, Checked, Current
  <1>4. ASSUME NEW s \in Request PROVE Trusting(req[s], s)'
    <2>1. CASE s = r
      BY <1>1, <2>1 DEF Trusting
    <2>2. CASE s # r
      <3>1. req'[s] = req[s] /\ resolved'[s] = resolved[s]
        BY <1>1, <2>2
      <3>2. Trusting(req[s], s) /\ Known(req[s]) /\ req[s] \in RequestState
        BY RequestHolds DEF Sound
      <3>3. req[s].pc = "key" => req[s].token.iss \in Issuer
        BY <3>2, TokenAssumption DEF Known
      <3>4. req[s].user # NoUser => req[s].user.issuer \in Issuer
        BY <3>2 DEF RequestState, User
      <3>. QED BY <3>1, <3>2, <3>3, <3>4 DEF Trusting
    <2>. QED BY <2>1, <2>2
  <1>5. Sent'
    <2>1. SUFFICES ASSUME NEW command \in late'
                   PROVE  LET q == req'[command[1]] IN
                          /\ q.route # NoConfig /\ command[2] \in DOMAIN q.route.rules
                          /\ \A k \in DOMAIN q.route.rules : Resolvable(q.route.rules[k])
      BY DEF Sent, Resolvable, Overrides
    <2>2. command[1] \in Request
      OBVIOUS
    <2>3. CASE command \in late
      <3>1. LET q == req[command[1]] IN
            /\ q.route # NoConfig /\ command[2] \in DOMAIN q.route.rules
            /\ \A k \in DOMAIN q.route.rules : Resolvable(q.route.rules[k])
        BY <2>3 DEF IInv, Shared, Sent
      <3>2. req'[command[1]].route = req[command[1]].route
        BY <1>1, <2>2, <3>1
      <3>. QED BY <3>1, <3>2
    <2>4. CASE command \notin late
      BY <1>1, <2>4
    <2>. QED BY <2>3, <2>4
  <1>6. Shared'
    BY <1>5 DEF Shared
  <1>7. (\A s \in Request : Sound(req[s]) /\ Trusting(req[s], s))'
    BY <1>3, <1>4
  <1>. QED
    <2>1. Passage'
      BY <1>7 DEF Passage, Sound, Trusting, Vouched
    <2>2. AdmittedWasChecked'
      BY <1>7 DEF AdmittedWasChecked, Sound, Checked, Cleared
    <2>3. UserIsCurrent'
      BY <1>7 DEF UserIsCurrent, Sound, Current
    <2>4. TrustIsPerIssuer'
      BY <1>7 DEF TrustIsPerIssuer, Trusting
    <2>. QED BY <1>2, <1>6, <2>1, <2>2, <2>3, <2>4 DEF IInv

\* A step that changes nothing but the request itself.
LEMMA RequestMovesAlone ==
  ASSUME IInv, NEW r \in Request, NEW p \in RequestState, Sound(p), Trusting(p, r),
         req' = [req EXCEPT ![r] = p], p.route = req[r].route \/ req[r].route = NoConfig,
         UNCHANGED <<now, limitVars, app, authVars, cache>>,
         late' \subseteq Request \X Nat, faults' \in Nat,
         \A command \in late' :
           \/ command \in late
           \/ /\ command[1] = r /\ p.route # NoConfig /\ command[2] \in DOMAIN p.route.rules
              /\ \A k \in DOMAIN p.route.rules : Resolvable(p.route.rules[k])
  PROVE  IInv'
  <1>1. LimitTypeOK' /\ Counted'
    BY DEF IInv, TypeOK, Shared, LimitTypeOK, Counted, limitVars
  <1>2. AuthTypeOK' /\ Clients'
    BY DEF IInv, TypeOK, Shared, AuthTypeOK, Clients, authVars
  <1>3. CacheTypeOK' /\ Cached'
    BY DEF IInv, TypeOK, Shared, CacheTypeOK, Cached
  <1>4. Trusting(p, r)'
    BY DEF Trusting, authVars
  <1>5. \A i \in Issuer : /\ clients[i] # NoConfig => clients'[i] = clients[i]
                          /\ vouched[i] \subseteq vouched'[i]
    BY DEF authVars
  <1>6. \A s \in Request : s # r => resolved'[s] = resolved[s]
    BY DEF authVars
  <1>. QED BY <1>1, <1>2, <1>3, <1>4, <1>5, <1>6, RequestMoves

\* A caller who is known stays the one who was trusted.
LEMMA StillTrusted ==
  ASSUME IInv, NEW r \in Request, NEW p, p.pc \notin {"resolving", "key"}, Same(p, req[r])
  PROVE  Trusting(p, r)
  BY RequestHolds DEF Trusting, Same

\* A refusal of a request under way.
LEMMA RejectsKeeps ==
  ASSUME IInv, NEW r \in Request, req[r].pc # "idle",
         NEW outcome \in Outcome \ {"none", "admitted"}, Rejects(r, outcome),
         UNCHANGED <<now, limitVars, app, authVars, cache, late>>, faults' \in Nat
  PROVE  IInv'
  <1>1. req[r] \in RequestState /\ Sound(req[r])
    BY RequestHolds
  <1>2. PICK p : p = Rejected(req[r], outcome)
    OBVIOUS
  <1>3. req[r].route # NoConfig /\ req[r].ip \in Ip /\ Caller(req[r]) /\ Current(req[r])
        /\ (app.policy = "deny" => req[r].waived = {})
    BY <1>1 DEF Sound, Known, Passed
  <1>4. p \in RequestState /\ Sound(p) /\ Same(p, req[r]) /\ p.pc = "done"
    BY <1>1, <1>2, <1>3, RejectedSound
  <1>5. Trusting(p, r)
    BY <1>4, StillTrusted
  <1>6. req' = [req EXCEPT ![r] = p]
    BY <1>2 DEF Rejects, Becomes
  <1>7. late' \subseteq Request \X Nat /\ late' = late
    BY DEF IInv, TypeOK
  <1>. QED BY <1>4, <1>5, <1>6, <1>7, RequestMovesAlone DEF Same

\* A fault is counted.
LEMMA FaultTyped ==
  ASSUME IInv, Fault
  PROVE  faults' \in Nat
  BY DEF IInv, TypeOK, Fault

\* The resolver or the key client fails.
LEMMA AuthFailsKeeps ==
  ASSUME IInv, NEW r \in Request, AuthFails(r)
  PROVE  IInv'
  <1>1. faults' \in Nat
    BY FaultTyped DEF AuthFails
  <1>. QED BY <1>1, RejectsKeeps DEF AuthFails, Outcome

\* The provisioner or the cache fails, or does not know the user.
LEMMA ProvisioningFailsKeeps ==
  ASSUME IInv, NEW r \in Request, ProvisioningFails(r)
  PROVE  IInv'
  <1>1. faults' \in Nat
    BY FaultTyped DEF ProvisioningFails
  <1>2. CASE req[r].pc = "provisioning" /\ Rejects(r, "401")
    BY <1>1, <1>2, RejectsKeeps DEF ProvisioningFails, Outcome
  <1>3. CASE req[r].pc \in {"cacheGet", "provisioning", "cacheSet"} /\ Rejects(r, "500")
    BY <1>1, <1>3, RejectsKeeps DEF ProvisioningFails, Outcome
  <1>. QED BY <1>2, <1>3 DEF ProvisioningFails

\* A request arrives: public, without a token, or on its way to a key.
LEMMA ArriveKeeps ==
  ASSUME IInv, NEW r \in Request, NEW token \in app.tokens \cup {NoToken}, NEW route \in app.routes,
         NEW ip \in Ip, Arrive(r, token, route, ip)
  PROVE  IInv'
  <1>1. /\ app \in App /\ token \in Token \cup {NoToken} /\ route \in Route
        /\ app.mode \in {"static", "dynamic"}
    BY AppAssumption DEF IInv, TypeOK
  <1>2. PICK q : q = [Idle EXCEPT !.token = token, !.route = route, !.ip = ip]
    OBVIOUS
  <1>3. /\ q.token = token /\ q.route = route /\ q.ip = ip /\ q.user = NoUser /\ q.dbUser = NoUser
        /\ q.outcome = "none" /\ q.approved = {} /\ q.waived = {} /\ q.uri = StaticUri
    BY <1>2 DEF Idle
  <1>4. q \in RequestState
    BY <1>1, <1>2, StaticAssumption DEF Idle, RequestState, Pc, Outcome
  <1>5. route # NoConfig
    BY <1>1, NothingAssumption
  <1>6. Caller(q) /\ Current(q)
    BY <1>3 DEF Caller, Current
  <1>7. req[r].route = NoConfig /\ req[r].pc = "idle"
    BY RequestHolds DEF Arrive, Sound, Known
  <1>8. late' \subseteq Request \X Nat /\ late' = late /\ faults' \in Nat
    BY DEF IInv, TypeOK, Arrive
  <1> DEFINE p == IF route.public THEN Guarded(q)
                  ELSE IF token = NoToken THEN Rejected(q, "401")
                  ELSE IF app.mode = "dynamic" THEN [q EXCEPT !.pc = "resolving"]
                  ELSE [q EXCEPT !.pc = "key", !.uri = StaticUri]
  <1>9. req' = [req EXCEPT ![r] = p]
    BY <1>2 DEF Arrive, Becomes
  <1>10. p \in RequestState /\ Sound(p) /\ Trusting(p, r)
    <2>1. CASE route.public
      <3>1. p \in RequestState /\ Sound(p) /\ Same(p, q)
        BY <1>3, <1>4, <1>5, <1>6, <2>1, GuardedSound DEF IInv
      <3>2. p.pc \in {"done", "limit"}
        BY <2>1 DEF Guarded, Limited, Asks, Rejected
      <3>3. Trusting(p, r)
        BY <1>3, <3>1, <3>2 DEF Trusting, Same
      <3>. QED BY <3>1, <3>3
    <2>2. CASE ~route.public /\ token = NoToken
      <3>1. p \in RequestState /\ Sound(p) /\ Same(p, q) /\ p.pc = "done"
        BY <1>3, <1>4, <1>5, <1>6, <2>2, RejectedSound DEF Outcome
      <3>2. Trusting(p, r)
        BY <1>3, <3>1 DEF Trusting, Same
      <3>. QED BY <3>1, <3>2
    <2>3. CASE ~route.public /\ token # NoToken /\ app.mode = "dynamic"
      <3>1. p = [q EXCEPT !.pc = "resolving"]
        BY <2>3
      <3> HIDE DEF p
      <3>2. p \in RequestState
        BY <1>4, <3>1 DEF RequestState, Pc
      <3>3. /\ p.pc = "resolving" /\ p.token = token /\ p.route = route /\ p.ip = ip /\ p.user = NoUser
            /\ p.dbUser = NoUser /\ p.outcome = "none" /\ p.approved = {} /\ p.waived = {}
        BY <1>3, <1>4, <3>1 DEF RequestState
      <3>4. Known(p)
        BY <1>1, <1>5, <2>3, <3>3 DEF Known, Caller
      <3>5. Passed(p) /\ Timely(p) /\ Checked(p) /\ Current(p)
        BY <3>3 DEF Passed, Timely, Checked, Current
      <3>6. Trusting(p, r)
        BY <2>3, <3>3 DEF Trusting
      <3>. QED BY <3>2, <3>4, <3>5, <3>6 DEF Sound
    <2>4. CASE ~route.public /\ token # NoToken /\ app.mode # "dynamic"
      <3>1. p = [q EXCEPT !.pc = "key", !.uri = StaticUri]
        BY <2>4
      <3> HIDE DEF p
      <3>2. p \in RequestState
        BY <1>4, <3>1, StaticAssumption DEF RequestState, Pc
      <3>3. /\ p.pc = "key" /\ p.token = token /\ p.route = route /\ p.ip = ip /\ p.user = NoUser
            /\ p.dbUser = NoUser /\ p.outcome = "none" /\ p.approved = {} /\ p.waived = {}
            /\ p.uri = StaticUri
        BY <1>3, <1>4, <3>1 DEF RequestState
      <3>4. Known(p)
        BY <1>1, <1>5, <2>4, <3>3 DEF Known, Caller
      <3>5. Passed(p) /\ Timely(p) /\ Checked(p) /\ Current(p)
        BY <3>3 DEF Passed, Timely, Checked, Current
      <3>6. Trusting(p, r)
        BY <1>1, <2>4, <3>3 DEF Trusting
      <3>. QED BY <3>2, <3>4, <3>5, <3>6 DEF Sound
    <2>. QED BY <2>1, <2>2, <2>3, <2>4
  <1>11. UNCHANGED <<now, limitVars, app, authVars, cache>>
    BY DEF Arrive
  <1> HIDE DEF p
  <1>. QED BY <1>7, <1>8, <1>9, <1>10, <1>11, RequestMovesAlone

\* The answer of resolveIssuer: what it says is remembered, for the request and by the client.
LEMMA ResolverAnswersKeeps ==
  ASSUME IInv, NEW r \in Request, ResolverAnswers(r)
  PROVE  IInv'
  <1>1. req[r] \in RequestState /\ Sound(req[r]) /\ Trusting(req[r], r) /\ req[r].pc = "resolving"
    BY RequestHolds DEF ResolverAnswers
  <1>2. /\ req[r].token \in Token /\ req[r].token.iss \in Issuer /\ app.mode = "dynamic"
        /\ req[r].route # NoConfig /\ req[r].ip \in Ip /\ req[r].user = NoUser /\ Caller(req[r])
        /\ Current(req[r]) /\ (app.policy = "deny" => req[r].waived = {})
    BY <1>1, TokenAssumption DEF Sound, Known, Passed, Trusting
  <1>3. PICK iss \in Issuer : iss = req[r].token.iss
    BY <1>2
  <1>4. PICK config \in Config \cup {NoConfig} : config = registry[iss]
    BY DEF IInv, TypeOK
  <1>5. /\ registry \in [Issuer -> Config \cup {NoConfig}] /\ clients \in [Issuer -> Uri \cup {NoConfig}]
        /\ resolved \in [Request -> Config \cup {NoConfig}] /\ vouched \in [Issuer -> SUBSET Uri]
        /\ changes \in Nat /\ faults \in Nat /\ late \subseteq Request \X Nat /\ LimitTypeOK
    BY DEF IInv, TypeOK
  <1>6. /\ now' = now /\ app' = app /\ UNCHANGED limitVars /\ registry' = registry /\ changes' = changes
        /\ cache' = cache /\ late' = late /\ faults' = faults
    BY DEF ResolverAnswers
  <1>7. LimitTypeOK' /\ Counted'
    BY <1>6 DEF IInv, TypeOK, Shared, LimitTypeOK, Counted, limitVars
  <1>8. CacheTypeOK' /\ Cached'
    BY <1>6 DEF IInv, TypeOK, Shared, CacheTypeOK, Cached
  <1>9. vouched' = IF config = NoConfig THEN vouched ELSE [vouched EXCEPT ![iss] = @ \cup {config.uri}]
    BY <1>3, <1>4 DEF ResolverAnswers
  <1>10. config # NoConfig => config.uri \in Uri
    BY DEF Config
  <1>11. vouched' \in [Issuer -> SUBSET Uri] /\ \A i \in Issuer : vouched[i] \subseteq vouched'[i]
    BY <1>5, <1>9, <1>10
  <1>12. \A i \in Issuer : clients[i] # NoConfig => clients[i] \in vouched[i]
    BY DEF IInv, Shared, Clients
  <1>13. CASE config = NoConfig \/ ~req[r].token.audience
    <2>1. Rejects(r, "401") /\ clients' = clients /\ resolved' = resolved
      BY <1>3, <1>4, <1>13 DEF ResolverAnswers
    <2>2. PICK p : p = Rejected(req[r], "401")
      OBVIOUS
    <2>3. p \in RequestState /\ Sound(p) /\ Same(p, req[r]) /\ p.pc = "done"
      BY <1>1, <1>2, <2>2, RejectedSound DEF Outcome
    <2>4. Trusting(p, r)'
      BY <1>2, <2>3 DEF Trusting, Same
    <2>5. req' = [req EXCEPT ![r] = p]
      BY <2>1, <2>2 DEF Rejects, Becomes
    <2>6. AuthTypeOK' /\ Clients'
      BY <1>5, <1>6, <1>11, <1>12, <2>1 DEF AuthTypeOK, Clients
    <2>. QED BY <1>5, <1>6, <1>7, <1>8, <1>11, <2>1, <2>3, <2>4, <2>5, <2>6, RequestMoves DEF Same
  <1>14. CASE ~(config = NoConfig \/ ~req[r].token.audience)
    <2>1. /\ resolved' = [resolved EXCEPT ![r] = config]
          /\ clients' = IF clients[iss] # NoConfig THEN clients ELSE [clients EXCEPT ![iss] = config.uri]
          /\ req' = [req EXCEPT ![r] = [req[r] EXCEPT !.pc = "key", !.uri = clients'[iss]]]
      BY <1>3, <1>4, <1>14 DEF ResolverAnswers, Becomes
    <2>2. config.uri \in Uri /\ config.uri # NoConfig /\ vouched' = [vouched EXCEPT ![iss] = @ \cup {config.uri}]
      BY <1>9, <1>10, <1>14, NothingAssumption
    <2>3. /\ clients' \in [Issuer -> Uri \cup {NoConfig}] /\ clients'[iss] \in Uri /\ clients'[iss] # NoConfig
          /\ \A i \in Issuer : clients[i] # NoConfig => clients'[i] = clients[i]
      BY <1>5, <2>1, <2>2, NothingAssumption
    <2>4. Clients'
      BY <1>5, <1>11, <1>12, <2>1, <2>2 DEF Clients
    <2>5. AuthTypeOK'
      BY <1>5, <1>6, <1>11, <2>1, <2>3 DEF AuthTypeOK
    <2>6. PICK uri \in Uri : uri = clients'[iss]
      BY <2>3
    <2>7. PICK p : p = [req[r] EXCEPT !.pc = "key", !.uri = uri]
      OBVIOUS
    <2>8. /\ p.pc = "key" /\ p.uri = uri /\ p.token = req[r].token /\ p.route = req[r].route
          /\ p.ip = req[r].ip /\ p.user = NoUser /\ p.dbUser = req[r].dbUser
          /\ p.servedAt = req[r].servedAt /\ p.outcome = req[r].outcome
          /\ p.approved = req[r].approved /\ p.waived = req[r].waived
      BY <1>1, <1>2, <2>7 DEF RequestState
    <2>9. p \in RequestState
      BY <1>1, <2>7 DEF RequestState, Pc
    <2>10. Known(p)
      BY <1>2, <2>8 DEF Known, Caller
    <2>11. Passed(p) /\ Timely(p) /\ Checked(p) /\ Current(p)
      BY <1>1, <2>8 DEF Sound, Passed, Timely, Checked, Current
    <2>12. Trusting(p, r)'
      <3>1. resolved'[r] = config
        BY <1>5, <2>1
      <3>. QED BY <1>2, <1>3, <1>6, <1>14, <2>3, <2>6, <2>8, <3>1 DEF Trusting
    <2>13. \A s \in Request : s # r => resolved'[s] = resolved[s]
      BY <1>5, <2>1
    <2>14. req' = [req EXCEPT ![r] = p]
      BY <2>1, <2>6, <2>7
    <2>. QED BY <1>5, <1>6, <1>7, <1>8, <1>11, <2>3, <2>4, <2>5, <2>8, <2>9, <2>10, <2>11, <2>12, <2>13, <2>14,
                RequestMoves DEF Sound
  <1>. QED BY <1>13, <1>14

\* The key: a token verified with it names its caller, with roles if its issuer is trusted for them.
LEMMA KeyAnswersKeeps ==
  ASSUME IInv, NEW r \in Request, KeyAnswers(r)
  PROVE  IInv'
  <1>1. req[r] \in RequestState /\ Sound(req[r]) /\ Trusting(req[r], r) /\ req[r].pc = "key"
    BY RequestHolds DEF KeyAnswers
  <1>2. /\ req[r].token \in Token /\ req[r].token.iss \in Issuer /\ req[r].token.sub \in Subject
        /\ req[r].token.role \in BOOLEAN /\ req[r].token.signedBy \in Uri
        /\ req[r].route # NoConfig /\ req[r].ip \in Ip
    BY <1>1, TokenAssumption DEF Sound, Known
  <1>3. UNCHANGED <<now, limitVars, app, authVars, cache>> /\ late' \subseteq Request \X Nat /\ late' = late
        /\ faults' \in Nat
    BY DEF IInv, TypeOK, KeyAnswers
  <1>4. now \in Nat /\ app.cached \in BOOLEAN /\ app.mode \in {"static", "dynamic"}
    BY <1>1, <1>2, RouteTyped, ClockAssumption DEF IInv, TypeOK, LimitTypeOK
  <1>5. CASE \/ req[r].token.signedBy # req[r].uri
             \/ app.mode = "static" /\ (req[r].token.iss # StaticIssuer \/ ~req[r].token.audience)
    <2>1. Rejects(r, "401")
      BY <1>5 DEF KeyAnswers
    <2>. QED BY <1>1, <1>3, <2>1, RejectsKeeps DEF Outcome, KeyAnswers
  <1>6. CASE ~(\/ req[r].token.signedBy # req[r].uri
               \/ app.mode = "static" /\ (req[r].token.iss # StaticIssuer \/ ~req[r].token.audience))
    <2>1. resolved[r] \in Config \cup {NoConfig}
      BY DEF IInv, TypeOK
    <2>2. PICK user : user = Validated(r)
      OBVIOUS
    <2>3. app.mode # "static" => resolved[r].trustRoles \in BOOLEAN
      BY <1>1, <2>1 DEF Trusting, Config
    <2>4. /\ user \in User /\ user.issuer = req[r].token.iss /\ user.id = req[r].token.sub
          /\ app.mode # "static" => (user.roles => resolved[r].trustRoles)
      <3>1. CASE app.mode = "static"
        <4>1. user = [issuer |-> req[r].token.iss, id |-> req[r].token.sub, roles |-> req[r].token.role]
          BY <1>2, <2>2, <3>1 DEF Validated
        <4>. QED BY <1>2, <3>1, <4>1 DEF User
      <3>2. CASE app.mode # "static"
        <4>1. user = [issuer |-> req[r].token.iss, id |-> req[r].token.sub,
                      roles |-> req[r].token.role /\ resolved[r].trustRoles]
          BY <1>2, <2>2, <3>2 DEF Validated, RoleSource
        <4>2. user \in User /\ user.issuer = req[r].token.iss /\ user.id = req[r].token.sub
          BY <1>2, <4>1 DEF User
        <4>3. user.roles => resolved[r].trustRoles
          BY <4>1
        <4>. QED BY <4>2, <4>3
      <3>. QED BY <3>1, <3>2
    <2>5. user # NoUser
      BY <2>4, NothingAssumption
    <2>6. PICK pc \in {"cacheGet", "provisioning"} : pc = IF app.cached THEN "cacheGet" ELSE "provisioning"
      BY <1>4
    <2>7. PICK p : p = [[req[r] EXCEPT !.user = user] EXCEPT !.pc = pc, !.since = now]
      OBVIOUS
    <2>8. req' = [req EXCEPT ![r] = p]
      BY <1>6, <2>2, <2>6, <2>7 DEF KeyAnswers, Provisioned, Becomes
    <2>9. p \in RequestState
      BY <1>1, <1>4, <2>4, <2>7 DEF RequestState, Pc
    <2>10. /\ p.pc = pc /\ p.since = now /\ p.user = user /\ p.token = req[r].token
           /\ p.route = req[r].route /\ p.ip = req[r].ip /\ p.dbUser = req[r].dbUser
           /\ p.servedAt = req[r].servedAt /\ p.outcome = req[r].outcome
           /\ p.approved = req[r].approved /\ p.waived = req[r].waived
      BY <1>1, <2>7 DEF RequestState
    <2>11. Known(p)
      BY <1>2, <2>4, <2>5, <2>10 DEF Known, Caller
    <2>12. Passed(p) /\ Checked(p) /\ Current(p)
      BY <1>1, <2>10 DEF Sound, Passed, Checked, Current
    <2>13. Timely(p)
      BY <1>4, <2>10, AccessBounds DEF Timely
    <2>14. Trusting(p, r)
      <3>1. CASE app.mode = "static"
        BY <1>1, <1>6, <2>4, <2>10, <3>1 DEF Trusting
      <3>2. CASE app.mode # "static"
        <4>1. clients[req[r].token.iss] \in vouched[req[r].token.iss]
          BY <1>1, <1>2, <3>2 DEF Trusting, IInv, Shared, Clients
        <4>2. req[r].token.signedBy = clients[req[r].token.iss]
          BY <1>1, <1>6, <3>2 DEF Trusting
        <4>. QED BY <2>4, <2>10, <3>2, <4>1, <4>2 DEF Trusting
      <3>. QED BY <3>1, <3>2
    <2>. QED BY <1>3, <2>8, <2>9, <2>10, <2>11, <2>12, <2>13, <2>14, RequestMovesAlone DEF Sound
  <1>. QED BY <1>5, <1>6

\* What a caller has to be for the guards that follow the provisioning guard.
LEMMA ServedSound ==
  ASSUME IInv, NEW r \in Request, req[r].pc \in {"cacheGet", "provisioning", "cacheSet"},
         NEW q \in RequestState, Same(q, req[r]), q.ip = req[r].ip, q.outcome = req[r].outcome,
         q.approved = req[r].approved, q.waived = req[r].waived, Current(q), q.dbUser # NoUser
  PROVE  /\ Guarded(q) \in RequestState /\ Sound(Guarded(q)) /\ Trusting(Guarded(q), r)
         /\ Guarded(q).route = req[r].route
  <1>1. Sound(req[r]) /\ Trusting(req[r], r)
    BY RequestHolds
  <1>2. /\ q.route # NoConfig /\ q.ip \in Ip /\ Caller(q) /\ q.user # NoUser /\ q.outcome = "none"
        /\ q.approved = {} /\ q.waived = {}
    BY <1>1 DEF Sound, Known, Caller, Passed, Same
  <1>3. Guarded(q) \in RequestState /\ Sound(Guarded(q)) /\ Same(Guarded(q), q)
    BY <1>2, GuardedSound DEF IInv
  <1>4. Guarded(q).pc \in {"done", "limit"}
    <2>1. Rejected(q, "403").pc = "done" /\ Rejected(q, "500").pc = "done" /\ Asks(q, 1).pc \in {"done", "limit"}
      BY DEF Rejected, Asks, RequestState
    <2>. QED BY <2>1 DEF Guarded, Limited
  <1>5. Same(Guarded(q), req[r])
    BY <1>3 DEF Same
  <1>. QED BY <1>3, <1>4, <1>5, StillTrusted DEF Same

\* An entry that is served is of this caller, and not older than it may be.
LEMMA CacheAnswersKeeps ==
  ASSUME IInv, NEW r \in Request, CacheAnswers(r)
  PROVE  IInv'
  <1>1. req[r] \in RequestState /\ Sound(req[r]) /\ req[r].pc = "cacheGet"
    BY RequestHolds DEF CacheAnswers
  <1>2. /\ req[r].user \in User /\ req[r].user # NoUser /\ req[r].token \in Token
        /\ req[r].user.issuer = req[r].token.iss /\ req[r].user.id = req[r].token.sub
    BY <1>1 DEF Sound, Known, Caller, RequestState
  <1>3. UNCHANGED <<now, limitVars, app, authVars, cache>> /\ late' \subseteq Request \X Nat /\ late' = late
        /\ faults' \in Nat
    BY DEF IInv, TypeOK, CacheAnswers
  <1>4. now \in Nat /\ CacheTtl \in Nat /\ Slow \in Nat
    BY ClockAssumption, AccessBounds DEF IInv, TypeOK, LimitTypeOK
  <1>5. PICK k \in Identity : k = CacheKey(req[r].user) /\ k[1] = req[r].user.issuer /\ k[2] = req[r].user.id
    <2>1. <<req[r].user.issuer, req[r].user.id>> \in Identity
      BY <1>2 DEF Identity, User
    <2>. QED BY <2>1 DEF CacheKey
  <1>6. PICK entry \in Entry \cup {NoEntry} : entry = cache[k]
    BY DEF IInv, TypeOK
  <1>7. entry # NoEntry =>
          /\ entry.user.issuer = k[1] /\ entry.user.id = k[2]
          /\ entry.expires <= entry.user.at + Slow + CacheTtl
    BY <1>6 DEF IInv, Shared, Cached
  <1>8. CASE entry # NoEntry /\ now < entry.expires
    <2>1. entry.user \in DbUser /\ entry.user # NoUser /\ entry.expires \in Nat /\ entry.user.at \in Nat
      BY <1>8, NothingAssumption DEF Entry, DbUser
    <2>2. PICK q : q = [req[r] EXCEPT !.dbUser = entry.user, !.servedAt = now]
      OBVIOUS
    <2>3. q \in RequestState
      BY <1>1, <1>4, <2>1, <2>2 DEF RequestState
    <2>4. /\ Same(q, req[r]) /\ q.ip = req[r].ip /\ q.outcome = req[r].outcome
          /\ q.approved = req[r].approved /\ q.waived = req[r].waived /\ q.dbUser = entry.user
          /\ q.servedAt = now
      BY <1>1, <2>2 DEF RequestState, Same
    <2>5. now - entry.user.at <= CacheTtl + Slow
      BY <1>4, <1>7, <1>8, <2>1
    <2>6. Current(q)
      BY <1>2, <1>5, <1>7, <1>8, <2>4, <2>5 DEF Current, Same
    <2>7. PICK p : p = Guarded(q)
      OBVIOUS
    <2>8. p \in RequestState /\ Sound(p) /\ Trusting(p, r) /\ p.route = req[r].route
      BY <1>1, <2>1, <2>3, <2>4, <2>6, <2>7, ServedSound
    <2>9. req' = [req EXCEPT ![r] = p]
      BY <1>5, <1>6, <1>8, <2>2, <2>7 DEF CacheAnswers, Becomes
    <2>. QED BY <1>3, <2>8, <2>9, RequestMovesAlone
  <1>9. CASE ~(entry # NoEntry /\ now < entry.expires)
    <2>1. PICK p : p = [req[r] EXCEPT !.pc = "provisioning", !.since = now]
      OBVIOUS
    <2>2. req' = [req EXCEPT ![r] = p]
      BY <1>5, <1>6, <1>9, <2>1 DEF CacheAnswers, Becomes
    <2>3. p \in RequestState
      BY <1>1, <1>4, <2>1 DEF RequestState, Pc
    <2>4. /\ p.pc = "provisioning" /\ p.since = now /\ Same(p, req[r]) /\ p.ip = req[r].ip
          /\ p.outcome = req[r].outcome /\ p.dbUser = req[r].dbUser /\ p.servedAt = req[r].servedAt
          /\ p.approved = req[r].approved /\ p.waived = req[r].waived
      BY <1>1, <2>1 DEF RequestState, Same
    <2>5. Known(p)
      BY <1>1, <1>2, <2>4 DEF Sound, Known, Caller, Same
    <2>6. Passed(p) /\ Checked(p) /\ Current(p)
      BY <1>1, <2>4 DEF Sound, Passed, Checked, Current, Same
    <2>7. Timely(p)
      BY <1>4, <2>4 DEF Timely
    <2>8. Trusting(p, r)
      BY <2>4, StillTrusted
    <2>. QED BY <1>3, <2>2, <2>3, <2>4, <2>5, <2>6, <2>7, <2>8, RequestMovesAlone DEF Sound, Same
  <1>. QED BY <1>8, <1>9

\* The provisioner's user is as of the time it was asked.
LEMMA ProvisionsKeeps ==
  ASSUME IInv, NEW r \in Request, Provisions(r)
  PROVE  IInv'
  <1>1. req[r] \in RequestState /\ Sound(req[r]) /\ req[r].pc = "provisioning"
    BY RequestHolds DEF Provisions
  <1>2. /\ req[r].user \in User /\ req[r].user # NoUser /\ req[r].token \in Token
        /\ req[r].user.issuer = req[r].token.iss /\ req[r].user.id = req[r].token.sub
        /\ req[r].since \in Nat /\ req[r].since <= now /\ now <= req[r].since + Slow
    BY <1>1 DEF Sound, Known, Caller, RequestState, Timely
  <1>3. UNCHANGED <<now, limitVars, app, authVars, cache>> /\ late' \subseteq Request \X Nat /\ late' = late
        /\ faults' \in Nat
    BY DEF IInv, TypeOK, Provisions
  <1>4. now \in Nat /\ CacheTtl \in Nat /\ Slow \in Nat
    BY ClockAssumption, AccessBounds DEF IInv, TypeOK, LimitTypeOK
  <1>5. PICK user : user = [issuer |-> req[r].user.issuer, id |-> req[r].user.id, at |-> req[r].since]
    OBVIOUS
  <1>6. user \in DbUser /\ user # NoUser
    BY <1>2, <1>5, NothingAssumption DEF DbUser, User
  <1>7. PICK q : q = [req[r] EXCEPT !.dbUser = user, !.servedAt = now]
    OBVIOUS
  <1>8. q \in RequestState
    BY <1>1, <1>4, <1>6, <1>7 DEF RequestState
  <1>9. /\ Same(q, req[r]) /\ q.ip = req[r].ip /\ q.outcome = req[r].outcome
        /\ q.approved = req[r].approved /\ q.waived = req[r].waived /\ q.dbUser = user
        /\ q.servedAt = now /\ q.since = req[r].since
    BY <1>1, <1>7 DEF RequestState, Same
  <1>10. Current(q)
    BY <1>2, <1>4, <1>5, <1>9 DEF Current, Same
  <1>11. req' = [req EXCEPT ![r] = IF app.cached THEN [q EXCEPT !.pc = "cacheSet"] ELSE Guarded(q)]
    BY <1>5, <1>7 DEF Provisions, Becomes
  <1>12. CASE app.cached
    <2>1. PICK p : p = [q EXCEPT !.pc = "cacheSet"]
      OBVIOUS
    <2>2. p \in RequestState
      BY <1>8, <2>1 DEF RequestState, Pc
    <2>3. /\ p.pc = "cacheSet" /\ p.since = req[r].since /\ Same(p, req[r]) /\ p.ip = req[r].ip
          /\ p.outcome = req[r].outcome /\ p.dbUser = user /\ p.servedAt = now
          /\ p.approved = req[r].approved /\ p.waived = req[r].waived
      BY <1>8, <1>9, <2>1 DEF RequestState, Same
    <2>4. Known(p)
      BY <1>1, <1>2, <1>6, <2>3 DEF Sound, Known, Caller, Same
    <2>5. Passed(p) /\ Checked(p)
      BY <1>1, <2>3 DEF Sound, Passed, Checked, Same
    <2>6. Current(p)
      BY <1>9, <1>10, <2>3 DEF Current, Same
    <2>7. Timely(p)
      BY <1>2, <1>5, <2>3 DEF Timely
    <2>8. Trusting(p, r)
      BY <2>3, StillTrusted
    <2>. QED BY <1>3, <1>11, <1>12, <2>1, <2>2, <2>3, <2>4, <2>5, <2>6, <2>7, <2>8, RequestMovesAlone DEF Sound, Same
  <1>13. CASE ~app.cached
    <2>1. PICK p : p = Guarded(q)
      OBVIOUS
    <2>2. p \in RequestState /\ Sound(p) /\ Trusting(p, r) /\ p.route = req[r].route
      BY <1>1, <1>6, <1>8, <1>9, <1>10, <2>1, ServedSound
    <2>. QED BY <1>3, <1>11, <1>13, <2>1, <2>2, RequestMovesAlone
  <1>. QED BY <1>12, <1>13

\* An entry is stored under its caller's key, for as long as the code says.
LEMMA CacheStoresKeeps ==
  ASSUME IInv, NEW r \in Request, CacheStores(r)
  PROVE  IInv'
  <1>1. req[r] \in RequestState /\ Sound(req[r]) /\ req[r].pc = "cacheSet"
    BY RequestHolds DEF CacheStores
  <1>2. /\ req[r].user \in User /\ req[r].user # NoUser /\ req[r].dbUser \in DbUser /\ req[r].dbUser # NoUser
        /\ req[r].user.issuer = req[r].token.iss /\ req[r].user.id = req[r].token.sub
        /\ req[r].since \in Nat /\ now <= req[r].since + Slow /\ req[r].dbUser.at = req[r].since
    BY <1>1 DEF Sound, Known, Caller, RequestState, Timely
  <1>3. UNCHANGED <<now, limitVars, app, authVars>> /\ late' \subseteq Request \X Nat /\ late' = late
        /\ faults' \in Nat
    BY DEF IInv, TypeOK, CacheStores
  <1>4. now \in Nat /\ CacheTtl \in Nat /\ Slow \in Nat
    BY ClockAssumption, AccessBounds DEF IInv, TypeOK, LimitTypeOK
  <1>5. PICK k \in Identity : k = CacheKey(req[r].user) /\ k[1] = req[r].user.issuer /\ k[2] = req[r].user.id
    <2>1. <<req[r].user.issuer, req[r].user.id>> \in Identity
      BY <1>2 DEF Identity, User
    <2>. QED BY <2>1 DEF CacheKey
  <1>6. PICK entry : entry = [user |-> req[r].dbUser, expires |-> now + CacheTtl]
    OBVIOUS
  <1>7. entry \in Entry /\ cache' = [cache EXCEPT ![k] = entry] /\ cache \in [Identity -> Entry \cup {NoEntry}]
    BY <1>2, <1>4, <1>5, <1>6 DEF Entry, CacheStores, IInv, TypeOK
  <1>8. /\ entry.user.issuer = k[1] /\ entry.user.id = k[2]
        /\ entry.expires <= entry.user.at + Slow + CacheTtl
    <2>1. req[r].dbUser.issuer = req[r].token.iss /\ req[r].dbUser.id = req[r].token.sub
      BY <1>1, <1>2 DEF Sound, Current
    <2>2. now + CacheTtl <= req[r].since + Slow + CacheTtl
      BY <1>2, <1>4
    <2>. QED BY <1>2, <1>5, <1>6, <2>1, <2>2
  <1>9. CacheTypeOK' /\ Cached'
    <2>1. CacheTypeOK'
      BY <1>7 DEF CacheTypeOK
    <2>2. \A i \in Identity :
            cache'[i] # NoEntry =>
              /\ cache'[i].user.issuer = i[1] /\ cache'[i].user.id = i[2]
              /\ cache'[i].expires <= cache'[i].user.at + Slow + CacheTtl
      BY <1>7, <1>8 DEF IInv, Shared, Cached
    <2>. QED BY <2>1, <2>2 DEF Cached
  <1>10. PICK p : p = Guarded(req[r])
    OBVIOUS
  <1>11. p \in RequestState /\ Sound(p) /\ Trusting(p, r) /\ p.route = req[r].route
    BY <1>1, <1>2, <1>10, ServedSound DEF Same, Sound
  <1>12. req' = [req EXCEPT ![r] = p]
    BY <1>10 DEF CacheStores, Becomes
  <1>13. LimitTypeOK' /\ Counted'
    BY <1>3 DEF IInv, TypeOK, Shared, LimitTypeOK, Counted, limitVars
  <1>14. AuthTypeOK' /\ Clients' /\ authVars' = authVars
    BY <1>3 DEF IInv, TypeOK, Shared, AuthTypeOK, Clients, authVars
  <1>15. Trusting(p, r)'
    BY <1>3, <1>11 DEF Trusting, authVars
  <1>. QED BY <1>3, <1>9, <1>11, <1>12, <1>13, <1>14, <1>15, RequestMoves DEF authVars

\* A step that moves no request.
LEMMA OthersKeep ==
  ASSUME IInv, UNCHANGED <<limitVars, app, clients, resolved, vouched, req, late>>, TypeOK',
         \A k \in Identity : cache'[k] # NoEntry => cache'[k] = cache[k],
         \A r \in Request : Timely(req[r])'
  PROVE  IInv'
  <1>1. (\A r \in Request : Known(req[r]) /\ Passed(req[r]))'
    BY DEF IInv, Passage, Known, Caller, Passed, Cleared
  <1>2. (\A r \in Request : Vouched(r))' /\ Clients'
    BY DEF IInv, Passage, Shared, Vouched, Clients
  <1>3. Passage'
    BY <1>1, <1>2 DEF Passage
  <1>4. Cached' /\ Counted'
    BY DEF IInv, Shared, Cached, Counted, limitVars
  <1>5. Sent'
    <2>1. Sent
      BY DEF IInv, Shared
    <2>2. req' = req /\ late' = late
      OBVIOUS
    <2>. QED BY ONLY <2>1, <2>2, Zenon DEF Sent, Resolvable, Overrides
  <1>6. AdmittedWasChecked' /\ TrustIsPerIssuer' /\ UserIsCurrent'
    BY DEF IInv, AdmittedWasChecked, TrustIsPerIssuer, UserIsCurrent
  <1>. QED BY <1>2, <1>3, <1>4, <1>5, <1>6 DEF IInv, Shared

\* The registry changes under the requests, which hold what was resolved for them.
LEMMA RegistryChangesKeeps ==
  ASSUME IInv, NEW i \in Issuer, NEW config \in Config \cup {NoConfig}, RegistryChanges(i, config)
  PROVE  IInv'
  <1>1. /\ UNCHANGED <<now, limitVars, app, clients, resolved, vouched, cache, req, late, faults>>
        /\ registry' = [registry EXCEPT ![i] = config] /\ changes' = changes + 1
    BY DEF RegistryChanges
  <1>2. TypeOK'
    BY <1>1 DEF IInv, TypeOK, LimitTypeOK, limitVars, RequestState
  <1>3. \A r \in Request : Timely(req[r])'
    BY <1>1 DEF IInv, Passage, Timely
  <1>. QED BY <1>1, <1>2, <1>3, OthersKeep

\* An entry leaves the cache.
LEMMA EvictsKeeps ==
  ASSUME IInv, NEW k \in Identity, Evicts(k)
  PROVE  IInv'
  <1>1. /\ UNCHANGED <<now, limitVars, app, authVars, req, late>> /\ cache' = [cache EXCEPT ![k] = NoEntry]
        /\ faults' \in Nat
    BY FaultTyped DEF Evicts
  <1>2. TypeOK'
    BY <1>1 DEF IInv, TypeOK, LimitTypeOK, limitVars, authVars, RequestState
  <1>3. \A i \in Identity : cache'[i] # NoEntry => cache'[i] = cache[i]
    BY <1>1 DEF IInv, TypeOK
  <1>4. \A r \in Request : Timely(req[r])'
    BY <1>1 DEF IInv, Passage, Timely
  <1>. QED BY <1>1, <1>2, <1>3, <1>4, OthersKeep DEF authVars

\* Time passes, but not beyond the answer of a provisioner or a cache that a request waits for.
LEMMA TickKeeps ==
  ASSUME IInv, Tick
  PROVE  IInv'
  <1>1. /\ UNCHANGED <<limitVars, app, authVars, cache, req, late, faults>> /\ now' = now + 1 /\ now < MaxTime
        /\ \A r \in Request : req[r].pc \in {"provisioning", "cacheSet"} => now < req[r].since + Slow
    BY DEF Tick
  <1>2. now \in 0..MaxTime /\ MaxTime \in Nat /\ Slow \in Nat
    BY ClockAssumption, AccessBounds DEF IInv, TypeOK, LimitTypeOK
  <1>3. TypeOK'
    BY <1>1, <1>2 DEF IInv, TypeOK, LimitTypeOK, limitVars, authVars, RequestState
  <1>4. ASSUME NEW r \in Request PROVE Timely(req[r])'
    <2>1. req[r].since \in Nat /\ Timely(req[r])
      BY RequestHolds DEF RequestState, Sound
    <2>. QED BY <1>1, <1>2, <2>1 DEF Timely
  <1>. QED BY <1>1, <1>3, <1>4, OthersKeep DEF authVars

\* Nothing happens.
LEMMA StutterKeeps ==
  ASSUME IInv, UNCHANGED vars
  PROVE  IInv'
  <1>1. UNCHANGED <<now, limitVars, app, authVars, cache, req, late, faults>>
    BY DEF vars
  <1>2. TypeOK'
    BY <1>1 DEF IInv, TypeOK, LimitTypeOK, limitVars, authVars, RequestState
  <1>3. \A r \in Request : Timely(req[r])'
    BY <1>1 DEF IInv, Passage, Timely
  <1>. QED BY <1>1, <1>2, <1>3, OthersKeep DEF authVars

\* A request at its limits, by the invariant.
LEMMA LimitHas ==
  ASSUME IInv, NEW r \in Request, req[r].pc = "limit"
  PROVE  LET q == req[r] IN
         /\ q \in RequestState /\ q.route # NoConfig /\ q.ip \in Ip /\ Caller(q) /\ Current(q)
         /\ q.outcome = "none" /\ Cleared(q) /\ (app.policy = "deny" => q.waived = {})
         /\ q.rule \in Nat /\ q.rule > 0 /\ q.rule <= Len(q.route.rules) /\ Len(q.route.rules) \in Nat
         /\ q.rule \in DOMAIN q.route.rules
         /\ \A k \in DOMAIN q.route.rules : Resolvable(q.route.rules[k])
         /\ q.approved \cup q.waived = 1..(q.rule - 1)
         /\ q.approved \subseteq Nat /\ q.waived \subseteq Nat
         /\ RuleOf(q) \in ResolvedRule /\ BucketOf(q) \in Bucket
  <1>1. req[r] \in RequestState /\ Sound(req[r])
    BY RequestHolds
  <1>2. req[r].route # NoConfig /\ req[r].ip \in Ip /\ Caller(req[r])
    BY <1>1 DEF Sound, Known
  <1>3. Len(req[r].route.rules) \in Nat /\ DOMAIN req[r].route.rules = 1..Len(req[r].route.rules)
    BY <1>1, <1>2, RouteTyped DEF IInv
  <1>4. RuleOf(req[r]) \in ResolvedRule /\ BucketOf(req[r]) \in Bucket
    BY <1>1, <1>2, BucketTyped DEF IInv, Sound, Passed
  <1>. QED BY <1>1, <1>2, <1>3, <1>4 DEF Sound, Passed, RequestState

\* The script runs for the rule that a request asks for.
LEMMA RedisExecutesKeeps ==
  ASSUME IInv, NEW r \in Request, RedisExecutes(r)
  PROVE  IInv'
  <1>1. req[r].pc = "limit" /\ req[r] \in RequestState /\ Sound(req[r])
    BY RequestHolds DEF RedisExecutes
  <1>2. RuleOf(req[r]) \in ResolvedRule /\ BucketOf(req[r]) \in Bucket
    BY <1>1, LimitHas
  <1>3. /\ UNCHANGED <<now, app, authVars, cache, late, faults>>
        /\ Increment(BucketOf(req[r]), RuleOf(req[r]))
    BY DEF RedisExecutes
  <1>4. PICK reply \in Reply : reply = Script(BucketOf(req[r]), RuleOf(req[r])).reply
    BY <1>2, ScriptTyped DEF IInv, TypeOK, ScriptResult
  <1>5. PICK p : p = [req[r] EXCEPT !.asked = FALSE, !.reply = reply]
    OBVIOUS
  <1>6. req' = [req EXCEPT ![r] = p]
    BY <1>4, <1>5 DEF RedisExecutes, Becomes
  <1>7. p \in RequestState
    BY <1>1, <1>5 DEF RequestState
  <1>8. /\ p.pc = "limit" /\ Same(p, req[r]) /\ p.ip = req[r].ip /\ p.outcome = req[r].outcome
        /\ p.dbUser = req[r].dbUser /\ p.servedAt = req[r].servedAt /\ p.since = req[r].since
        /\ p.approved = req[r].approved /\ p.waived = req[r].waived /\ p.rule = req[r].rule
    BY <1>1, <1>5 DEF RequestState, Same
  <1>9. Sound(p)
    BY <1>1, <1>8 DEF Sound, Known, Caller, Passed, Cleared, Timely, Checked, Current, Same
  <1>10. Trusting(p, r)
    BY <1>8, StillTrusted
  <1>11. LimitTypeOK' /\ Counted'
    BY <1>2, <1>3, IncrementTyped, IncrementCounts DEF IInv, TypeOK, Shared
  <1>12. AuthTypeOK' /\ Clients'
    BY <1>3 DEF IInv, TypeOK, Shared, AuthTypeOK, Clients, authVars
  <1>13. CacheTypeOK' /\ Cached'
    BY <1>3 DEF IInv, TypeOK, Shared, CacheTypeOK, Cached
  <1>14. Trusting(p, r)'
    BY <1>3, <1>10 DEF Trusting, authVars
  <1>15. late' \subseteq Request \X Nat /\ late' = late /\ faults' \in Nat
    BY <1>3 DEF IInv, TypeOK
  <1>. QED BY <1>3, <1>6, <1>7, <1>8, <1>9, <1>11, <1>12, <1>13, <1>14, <1>15, RequestMoves DEF authVars, Same

\* The next rule after one that is approved, or waived where that is the policy.
LEMMA NextRuleSound ==
  ASSUME IInv, NEW r \in Request, req[r].pc = "limit", NEW q \in RequestState,
         Same(q, req[r]), q.ip = req[r].ip, q.dbUser = req[r].dbUser, q.servedAt = req[r].servedAt,
         q.outcome = req[r].outcome, q.rule = req[r].rule,
         q.approved \cup q.waived = (req[r].approved \cup req[r].waived) \cup {req[r].rule},
         app.policy = "deny" => q.waived = {}
  PROVE  /\ Asks(q, req[r].rule + 1) \in RequestState /\ Sound(Asks(q, req[r].rule + 1))
         /\ Trusting(Asks(q, req[r].rule + 1), r)
         /\ Asks(q, req[r].rule + 1).route = req[r].route
  <1>1. /\ q.route # NoConfig /\ q.ip \in Ip /\ Caller(q) /\ Current(q) /\ q.outcome = "none" /\ Cleared(q)
        /\ \A k \in DOMAIN q.route.rules : Resolvable(q.route.rules[k])
    BY LimitHas DEF Caller, Current, Cleared, Same
  <1>2. PICK n \in Nat : n = req[r].rule + 1
    BY LimitHas
  <1>3. n > 0 /\ n <= Len(q.route.rules) + 1
    BY <1>2, LimitHas DEF Same
  <1>4. q.approved \cup q.waived = 1..(n - 1)
    <2>1. req[r].rule \in Nat /\ req[r].rule > 0 /\ req[r].approved \cup req[r].waived = 1..(req[r].rule - 1)
      BY LimitHas
    <2>2. 1..(n - 1) = 1..(req[r].rule - 1) \cup {req[r].rule}
      BY <1>2, <2>1
    <2>. QED BY <2>1, <2>2
  <1>5. PICK p : p = Asks(q, n)
    OBVIOUS
  <1>6. p \in RequestState /\ Sound(p) /\ Same(p, q) /\ p.outcome \in {"none", "admitted"}
    BY <1>1, <1>2, <1>3, <1>4, <1>5, AsksSound DEF IInv
  <1>7. p.pc \in {"limit", "done"}
    BY <1>5 DEF Asks, RequestState
  <1>8. Same(p, req[r])
    BY <1>6 DEF Same
  <1>. QED BY <1>2, <1>5, <1>6, <1>7, <1>8, StillTrusted DEF Same

\* A record of Redis: the rule is approved, or the request is refused for a while.
LEMMA RecordArrivesKeeps ==
  ASSUME IInv, NEW r \in Request, RecordArrives(r)
  PROVE  IInv'
  <1>1. req[r].pc = "limit" /\ req[r].reply # NoEntry
    BY DEF RecordArrives
  <1>2. /\ req[r] \in RequestState /\ req[r].route # NoConfig /\ req[r].ip \in Ip /\ Caller(req[r])
        /\ Current(req[r]) /\ (app.policy = "deny" => req[r].waived = {}) /\ req[r].rule \in Nat
        /\ req[r].approved \subseteq Nat
    BY <1>1, LimitHas
  <1>3. UNCHANGED <<now, limitVars, app, authVars, cache>> /\ late' \subseteq Request \X Nat /\ late' = late
        /\ faults' \in Nat
    BY DEF IInv, TypeOK, RecordArrives
  <1>4. CASE req[r].reply.blocked
    <2>1. PICK retry \in Nat : retry = IF req[r].reply.retry > 1 THEN req[r].reply.retry ELSE 1
      BY <1>1, <1>2 DEF RequestState, Reply
    <2>2. PICK q : q = Rejected(req[r], "429")
      OBVIOUS
    <2>3. q \in RequestState /\ Sound(q) /\ Same(q, req[r]) /\ q.pc = "done"
      BY <1>2, <2>2, RejectedSound DEF Outcome
    <2>4. PICK p : p = [q EXCEPT !.retry = retry]
      OBVIOUS
    <2>5. p \in RequestState
      BY <2>3, <2>4 DEF RequestState
    <2>6. /\ p.pc = "done" /\ Same(p, q) /\ p.ip = q.ip /\ p.outcome = q.outcome
          /\ p.dbUser = q.dbUser /\ p.servedAt = q.servedAt /\ p.since = q.since
          /\ p.approved = q.approved /\ p.waived = q.waived /\ p.rule = q.rule
      BY <2>3, <2>4 DEF RequestState, Same
    <2>7. Sound(p)
      BY <2>3, <2>6 DEF Sound, Known, Caller, Passed, Cleared, Timely, Checked, Current, Same
    <2>8. Same(p, req[r])
      BY <2>3, <2>6 DEF Same
    <2>9. Trusting(p, r)
      BY <2>6, <2>8, StillTrusted
    <2>10. req' = [req EXCEPT ![r] = p]
      BY <1>4, <2>1, <2>2, <2>4 DEF RecordArrives, Becomes
    <2>. QED BY <1>3, <2>5, <2>7, <2>8, <2>9, <2>10, RequestMovesAlone DEF Same
  <1>5. CASE ~req[r].reply.blocked
    <2>1. PICK q : q = [req[r] EXCEPT !.approved = req[r].approved \cup {req[r].rule}]
      OBVIOUS
    <2>2. q \in RequestState
      BY <1>2, <2>1 DEF RequestState
    <2>3. /\ Same(q, req[r]) /\ q.ip = req[r].ip /\ q.dbUser = req[r].dbUser /\ q.servedAt = req[r].servedAt
          /\ q.outcome = req[r].outcome /\ q.rule = req[r].rule /\ q.waived = req[r].waived
          /\ q.approved = req[r].approved \cup {req[r].rule}
      BY <1>2, <2>1 DEF RequestState, Same
    <2>4. PICK p : p = Asks(q, req[r].rule + 1)
      OBVIOUS
    <2>5. p \in RequestState /\ Sound(p) /\ Trusting(p, r) /\ p.route = req[r].route
      BY <1>1, <1>2, <2>2, <2>3, <2>4, NextRuleSound
    <2>6. req' = [req EXCEPT ![r] = p]
      BY <1>5, <2>1, <2>4 DEF RecordArrives, Becomes
    <2>. QED BY <1>3, <2>5, <2>6, RequestMovesAlone
  <1>. QED BY <1>4, <1>5

\* What becomes of a request whose command failed.
LEMMA WaivesSound ==
  ASSUME IInv, NEW r \in Request, req[r].pc = "limit", Waives(r)
  PROVE  \E p \in RequestState :
           req' = [req EXCEPT ![r] = p] /\ Sound(p) /\ Trusting(p, r) /\ p.route = req[r].route
  <1>1. /\ req[r] \in RequestState /\ req[r].route # NoConfig /\ req[r].ip \in Ip /\ Caller(req[r])
        /\ Current(req[r]) /\ (app.policy = "deny" => req[r].waived = {}) /\ req[r].rule \in Nat
        /\ req[r].waived \subseteq Nat
    BY LimitHas
  <1>2. CASE app.policy = "deny"
    <2>1. PICK p : p = Rejected(req[r], "503")
      OBVIOUS
    <2>2. p \in RequestState /\ Sound(p) /\ Same(p, req[r]) /\ p.pc = "done"
      BY <1>1, <2>1, RejectedSound DEF Outcome
    <2>3. req' = [req EXCEPT ![r] = p]
      BY <1>2, <2>1 DEF Waives, Becomes
    <2>. QED BY <2>2, <2>3, StillTrusted DEF Same
  <1>3. CASE app.policy # "deny"
    <2>1. PICK q : q = [req[r] EXCEPT !.waived = req[r].waived \cup {req[r].rule}]
      OBVIOUS
    <2>2. q \in RequestState
      BY <1>1, <2>1 DEF RequestState
    <2>3. /\ Same(q, req[r]) /\ q.ip = req[r].ip /\ q.dbUser = req[r].dbUser /\ q.servedAt = req[r].servedAt
          /\ q.outcome = req[r].outcome /\ q.rule = req[r].rule /\ q.approved = req[r].approved
          /\ q.waived = req[r].waived \cup {req[r].rule}
      BY <1>1, <2>1 DEF RequestState, Same
    <2>4. PICK p : p = Asks(q, req[r].rule + 1)
      OBVIOUS
    <2>5. p \in RequestState /\ Sound(p) /\ Trusting(p, r) /\ p.route = req[r].route
      BY <1>1, <1>3, <2>2, <2>3, <2>4, NextRuleSound
    <2>6. req' = [req EXCEPT ![r] = p]
      BY <1>3, <2>1, <2>4 DEF Waives, Becomes
    <2>. QED BY <2>5, <2>6
  <1>. QED BY <1>2, <1>3

\* The script fails, or the command: a command that is on its way stays there.
LEMMA StorageFailsKeeps ==
  ASSUME IInv, NEW r \in Request, ScriptFails(r) \/ StorageFails(r)
  PROVE  IInv'
  <1>1. req[r].pc = "limit" /\ Waives(r) /\ UNCHANGED <<now, limitVars, app, authVars, cache>>
    BY DEF ScriptFails, StorageFails
  <1>2. PICK p \in RequestState :
          req' = [req EXCEPT ![r] = p] /\ Sound(p) /\ Trusting(p, r) /\ p.route = req[r].route
    BY <1>1, WaivesSound
  <1>3. /\ req[r].route # NoConfig /\ req[r].rule \in DOMAIN req[r].route.rules /\ req[r].rule \in Nat
        /\ \A k \in DOMAIN req[r].route.rules : Resolvable(req[r].route.rules[k])
    BY <1>1, LimitHas
  <1>4. late \subseteq Request \X Nat /\ faults \in Nat
    BY DEF IInv, TypeOK
  <1>5. CASE late' = late /\ faults' = faults
    BY <1>1, <1>2, <1>4, <1>5, RequestMovesAlone
  <1>6. CASE late' = late \cup {<<r, req[r].rule>>} /\ Fault
    <2>1. faults' \in Nat
      BY <1>6, FaultTyped
    <2>2. late' \subseteq Request \X Nat
      BY <1>3, <1>4, <1>6
    <2>3. \A command \in late' :
            \/ command \in late
            \/ /\ command[1] = r /\ p.route # NoConfig /\ command[2] \in DOMAIN p.route.rules
               /\ \A k \in DOMAIN p.route.rules : Resolvable(p.route.rules[k])
      BY <1>2, <1>3, <1>6
    <2>. QED BY <1>1, <1>2, <2>1, <2>2, <2>3, RequestMovesAlone
  <1>. QED BY <1>5, <1>6 DEF ScriptFails, StorageFails

\* A command that nobody waits for any more still counts.
LEMMA LateCommandKeeps ==
  ASSUME IInv, NEW command \in late, LateCommand(command[1], command[2])
  PROVE  IInv'
  <1>1. command \in Request \X Nat
    BY DEF IInv, TypeOK
  <1>2. PICK r \in Request, k \in Nat : command = <<r, k>>
    BY <1>1
  <1>3. /\ req[r].route # NoConfig /\ k \in DOMAIN req[r].route.rules
        /\ \A n \in DOMAIN req[r].route.rules : Resolvable(req[r].route.rules[n])
    BY <1>2 DEF IInv, Shared, Sent
  <1>4. req[r] \in RequestState /\ req[r].ip \in Ip
    BY <1>3, RequestHolds DEF Sound, Known
  <1>5. PICK q : q = [req[r] EXCEPT !.rule = k]
    OBVIOUS
  <1>6. q \in RequestState /\ q.route = req[r].route /\ q.ip = req[r].ip /\ q.rule = k
    BY <1>4, <1>5 DEF RequestState
  <1>7. RuleOf(q) \in ResolvedRule /\ BucketOf(q) \in Bucket
    BY <1>3, <1>4, <1>6, BucketTyped DEF IInv
  <1>8. /\ Increment(BucketOf(q), RuleOf(q)) /\ late' = late \ {command}
        /\ UNCHANGED <<now, app, authVars, cache, req, faults>>
    BY <1>2, <1>5 DEF LateCommand
  <1>9. LimitTypeOK' /\ Counted'
    BY <1>7, <1>8, IncrementTyped, IncrementCounts DEF IInv, TypeOK, Shared
  <1>10. req' = [req EXCEPT ![r] = req[r]]
    BY <1>8 DEF IInv, TypeOK
  <1>11. Sound(req[r]) /\ Trusting(req[r], r)
    BY RequestHolds
  <1>13. AuthTypeOK' /\ Clients'
    BY <1>8 DEF IInv, TypeOK, Shared, AuthTypeOK, Clients, authVars
  <1>14. CacheTypeOK' /\ Cached'
    BY <1>8 DEF IInv, TypeOK, Shared, CacheTypeOK, Cached
  <1>15. late' \subseteq Request \X Nat /\ faults' \in Nat
    BY <1>8 DEF IInv, TypeOK
  <1>16. PICK p \in RequestState : p = req[r]
    BY <1>4
  <1>17. Trusting(p, r)'
    BY <1>8, <1>11, <1>16 DEF Trusting, authVars
  <1>. QED BY <1>8, <1>9, <1>10, <1>11, <1>13, <1>14, <1>15, <1>16, <1>17, RequestMoves DEF authVars

-----------------------------------------------------------------------------
(* The theorems *)

\* No request has arrived.
LEMMA InitInvariant == Init => IInv
  <1> SUFFICES ASSUME Init PROVE IInv
    OBVIOUS
  <1>1. LimitTypeOK /\ Counted
    BY ClockAssumption, NoneAssumption DEF Init, LimitInit, LimitTypeOK, Counted
  <1>2. app \in App /\ app.mode \in {"static", "dynamic"}
    BY AppAssumption DEF Init
  <1>3. Idle \in RequestState
    BY StaticAssumption DEF Idle, RequestState, Pc, Outcome
  <1>4. TypeOK
    BY <1>1, <1>2, <1>3 DEF Init, TypeOK
  <1>5. ASSUME NEW r \in Request
        PROVE  Known(req[r]) /\ Passed(req[r]) /\ Vouched(r) /\ Timely(req[r])
    <2>1. req[r] = Idle
      BY DEF Init
    <2>2. Known(Idle)
      BY DEF Idle, Known, Caller
    <2>3. Passed(Idle)
      BY DEF Idle, Passed
    <2>4. Vouched(r) /\ Timely(req[r])
      BY <2>1 DEF Idle, Vouched, Timely
    <2>. QED BY <2>1, <2>2, <2>3, <2>4
  <1>6. Passage
    BY <1>5 DEF Passage
  <1>7. Clients /\ Cached /\ Sent
    BY DEF Init, Clients, Cached, Sent
  <1>8. AdmittedWasChecked /\ TrustIsPerIssuer /\ UserIsCurrent
    BY DEF Init, Idle, AdmittedWasChecked, TrustIsPerIssuer, UserIsCurrent
  <1>. QED BY <1>1, <1>4, <1>6, <1>7, <1>8 DEF IInv, Shared

\* Every step keeps the invariant.
LEMMA StepInvariant == IInv /\ [Next]_vars => IInv'
  <1> SUFFICES ASSUME IInv, [Next]_vars PROVE IInv'
    OBVIOUS
  <1>1. ASSUME NEW r \in Request, NEW token \in app.tokens \cup {NoToken}, NEW route \in app.routes,
               NEW ip \in Ip, Arrive(r, token, route, ip)
        PROVE  IInv'
    BY <1>1, ArriveKeeps
  <1>2. ASSUME NEW r \in Request, Services(r) PROVE IInv'
    BY <1>2, ResolverAnswersKeeps, KeyAnswersKeeps, CacheAnswersKeeps, ProvisionsKeeps, CacheStoresKeeps,
       StorageFailsKeeps DEF Services
  <1>3. ASSUME NEW r \in Request, AuthFails(r) \/ ProvisioningFails(r) PROVE IInv'
    BY <1>3, AuthFailsKeeps, ProvisioningFailsKeeps
  <1>4. ASSUME NEW r \in Request, RedisExecutes(r) \/ RecordArrives(r) \/ ScriptFails(r) PROVE IInv'
    BY <1>4, RedisExecutesKeeps, RecordArrivesKeeps, StorageFailsKeeps
  <1>5. ASSUME NEW i \in Issuer, NEW config \in Config \cup {NoConfig}, RegistryChanges(i, config) PROVE IInv'
    BY <1>5, RegistryChangesKeeps
  <1>6. ASSUME NEW k \in Identity, Evicts(k) PROVE IInv'
    BY <1>6, EvictsKeeps
  <1>7. ASSUME NEW command \in late, LateCommand(command[1], command[2]) PROVE IInv'
    BY <1>7, LateCommandKeeps
  <1>. QED BY <1>1, <1>2, <1>3, <1>4, <1>5, <1>6, <1>7, TickKeeps, StutterKeeps DEF Next

\* The inductive invariant: what a request is at each of its awaits, and what the key clients, the
\* cache and the counters in Redis mean to it, whatever the others do meanwhile.
THEOREM Invariance == Spec => []IInv
  <1>1. Init => IInv
    BY InitInvariant
  <1>2. IInv /\ [Next]_vars => IInv'
    BY StepInvariant
  <1>. QED BY <1>1, <1>2, PTL DEF Spec

\* The state of requests, issuers, cache and counters stays well formed.
THEOREM TypeCorrect == Spec => []TypeOK
  <1>1. IInv => TypeOK
    BY DEF IInv
  <1>. QED BY <1>1, Invariance, PTL

\* An admitted request passed JwtAuthGuard, the provisioning guard, RolesGuard and every rule of
\* RateLimitGuard, for any number of requests, applications and rules.
THEOREM AdmissionIsChecked == Spec => []AdmittedWasChecked
  <1>1. IInv => AdmittedWasChecked
    BY DEF IInv
  <1>. QED BY <1>1, Invariance, PTL

\* Keys and roles of a caller come from one trust decision of the issuer resolver, while the
\* registry of issuers changes at any await.
THEOREM TrustHolds == Spec => []TrustIsPerIssuer
  <1>1. IInv => TrustIsPerIssuer
    BY DEF IInv
  <1>. QED BY <1>1, Invariance, PTL

\* The user that the provisioning guard gives to a request is the caller's own and current.
THEOREM ServedIsCurrent == Spec => []UserIsCurrent
  <1>1. IInv => UserIsCurrent
    BY DEF IInv
  <1>. QED BY <1>1, Invariance, PTL

\* Only the script takes the question of a request out of its hands, and a refusal with 429
\* carries the time of the record.
LEMMA LimitSteps ==
  ASSUME IInv, Next, NEW r \in Request, req[r].pc = "limit"
  PROVE  \/ req'[r] = req[r]
         \/ RedisExecutes(r)
         \/ RecordArrives(r)
         \/ Waives(r)
  <1>1. req \in [Request -> RequestState]
    BY DEF IInv, TypeOK
  <1>2. ASSUME NEW s \in Request, NEW p, req' = [req EXCEPT ![s] = p], s # r PROVE req'[r] = req[r]
    BY <1>1, <1>2
  <1>3. ASSUME NEW s \in Request, NEW token \in app.tokens \cup {NoToken}, NEW route \in app.routes,
               NEW ip \in Ip, Arrive(s, token, route, ip)
        PROVE  req'[r] = req[r]
    BY <1>2, <1>3 DEF Arrive, Becomes
  <1>4. ASSUME NEW s \in Request,
               \/ ResolverAnswers(s) \/ KeyAnswers(s) \/ CacheAnswers(s) \/ Provisions(s) \/ CacheStores(s)
               \/ AuthFails(s) \/ ProvisioningFails(s)
        PROVE  req'[r] = req[r]
    <2>1. s # r
      BY <1>4 DEF ResolverAnswers, KeyAnswers, CacheAnswers, Provisions, CacheStores, AuthFails, ProvisioningFails
    <2>2. \E p : req' = [req EXCEPT ![s] = p]
      BY <1>4 DEF ResolverAnswers, KeyAnswers, CacheAnswers, Provisions, CacheStores, AuthFails,
                  ProvisioningFails, Rejects, Becomes
    <2>. QED BY <1>2, <2>1, <2>2
  <1>5. ASSUME NEW s \in Request, s # r,
               StorageFails(s) \/ RedisExecutes(s) \/ RecordArrives(s) \/ ScriptFails(s)
        PROVE  req'[r] = req[r]
    <2>1. \E p : req' = [req EXCEPT ![s] = p]
      BY <1>5 DEF StorageFails, RedisExecutes, RecordArrives, ScriptFails, Waives, Becomes
    <2>. QED BY <1>2, <1>5, <2>1
  <1>6. ASSUME StorageFails(r) \/ ScriptFails(r) PROVE Waives(r)
    BY <1>6 DEF StorageFails, ScriptFails
  <1>7. ASSUME \/ \E i \in Issuer, config \in Config \cup {NoConfig} : RegistryChanges(i, config)
               \/ \E k \in Identity : Evicts(k)
               \/ \E command \in late : LateCommand(command[1], command[2])
               \/ Tick
        PROVE  req'[r] = req[r]
    BY <1>7 DEF RegistryChanges, Evicts, LateCommand, Tick
  <1>. QED BY <1>3, <1>4, <1>5, <1>6, <1>7 DEF Next, Services

\* Redis approves no more than the limit in a window, keeps its block, and says for how long.
THEOREM LimitIsHeld == Spec => LimitHolds
  <1> DEFINE Held(r) ==
        LET q == req[r]
            s == req'[r].reply
            b == BucketOf(q) IN
        /\ q.pc = "limit" /\ q.asked /\ req'[r].pc = "limit" /\ ~req'[r].asked /\ ~s.error
           => /\ ~s.blocked => window'[b].approved <= RuleOf(q).limit /\ now >= window[b].blockedUntil
              /\ s.blocked => now + s.retry * Second >= window'[b].blockedUntil
        /\ q.pc = "limit" /\ req'[r].outcome = "429" => req'[r].retry >= q.reply.retry
  <1>1. ASSUME IInv, Next, NEW r \in Request PROVE Held(r)
    <2> SUFFICES ASSUME req[r].pc = "limit" PROVE Held(r)
      OBVIOUS
    <2>1. /\ req \in [Request -> RequestState] /\ req[r] \in RequestState /\ req[r].outcome = "none"
          /\ RuleOf(req[r]) \in ResolvedRule /\ BucketOf(req[r]) \in Bucket
      BY <1>1, LimitHas DEF IInv, TypeOK
    <2>2. CASE req'[r] = req[r]
      BY <2>1, <2>2
    <2>3. CASE RedisExecutes(r)
      <3>1. /\ Increment(BucketOf(req[r]), RuleOf(req[r])) /\ now' = now
            /\ req'[r] = [req[r] EXCEPT !.asked = FALSE,
                                        !.reply = Script(BucketOf(req[r]), RuleOf(req[r])).reply]
        BY <2>1, <2>3 DEF RedisExecutes, Becomes
      <3>2. LET s == Script(BucketOf(req[r]), RuleOf(req[r])).reply
                b == BucketOf(req[r]) IN
            ~s.error =>
              /\ ~s.blocked => window'[b].approved <= RuleOf(req[r]).limit /\ now >= window[b].blockedUntil
              /\ s.blocked => now + s.retry * Second >= window'[b].blockedUntil
        BY <1>1, <2>1, <3>1, IncrementCounts DEF IInv, TypeOK, Shared
      <3>3. /\ req'[r].reply = Script(BucketOf(req[r]), RuleOf(req[r])).reply
            /\ req'[r].outcome = "none"
        BY <2>1, <3>1 DEF RequestState
      <3>. QED BY <3>2, <3>3
    <2>4. CASE RecordArrives(r)
      <3>1. req[r].reply \in Reply
        BY <2>1, <2>4 DEF RecordArrives, RequestState
      <3>2. CASE req[r].reply.blocked
        <4>1. PICK retry \in Nat : /\ retry = IF req[r].reply.retry > 1 THEN req[r].reply.retry ELSE 1
                                   /\ retry >= req[r].reply.retry
          BY <3>1 DEF Reply
        <4>2. req'[r] = [Rejected(req[r], "429") EXCEPT !.retry = retry]
          BY <2>1, <2>4, <3>2, <4>1 DEF RecordArrives, Becomes
        <4>3. req'[r].retry = retry /\ req'[r].pc = "done"
          BY <2>1, <4>2 DEF Rejected, RequestState
        <4>. QED BY <4>1, <4>3
      <3>3. CASE ~req[r].reply.blocked
        <4>1. PICK q : q = [req[r] EXCEPT !.approved = req[r].approved \cup {req[r].rule}]
          OBVIOUS
        <4>2. req'[r] = Asks(q, req[r].rule + 1) /\ q \in RequestState /\ q.outcome = "none"
          BY <2>1, <2>4, <3>3, <4>1, LimitHas DEF RecordArrives, Becomes, RequestState
        <4>3. req'[r].outcome # "429" /\ (req'[r].pc = "limit" => req'[r].asked)
          BY <4>2 DEF Asks, RequestState
        <4>. QED BY <4>3
      <3>. QED BY <3>2, <3>3
    <2>5. CASE Waives(r)
      <3>1. CASE app.policy = "deny"
        <4>1. req'[r] = Rejected(req[r], "503")
          BY <2>1, <2>5, <3>1 DEF Waives, Becomes
        <4>2. req'[r].outcome = "503" /\ req'[r].pc = "done"
          BY <2>1, <4>1 DEF Rejected, RequestState
        <4>. QED BY <4>2
      <3>2. CASE app.policy # "deny"
        <4>1. PICK q : q = [req[r] EXCEPT !.waived = req[r].waived \cup {req[r].rule}]
          OBVIOUS
        <4>2. req'[r] = Asks(q, req[r].rule + 1) /\ q \in RequestState /\ q.outcome = "none"
          BY <2>1, <2>5, <3>2, <4>1, LimitHas DEF Waives, Becomes, RequestState
        <4>3. req'[r].outcome # "429" /\ (req'[r].pc = "limit" => req'[r].asked)
          BY <4>2 DEF Asks, RequestState
        <4>. QED BY <4>3
      <3>. QED BY <3>1, <3>2
    <2>. QED BY <1>1, <2>2, <2>3, <2>4, <2>5, LimitSteps
  <1>2. ASSUME IInv, UNCHANGED vars, NEW r \in Request PROVE Held(r)
    <2>1. req'[r] = req[r] /\ req[r] \in RequestState
      BY <1>2 DEF vars, IInv, TypeOK
    <2>2. req[r].pc = "limit" => req[r].outcome = "none"
      BY <1>2, LimitHas
    <2>. QED BY <2>1, <2>2
  <1>3. IInv /\ [Next]_vars => [\A r \in Request : Held(r)]_vars
    BY <1>1, <1>2
  <1>4. IInv /\ [Next]_vars =>
          [\A r \in Request :
             LET q == req[r]
                 s == req'[r].reply
                 b == BucketOf(q) IN
             /\ q.pc = "limit" /\ q.asked /\ req'[r].pc = "limit" /\ ~req'[r].asked /\ ~s.error
                => /\ ~s.blocked => window'[b].approved <= RuleOf(q).limit /\ now >= window[b].blockedUntil
                   /\ s.blocked => now + s.retry * Second >= window'[b].blockedUntil
             /\ q.pc = "limit" /\ req'[r].outcome = "429" => req'[r].retry >= q.reply.retry]_vars
    BY <1>3
  <1>. QED BY <1>4, Invariance, PTL DEF Spec, LimitHolds
=============================================================================
