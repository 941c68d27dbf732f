------------------------------ MODULE RateLimit ------------------------------
(***************************************************************************)
(* The counters of SharedRateLimitModule in Redis: the script of            *)
(* RedisThrottlerStorage (src/rate-limit/storage), which counts a hit of a  *)
(* tracker in a fixed window and blocks the tracker over the limit, and the *)
(* rules of RateLimitGuard that it counts for (src/rate-limit/guards).      *)
(***************************************************************************)
EXTENDS Integers, Sequences

CONSTANTS
  RuleName, Tracker,
  Limits,       \* options.limits: the registered definition of a name, or Undefined
  Undefined, NoExpiry,
  Absent,       \* a field that a rule does not have, unlike one that is undefined
  Second,       \* ticks of the clock in a second
  MaxTime       \* bound of the clock

Bucket == RuleName \X Tracker
Definition == [limit : Nat, ttl : Nat \ {0}, block : Nat \cup {Undefined}, key : {"identity", "ip"}]
ASSUME LimitsAssumption == Limits \in [RuleName -> Definition \cup {Undefined}]
ASSUME NoneAssumption ==
  /\ {Undefined, Absent} \cap (Nat \cup Definition \cup {"identity", "ip"}) = {}
  /\ Absent # Undefined /\ NoExpiry \notin Nat
ASSUME ClockAssumption == Second \in Nat \ {0} /\ MaxTime \in Nat

VARIABLES
  now,
  hits,         \* the hits key of a bucket: its count and the time it expires
  blocks,       \* the time the block key of a bucket expires
  window        \* history: the end of the bucket's window, approvals in it, and the block promised

limitVars == <<hits, blocks, window>>

LimitTypeOK ==
  /\ now \in 0..MaxTime
  /\ hits \in [Bucket -> [count : Nat, expires : Nat \cup {NoExpiry}]]
  /\ blocks \in [Bucket -> Nat \cup {NoExpiry}]
  /\ window \in [Bucket -> [ends : Int, approved : Nat, blockedUntil : Nat]]

LimitInit ==
  /\ now = 0
  /\ hits = [b \in Bucket |-> [count |-> 0, expires |-> NoExpiry]]
  /\ blocks = [b \in Bucket |-> NoExpiry]
  /\ window = [b \in Bucket |-> [ends |-> -1, approved |-> 0, blockedUntil |-> 0]]

-----------------------------------------------------------------------------
(* Rules *)

\* A rule of a route: a name with the fields it overrides.
Rule == [name : RuleName, limit : Nat \cup {Undefined, Absent},
         ttl : (Nat \ {0}) \cup {Undefined, Absent}, block : Nat \cup {Undefined, Absent},
         key : {"identity", "ip", Undefined, Absent}]

ResolvedRule == [name : RuleName, limit : Nat, ttl : Nat \ {0}, block : Nat, key : {"identity", "ip"}]

\* resolve: the fields that a rule does not have are the registered ones, the others override them,
\* undefined too; and a rule without limit or window is an error.
Overrides(rule, registered, field) ==
  IF rule[field] # Absent THEN rule[field]
  ELSE IF registered = Undefined THEN Undefined ELSE registered[field]
Resolvable(rule) ==
  \A field \in {"limit", "ttl"} : Overrides(rule, Limits[rule.name], field) # Undefined
Resolve(rule) ==
  LET field(f) == Overrides(rule, Limits[rule.name], f)
      or(v, default) == IF v = Undefined THEN default ELSE v IN
  [name |-> rule.name, limit |-> field("limit"), ttl |-> field("ttl"),
   block |-> or(field("block"), field("ttl")), key |-> or(field("key"), "identity")]

-----------------------------------------------------------------------------
(* Redis: a key is there until the tick after the one it expires at, at which PTTL is 0 *)

Pttl(expires) == IF expires = NoExpiry \/ now > expires THEN -2 ELSE expires - now

Reply == [error : BOOLEAN, blocked : BOOLEAN, retry : Nat]
CeilSeconds(ticks) == (ticks + Second - 1) \div Second

\* Mutant of Script: the block key is not looked at first.
ScriptUnblocked(b, rule) ==
  LET live == Pttl(hits[b].expires) >= 0
      count == IF live THEN hits[b].count + 1 ELSE 1
      expires == IF live THEN hits[b].expires ELSE now + rule.ttl IN
  [counted |-> TRUE, hits |-> [count |-> count, expires |-> expires],
   block |-> IF count > rule.limit THEN now + rule.block ELSE blocks[b],
   reply |-> [error |-> FALSE, blocked |-> count > rule.limit,
              retry |-> IF count > rule.limit THEN CeilSeconds(rule.block) ELSE 0]]

\* What the script returns and leaves for one hit of a rule.
Script(b, rule) ==
  LET blockTtl == Pttl(blocks[b])
      live == Pttl(hits[b].expires) >= 0
      count == IF live THEN hits[b].count + 1 ELSE 1
      expires == IF live THEN hits[b].expires ELSE now + rule.ttl
      over == count > rule.limit
      block == IF rule.block > 0 THEN rule.block ELSE expires - now
      fails == over /\ block = 0  \* SET with PX 0 is an error; the hit stays counted
  IN IF blockTtl > 0
     THEN [counted |-> FALSE, hits |-> hits[b], block |-> blocks[b],
           reply |-> [error |-> FALSE, blocked |-> TRUE, retry |-> CeilSeconds(blockTtl)]]
     ELSE [counted |-> TRUE, hits |-> [count |-> count, expires |-> expires],
           block |-> IF over /\ ~fails THEN now + block ELSE blocks[b],
           reply |-> [error |-> fails, blocked |-> over /\ ~fails,
                      retry |-> IF over /\ ~fails THEN CeilSeconds(block) ELSE 0]]

Approves(s) == s.counted /\ ~s.reply.error /\ ~s.reply.blocked

\* Redis executes the script for a hit of b.
Increment(b, rule) ==
  LET s == Script(b, rule)
      begins == s.counted /\ now > window[b].ends IN
  /\ hits' = [hits EXCEPT ![b] = s.hits]
  /\ blocks' = [blocks EXCEPT ![b] = s.block]
  /\ window' = [window EXCEPT ![b] =
       [ends |-> IF begins THEN now + rule.ttl ELSE @.ends,
        approved |-> (IF begins THEN 0 ELSE @.approved) + (IF Approves(s) THEN 1 ELSE 0),
        blockedUntil |-> IF s.reply.blocked /\ s.counted THEN s.block ELSE @.blockedUntil]]
=============================================================================
