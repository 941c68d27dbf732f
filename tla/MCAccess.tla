------------------------------ MODULE MCAccess ------------------------------
(* The guards on small instances: five applications. *)
EXTENDS AccessInvariant

CONSTANTS i1, i2, s1, k1, k2, addr, perCaller, perAddress

Of(name) == [name |-> name, limit |-> Absent, ttl |-> Absent, block |-> Absent, key |-> Absent]
RouteOf(public, roles, rules) == [public |-> public, roles |-> roles, rules |-> rules]
\* A token of the first issuer; one signed with keys that it has only after a change of the registry;
\* one of another issuer with a subject of the same name; and one for another audience.
Good == [iss |-> i1, sub |-> s1, signedBy |-> k1, audience |-> TRUE, role |-> TRUE]
Rotated == [Good EXCEPT !.signedBy = k2]
Twin == [Good EXCEPT !.iss = i2]
Elsewhere == [Good EXCEPT !.audience = FALSE]
MCToken == {Good, Rotated, Twin, Elsewhere}
AppOf(load, mode, cached, policy, tokens, routes) ==
  [load |-> load, mode |-> mode, cached |-> cached, policy |-> policy, routes |-> routes,
   tokens |-> tokens]

MCLimits == [n \in RuleName |-> IF n = perAddress
                                THEN [limit |-> 1, ttl |-> 2, block |-> 0, key |-> "ip"] ELSE Undefined]
Inline == [Of(perCaller) EXCEPT !.limit = 1, !.ttl = 1, !.block = 2]
Overridden == [Inline EXCEPT !.limit = 2, !.ttl = 2]  \* on another route, in the same counter
Unblocked == [Of(perAddress) EXCEPT !.block = Undefined]  \* the registered block is undone

MCApp ==
  {AppOf(2, "dynamic", TRUE, "allow", {Good, Rotated, Twin}, {RouteOf(FALSE, TRUE, <<>>)}),
   AppOf(2, "static", FALSE, "deny", {Good, Twin, Elsewhere},
         {RouteOf(FALSE, FALSE, <<Inline, Of(perAddress)>>)}),
   AppOf(3, "static", FALSE, "allow", {}, {RouteOf(TRUE, FALSE, <<Inline>>), RouteOf(TRUE, FALSE, <<Overridden>>)}),
   AppOf(2, "static", FALSE, "allow", {}, {RouteOf(TRUE, FALSE, <<Of(perAddress)>>),
                                           RouteOf(TRUE, FALSE, <<Unblocked>>)}),
   AppOf(3, "static", FALSE, "allow", {}, {RouteOf(TRUE, FALSE, <<Of(perAddress)>>),
                                           RouteOf(TRUE, FALSE, <<Of(perAddress), Of(perCaller)>>)})}

MCTracker == Identity \cup Ip

MCInit == Init /\ registry = [i \in Issuer |-> IF app.mode = "static" THEN NoConfig
                                               ELSE [uri |-> k1, trustRoles |-> i = i1]]
MCSpec == MCInit /\ [][Next]_vars /\ Fairness
=============================================================================
