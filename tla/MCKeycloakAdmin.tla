--------------------------- MODULE MCKeycloakAdmin ---------------------------
(* The Keycloak service on a small instance. *)
EXTENDS KeycloakAdminInvariant, TLC

CONSTANTS u1, u2, a, b, p, P, q

MCLowercase == [v \in Value |-> IF v = P THEN p ELSE v]

Nothing == [k \in Key |-> Unset]
With(k, v) == [Nothing EXCEPT ![k] = v]
On(op, user, patch, attributes) == [op |-> op, user |-> user, patch |-> patch, attributes |-> attributes]
MCRequest ==
  {On("updateUser", u1, [With(a, Empty) EXCEPT !["username"] = P], TRUE),
   On("updateUser", u1, With("username", q), FALSE),
   On("deleteUser", u1, Nothing, FALSE),
   On("getUser", ".", Nothing, FALSE)}

Profiles ==
  (u1 :> [k \in Key |-> IF k = "lastName" THEN None ELSE IF k \in {"firstName", b} THEN q ELSE p])
  @@ (u2 :> [k \in Key |-> IF k = "username" THEN q ELSE None])
MCInit == users = Profiles /\ Init
MCSpec == MCInit /\ [][Next]_vars /\ Fairness
=============================================================================
