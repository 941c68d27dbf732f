------------------------ MODULE KeycloakAdminInvariant ------------------------
(***************************************************************************)
(* The inductive invariant of KeycloakAdmin: what is true of the cached    *)
(* token, of the one token request and of every call between two steps.    *)
(***************************************************************************)
EXTENDS KeycloakAdmin

\* The token request in flight: it is as old as its timeout at most, its token is the
\* last one issued, and was issued after every token that a call uses or was refused.
RequestOf ==
  /\ tokenRequest # NoRequest => /\ ~Fresh
                                 /\ now <= tokenRequest.deadline
                                 /\ tokenRequest.deadline <= now + Timeout
  /\ tokenRequest.minted # 0 =>
       /\ tokenRequest # NoRequest
       /\ tokenRequest.deadline + Lifetime <= issued[tokenRequest.minted].expires + Timeout
       /\ \A i \in Call : call[i].token < tokenRequest.minted /\ call[i].refused < tokenRequest.minted

\* The cached token is forgotten a timeout before it expires, or earlier.
CachedOf == token # NoToken => token.expiresAt + Timeout <= issued[token.id].expires

\* What a call holds at each await, and what Keycloak did for it.
CallOf(i) ==
  LET c == call[i]
      unanswered == reply[i].status = 0 IN
  /\ c.pc = "idle" => c = Idle
  /\ c.pc = "token" => c.token = 0 /\ tokenRequest # NoRequest
  /\ c.pc = "sent" => /\ c.token # 0
                      /\ now <= c.deadline /\ c.deadline < issued[c.token].expires
  /\ c.pc # "done" => c.result = "none"
  /\ c.pc \in {"token", "sent"} \/ c.token # 0 => c.request \in Request /\ c.request.user \in User
  /\ c.pc = "done" /\ c.token # 0 => c.result = "RequestError"
  /\ c.token = 0 => unanswered
  /\ c.pc # "done" \/ c.token # 0 =>
       executed[i] = IF reply[i].status = 200 /\ c.step = "main" THEN 1 ELSE 0
  /\ c.attempt = 2 /\ c.token # 0 => c.token > c.refused

\* The profile that a call with attributes writes whole is one that it read, and an
\* answer that has not come says nothing.
ProfileOf(i) ==
  LET c == call[i] IN
  /\ reply[i].status = 0 => reply[i].field = "none"
  /\ c.pc \in {"token", "sent"} \/ c.token # 0 =>
       (c.step = "read" => c.request.op = "updateUser" /\ c.request.attributes)
  /\ c.step = "read" /\ reply[i].status = 200 => c.profile # NoProfile
  /\ c.step = "main" /\ c.request # NoRequest /\ c.request.op = "updateUser" /\ c.request.attributes
       /\ (c.pc \in {"token", "sent"} \/ c.token # 0)
       => c.profile # NoProfile

\* Keycloak stores user names and addresses in lower case, each for one user.
UsersOf ==
  \A u \in User : users[u] # NoProfile =>
    /\ Taken(u, users[u]) = {}
    /\ \A f \in {"username", "email"} : Stored(f, users[u][f]) = users[u][f]

Protocol ==
  /\ RequestOf /\ CachedOf /\ UsersOf
  /\ \A i \in Call : CallOf(i) /\ ProfileOf(i)

\* Inductive: getToken, the 401 of authorizedFetch and the timeouts keep it together.
IInv == TypeOK /\ Protocol
=============================================================================
