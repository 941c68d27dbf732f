---------------------------- MODULE KeycloakAdmin ----------------------------
(***************************************************************************)
(* KeycloakAdminService (src/keycloak-admin/services): calls that share one *)
(* cached access token and one pending token request, send again once after *)
(* a 401, give up at a timeout, and for attributes read the profile before  *)
(* they write it whole.  Keycloak itself is external; what the stub of the  *)
(* library does with a user is StubOutcome.                                 *)
(***************************************************************************)
EXTENDS Integers, Sequences

CONSTANTS
  Calls,        \* how many calls are made, numbered as they start
  Request,      \* what a call may ask for
  User,         \* ids of users
  Attribute, Value, Lowercase,   \* names, values of fields, and their lower case
  None, Empty, Unset,            \* no value; "" or an empty list; not in the body
  NoToken, NoProfile,
  Lifetime,     \* of an access token, by Keycloak's clock
  Margin,       \* TOKEN_EXPIRY_MARGIN_MS
  Timeout,      \* timeoutMs, of one HTTP request
  MaxTime,      \* bound of the clock
  MaxFaults     \* revocations, refusals, broken connections, malformed answers

Call == 1..Calls
Field == {"username", "email", "firstName", "lastName"}
Key == Field \cup Attribute
Profile == [Key -> Value \cup {None}]
Patch == [Key -> Value \cup {Empty, Unset}]

Operation == {"getUser", "updateUser", "logoutUser", "executeActionsEmail", "listCredentials", "deleteUser"}
\* attributes: the patch has an attributes object, be it empty.
Requests == [op : Operation, user : User \cup {"."}, patch : Patch, attributes : BOOLEAN]

ASSUME RequestAssumption ==
  /\ Request \subseteq Requests
  /\ \A r \in Request : ~r.attributes => \A k \in Attribute : r.patch[k] = Unset
\* A token is fetched and then used within two timeouts: the margin covers both.
ASSUME TimeAssumption ==
  /\ {Lifetime, Margin, Timeout} \subseteq Nat \ {0}
  /\ 2 * Margin <= Lifetime /\ 2 * Timeout <= Margin
  /\ MaxTime \in Nat
\* Lower case is lower case; what stands for no value is not a value.
ASSUME ValueAssumption ==
  /\ Lowercase \in [Value -> Value]
  /\ \A v \in Value : Lowercase[Lowercase[v]] = Lowercase[v]
  /\ \A v \in Value : v \notin {None, Empty, Unset}
  /\ None # Empty /\ None # Unset /\ Empty # Unset
  /\ NoProfile \notin Profile

VARIABLES
  token,        \* this.token
  tokenRequest, \* this.pendingToken: the request in flight, or NoRequest
  call,         \* what each call is at
  now,
  \* Keycloak
  users,        \* the profiles, of those not deleted
  issued,       \* the tokens it issued
  reply,        \* its answer to the last request of each call
  \* history and budgets
  executed,     \* how often it did what the call asked for
  faults

serviceVars == <<token, tokenRequest, call>>
serverVars == <<users, issued, executed>>
vars == <<serviceVars, serverVars, reply, faults, now>>

Result == {"none", "ok", "NotFound", "Conflict", "Validation", "Authentication", "Forbidden",
           "RequestError", "untyped"}
Status == {200, 400, 401, 403, 404, 409, 500}
NoRequest == [deadline |-> -1, minted |-> 0]
NoReply == [status |-> 0, field |-> "none"]
Idle == [pc |-> "idle", request |-> NoRequest, step |-> "main", attempt |-> 1, token |-> 0,
         refused |-> 0, deadline |-> -1, profile |-> NoProfile, result |-> "none"]

CallState ==
  [pc : {"idle", "token", "sent", "done"}, request : Request \cup {NoRequest}, step : {"read", "main"},
   attempt : 1..2, token : {0} \cup DOMAIN issued, refused : {0} \cup DOMAIN issued, deadline : Int,
   profile : Profile \cup {NoProfile}, result : Result]
Answer == [status : Status \cup {0}, field : {"none", "username", "email", "both"}]

TypeOK ==
  /\ now \in 0..MaxTime /\ faults \in Nat
  /\ issued \in Seq([expires : Nat, revoked : BOOLEAN])
  /\ token = NoToken \/ token \in [id : DOMAIN issued, expiresAt : Int]
  /\ tokenRequest \in [deadline : Int, minted : {0} \cup DOMAIN issued]
  /\ call \in [Call -> CallState]
  /\ users \in [User -> Profile \cup {NoProfile}]
  /\ reply \in [Call -> Answer]
  /\ executed \in [Call -> Nat]

Fault == faults < MaxFaults /\ faults' = faults + 1

-----------------------------------------------------------------------------
(* Profiles: what a body of updateUser holds, and what the stub does with a patch *)

\* Mutant of Overlaid: the fields that the patch leaves out are left out of the body.
OverlaidAttributes(patch, profile) ==
  [k \in Key |-> IF patch[k] # Unset THEN patch[k]
                 ELSE IF k \in Field \/ profile[k] = None THEN Unset ELSE profile[k]]

Overlaid(patch, profile) ==
  [k \in Key |-> IF patch[k] # Unset THEN patch[k]
                 ELSE IF profile[k] = None THEN Unset ELSE profile[k]]

\* The body of the PUT: the patch, or for attributes the profile read with the patch over it.
Body(c) == IF c.request.attributes THEN Overlaid(c.request.patch, c.profile) ELSE c.request.patch

\* How a value is stored.
Stored(k, v) ==
  IF v = Empty THEN None
  ELSE IF k \in {"username", "email"} /\ v \in Value THEN Lowercase[v] ELSE v
StubPatched(profile, patch) ==
  [k \in Key |-> IF patch[k] = Unset THEN profile[k] ELSE Stored(k, patch[k])]
\* isTaken: the fields of the profile that another user has.
Taken(u, profile) ==
  {k \in {"username", "email"} : profile[k] # None
     /\ \E w \in User \ {u} : users[w] # NoProfile /\ users[w][k] = profile[k]}

\* The status that stands for what the stub returns or throws, and the users it leaves.
StubOutcome(r) ==
  LET profile == users[r.user]
      patched == StubPatched(profile, r.patch)
      given(f) == r.patch[f] # Unset
      answers(status, after) == [status |-> status, users |-> [users EXCEPT ![r.user] = after]] IN
  IF profile = NoProfile THEN answers(404, profile)
  ELSE IF r.op = "updateUser"
       THEN IF patched["username"] = None THEN answers(400, profile)
            ELSE IF \E f \in Taken(r.user, patched) : given(f) THEN answers(409, profile)
            ELSE answers(200, patched)
       ELSE IF r.op = "executeActionsEmail" /\ profile["email"] = None THEN answers(400, profile)
            ELSE answers(200, IF r.op = "deleteUser" THEN NoProfile ELSE profile)

Init ==
  /\ token = NoToken /\ tokenRequest = NoRequest
  /\ call = [c \in Call |-> Idle]
  /\ now = 0 /\ faults = 0
  /\ users \in [User -> Profile]
  /\ \A u \in User : users[u]["username"] # None /\ Taken(u, users[u]) = {}
                      /\ \A f \in {"username", "email"} : Stored(f, users[u][f]) = users[u][f]
  /\ issued = <<>> /\ reply = [c \in Call |-> NoReply]
  /\ executed = [c \in Call |-> 0]

-----------------------------------------------------------------------------
(* The access token *)

Min2(a, b) == IF a < b THEN a ELSE b
\* Of a request made now; the clock stops at MaxTime, so timers that would fire later fire then.
Deadline == Min2(now + Timeout, MaxTime)
\* Mutant of ExpiresAt: no margin.
ExpiresAtLifetime == now + Lifetime
ExpiresAt == now + Lifetime - Min2(Margin, Lifetime \div 2)

Sent(c, t) == [c EXCEPT !.pc = "sent", !.token = t, !.deadline = Deadline]
Settled(c, result) ==
  [c EXCEPT !.pc = "done", !.result = result, !.deadline = -1, !.refused = 0]

\* The call that awaits a token, asks anew after a 401, goes on after its read, and starts.
Awaiting(c) == [c EXCEPT !.pc = "token", !.token = 0]
Refused(c) == [c EXCEPT !.attempt = 2, !.refused = c.token]
Proceeding(c) == [c EXCEPT !.step = "main", !.attempt = 1, !.refused = 0]
Started(c, r) ==
  [c EXCEPT !.request = r,
            !.step = IF r.op = "updateUser" /\ r.attributes THEN "read" ELSE "main"]

Fresh == token # NoToken /\ now < token.expiresAt

\* The one token request is made unless it is made already.
RequestToken ==
  tokenRequest' = IF tokenRequest # NoRequest THEN tokenRequest
                  ELSE [NoRequest EXCEPT !.deadline = Deadline]

\* getToken for the call c, and its request when the cached token is fresh; otherwise
\* the call awaits the token request.
GetToken(i, c) ==
  /\ reply' = [reply EXCEPT ![i] = NoReply]
  /\ \/ /\ Fresh
        /\ call' = [call EXCEPT ![i] = Sent(c, token.id)]
        /\ UNCHANGED tokenRequest
     \/ /\ ~Fresh
        /\ call' = [call EXCEPT ![i] = Awaiting(c)]
        /\ RequestToken

\* Mutant of TokenArrives: a response without a token is taken for one.
TokenArrivesUnchecked ==
  /\ tokenRequest # NoRequest
  /\ token' = [id |-> tokenRequest.minted, expiresAt |-> ExpiresAt]
  /\ tokenRequest' = NoRequest
  /\ call' = [i \in Call |-> IF call[i].pc = "token" THEN Sent(call[i], token'.id) ELSE call[i]]
  /\ UNCHANGED <<serverVars, reply, faults, now>>

\* requestToken resolves: every call that awaits it sends its request at once.
TokenArrives ==
  /\ tokenRequest.minted # 0
  /\ token' = [id |-> tokenRequest.minted, expiresAt |-> ExpiresAt]
  /\ tokenRequest' = NoRequest
  /\ call' = [i \in Call |-> IF call[i].pc = "token" THEN Sent(call[i], token'.id) ELSE call[i]]
  /\ UNCHANGED <<serverVars, reply, faults, now>>

\* It rejects, and so does every call that awaits it.
TokenRejects(result) ==
  /\ tokenRequest # NoRequest
  /\ tokenRequest' = NoRequest
  /\ call' = [i \in Call |-> IF call[i].pc = "token" THEN Settled(call[i], result) ELSE call[i]]
  /\ UNCHANGED <<token, serverVars, reply, now>>

\* 400 or 401; another status, a malformed body or no connection; a body that is not JSON.
TokenFails == Fault /\ \E r \in {"Authentication", "RequestError", "untyped"} : TokenRejects(r)

\* The timeout ends the request before its headers arrived, or while its body is read.
\* Mutant of TokenTimeout: the token request has no timeout.
TokenTimeoutNever == FALSE
TokenTimeout ==
  /\ tokenRequest # NoRequest /\ now >= tokenRequest.deadline
  /\ TokenRejects("RequestError") \/ TokenRejects("untyped")
  /\ UNCHANGED faults

-----------------------------------------------------------------------------
(* A call *)

RequireUserId(r) == r.user \in User

Start(i, r) ==
  /\ call[i].pc = "idle" /\ \A j \in 1..(i - 1) : call[j].pc # "idle"
  /\ IF ~RequireUserId(r)
     THEN /\ call' = [call EXCEPT ![i] = Settled(Started(@, r), "RequestError")]
          /\ UNCHANGED <<tokenRequest, reply>>
     ELSE GetToken(i, Started(call[i], r))
  /\ UNCHANGED <<token, serverVars, faults, now>>

\* assertOk
AssertOk(status) ==
  CASE status = 200 -> "ok" [] status = 401 -> "Authentication" [] status = 403 -> "Forbidden"
    [] OTHER -> "RequestError"
\* The body of a 409 names the one field that another user has, or both, or none.
ConflictField(answer) == answer.field \in {"username", "email"}
\* assertUserOk
Failure(answer) ==
  CASE answer.status = 404 -> "NotFound"
    [] answer.status = 409 -> IF ConflictField(answer) THEN "Conflict" ELSE "RequestError"
    [] answer.status = 400 -> "Validation"
    [] OTHER -> AssertOk(answer.status)

Answered(i) == call[i].pc = "sent" /\ reply[i].status # 0

\* Mutant of Unauthorized: the cached token stays.
UnauthorizedKeeping(i) ==
  /\ Answered(i) /\ reply[i].status = 401 /\ call[i].attempt = 1
  /\ GetToken(i, Refused(call[i]))
  /\ UNCHANGED <<token, serverVars, faults, now>>

\* A first 401 discards the cached token, whichever it is, and the request is sent again.
Unauthorized(i) ==
  /\ Answered(i) /\ reply[i].status = 401 /\ call[i].attempt = 1
  /\ token' = NoToken
  /\ reply' = [reply EXCEPT ![i] = NoReply]
  /\ call' = [call EXCEPT ![i] = Awaiting(Refused(@))]
  /\ RequestToken
  /\ UNCHANGED <<serverVars, faults, now>>

\* getUser within updateUser has answered, and the PUT follows.
ProfileRead(i) ==
  /\ Answered(i) /\ call[i].step = "read" /\ reply[i].status = 200
  /\ GetToken(i, Proceeding(call[i]))
  /\ UNCHANGED <<token, serverVars, faults, now>>

\* The call is over with its answer, and forgets it.
SettlesAnswered(i, result) ==
  /\ call' = [call EXCEPT ![i] = Settled(Idle, result)]
  /\ reply' = [reply EXCEPT ![i] = NoReply]
  /\ UNCHANGED <<token, tokenRequest, serverVars, now>>

Completes(i) ==
  /\ Answered(i)
  /\ reply[i].status # 401 \/ call[i].attempt = 2
  /\ reply[i].status # 200 \/ call[i].step = "main"
  /\ SettlesAnswered(i, Failure(reply[i]))
  /\ UNCHANGED faults

ReadsUser(c) == c.step = "read" \/ c.request.op = "getUser"
ReadsCredentials(c) == c.request.op = "listCredentials"
\* The body of a 200 is not JSON, or not a user or a list of credentials.
Malformed(i) ==
  /\ Answered(i) /\ reply[i].status = 200
  /\ ReadsUser(call[i]) \/ ReadsCredentials(call[i])
  /\ SettlesAnswered(i, "RequestError")
  /\ Fault

\* No answer: the connection breaks, or the time is over.  Nothing is sent again.
GivesUp(i) ==
  /\ call[i].pc = "sent"
  /\ call' = [call EXCEPT ![i] = Settled(@, "RequestError")]
  /\ UNCHANGED <<token, tokenRequest, serverVars, reply, now>>
ConnectionBreaks(i) == GivesUp(i) /\ Fault
\* Mutant of TimesOut: the request is sent once more.
TimesOutResending(i) ==
  /\ call[i].pc = "sent" /\ now >= call[i].deadline /\ call[i].attempt = 1
  /\ GetToken(i, [call[i] EXCEPT !.attempt = 2])
  /\ UNCHANGED <<token, serverVars, faults, now>>
TimesOut(i) == now >= call[i].deadline /\ GivesUp(i) /\ UNCHANGED faults

-----------------------------------------------------------------------------
(* Keycloak *)

Mint ==
  /\ tokenRequest # NoRequest /\ tokenRequest.minted = 0
  /\ issued' = Append(issued, [expires |-> now + Lifetime, revoked |-> FALSE])
  /\ tokenRequest' = [tokenRequest EXCEPT !.minted = Len(issued')]
  /\ UNCHANGED <<token, call, users, reply, executed, faults, now>>

Revoke(t) ==
  /\ ~issued[t].revoked /\ Fault
  /\ issued' = [issued EXCEPT ![t].revoked = TRUE]
  /\ UNCHANGED <<serviceVars, users, reply, executed, now>>

Live(t) == ~issued[t].revoked /\ now < issued[t].expires

\* The request of i is on its way to Keycloak; its call may have given up already.
Underway(i) == call[i].pc \in {"sent", "done"} /\ call[i].token # 0 /\ reply[i].status = 0

Replies(i, status, field) ==
  reply' = [reply EXCEPT ![i] = [status |-> status, field |-> field]]

Unauthenticated(i) ==
  /\ Underway(i) /\ ~Live(call[i].token) /\ Replies(i, 401, "none")
  /\ UNCHANGED <<serviceVars, serverVars, faults, now>>

\* A role that is missing, a failure, or a 409 of something else.
Refuses(i) ==
  /\ Underway(i) /\ Live(call[i].token) /\ Fault
  /\ \E status \in {403, 409, 500} : Replies(i, status, "none")
  /\ UNCHANGED <<serviceVars, serverVars, now>>

\* A body with attributes is the whole profile; otherwise the fields left out stay.
Put(u, body, whole) ==
  [k \in Key |-> IF body[k] # Unset THEN Stored(k, body[k])
               ELSE IF whole \/ users[u] = NoProfile THEN None ELSE users[u][k]]

ServesRead(i) ==
  /\ call[i].step = "read"
  /\ LET profile == users[call[i].request.user] IN
     /\ Replies(i, IF profile = NoProfile THEN 404 ELSE 200, "none")
     /\ call' = [call EXCEPT ![i].profile = profile]
  /\ UNCHANGED <<users, executed>>

After(i) == Put(call[i].request.user, Body(call[i]), call[i].request.attributes)
UpdateStatus(u, after) ==
  IF users[u] = NoProfile THEN 404 ELSE IF after["username"] = None THEN 400
  ELSE IF Taken(u, after) # {} THEN 409 ELSE 200

ServesUpdate(i) ==
  /\ call[i].step = "main" /\ call[i].request.op = "updateUser"
  /\ LET u == call[i].request.user
         status == UpdateStatus(u, After(i)) IN
     /\ \E field \in IF status = 409 THEN Taken(u, After(i)) \cup {"both"} ELSE {"none"} :
          Replies(i, status, field)
     /\ users' = IF status = 200 THEN [users EXCEPT ![u] = After(i)] ELSE users
     /\ executed' = IF status = 200 THEN [executed EXCEPT ![i] = @ + 1] ELSE executed
  /\ UNCHANGED call

OtherStatus(r) ==
  IF users[r.user] = NoProfile THEN 404
  ELSE IF r.op = "executeActionsEmail" /\ users[r.user]["email"] = None THEN 400 ELSE 200

ServesOther(i) ==
  /\ call[i].step = "main" /\ call[i].request.op # "updateUser"
  /\ LET r == call[i].request
         status == OtherStatus(r) IN
     /\ Replies(i, status, "none")
     /\ users' = IF status = 200 /\ r.op = "deleteUser" THEN [users EXCEPT ![r.user] = NoProfile] ELSE users
     /\ executed' = IF status = 200 THEN [executed EXCEPT ![i] = @ + 1] ELSE executed
  /\ UNCHANGED call

Serves(i) ==
  /\ Underway(i) /\ Live(call[i].token)
  /\ ServesRead(i) \/ ServesUpdate(i) \/ ServesOther(i)
  /\ UNCHANGED <<token, tokenRequest, issued, faults, now>>

\* The event loop is not blocked: a timer fires before the time after its deadline.
Tick ==
  /\ now < MaxTime
  /\ tokenRequest # NoRequest => now < tokenRequest.deadline
  /\ \A i \in Call : call[i].pc = "sent" => now < call[i].deadline
  /\ now' = now + 1
  /\ UNCHANGED <<serviceVars, serverVars, reply, faults>>

-----------------------------------------------------------------------------
Next ==
  \/ TokenArrives \/ TokenFails \/ TokenTimeout
  \/ \E i \in Call, r \in Request : Start(i, r)
  \/ \E i \in Call : \/ Unauthorized(i) \/ ProfileRead(i) \/ Completes(i) \/ Malformed(i)
                     \/ ConnectionBreaks(i) \/ TimesOut(i)
  \/ Mint \/ \E t \in DOMAIN issued : Revoke(t)
  \/ \E i \in Call : Unauthenticated(i) \/ Refuses(i) \/ Serves(i)
  \/ Tick

\* Timers fire, and an answer that has arrived is read: Keycloak itself may never answer.
Fairness ==
  /\ WF_vars(Tick) /\ WF_vars(TokenTimeout)
  /\ \A i \in Call : WF_vars(TimesOut(i)) /\ WF_vars(Unauthorized(i) \/ ProfileRead(i) \/ Completes(i))

Spec == Init /\ [][Next]_vars /\ Fairness

-----------------------------------------------------------------------------
(* Properties *)

\* What a call reports is true: "ok" was executed, a refusal was not, and nothing is executed
\* twice, whatever is sent again after a 401, broken off or answered too late.
OutcomeIsTrue ==
  \A i \in Call :
    /\ executed[i] <= 1
    /\ call[i].result = "ok" => executed[i] = 1
    /\ call[i].result \notin {"none", "ok", "RequestError"} => executed[i] = 0

\* The second attempt after a 401 never carries the token that was refused, although
\* other calls replace and discard the cached token in between.
ResendIsFresh ==
  \A i \in Call : call[i].attempt = 2 /\ call[i].token # 0 => call[i].token > call[i].refused

\* While a call waits for its answer its token has not expired at Keycloak: the margin covers
\* the time that the token was under way and the time of the request.
UnexpiredInUse ==
  \A i \in Call : call[i].pc = "sent" => now < issued[call[i].token].expires

\* What Keycloak does with a request of the service is what the stub does with the call: the
\* profile, every field and attribute of it, and the kind of answer.  For attributes this holds
\* when the profile is still the one that the call read.
StubAgrees ==
  [][\A i \in Call :
       LET r == call[i].request IN
       /\ call[i].step = "main" /\ reply[i].status = 0
       /\ reply'[i].status \in {200, 400, 404} \/ reply'[i].field # "none"
       /\ r.attributes => call[i].profile = users[r.user]
       => StubOutcome(r) = [status |-> reply'[i].status, users |-> users']]_vars

\* Every call settles, also when Keycloak never answers and when the shared token request fails.
CallsSettle == \A i \in Call : call[i].pc # "idle" ~> call[i].pc = "done"
=============================================================================
