------------------------- MODULE KeycloakAdminProofs -------------------------
(***************************************************************************)
(* KeycloakAdmin for every number of calls, users, values and for every    *)
(* choice of the time-outs: the invariant of KeycloakAdminInvariant is     *)
(* inductive, hence a call never reports what did not happen, never sends  *)
(* a refused token again, and never waits with an expired one.             *)
(*                                                                         *)
(* Typing comes first, then one lemma for each part of the invariant, with *)
(* one step per action of KeycloakAdmin.                                   *)
(***************************************************************************)
EXTENDS KeycloakAdminInvariant, SequenceTheorems, TLAPS

USE DEF vars, serviceVars, serverVars

-----------------------------------------------------------------------------
(* Times and records *)

\* A deadline is a time of the clock, at most a timeout ahead (AbortSignal.timeout).
LEMMA DeadlineRange ==
  ASSUME now \in 0..MaxTime
  PROVE  Deadline \in Nat /\ now <= Deadline /\ Deadline <= now + Timeout
  BY TimeAssumption DEF Deadline, Min2

\* The cached token is forgotten a margin before Keycloak lets it expire (requestToken).
LEMMA ExpiresAtRange ==
  ASSUME now \in Nat
  PROVE  ExpiresAt \in Int /\ ExpiresAt = now + Lifetime - Margin
  BY TimeAssumption DEF ExpiresAt, Min2

\* A call that sends its request with the token t (authorizedFetch).
LEMMA SentCall ==
  ASSUME now \in 0..MaxTime, NEW c \in CallState, NEW t \in DOMAIN issued
  PROVE  /\ Sent(c, t) \in CallState
         /\ Sent(c, t).pc = "sent"
         /\ Sent(c, t).request = c.request
         /\ Sent(c, t).step = c.step
         /\ Sent(c, t).attempt = c.attempt
         /\ Sent(c, t).token = t
         /\ Sent(c, t).refused = c.refused
         /\ Sent(c, t).deadline = Deadline
         /\ Sent(c, t).profile = c.profile
         /\ Sent(c, t).result = c.result
  <1>1. Deadline \in Int
    BY DeadlineRange
  <1>. QED BY <1>1, Zenon DEF Sent, CallState

\* A call that settles: nothing but its token tells what it was (settle, fail).
LEMMA SettledCall ==
  ASSUME NEW c \in CallState, NEW r \in Result
  PROVE  /\ Settled(c, r) \in CallState
         /\ Settled(c, r).pc = "done"
         /\ Settled(c, r).request = c.request
         /\ Settled(c, r).step = c.step
         /\ Settled(c, r).attempt = c.attempt
         /\ Settled(c, r).token = c.token
         /\ Settled(c, r).refused = 0
         /\ Settled(c, r).deadline = -1
         /\ Settled(c, r).profile = c.profile
         /\ Settled(c, r).result = r
  <1>1. -1 \in Int
    OBVIOUS
  <1>. QED BY <1>1, Zenon DEF Settled, CallState

\* A call that awaits the token request (getToken).
LEMMA AwaitingCall ==
  ASSUME NEW c \in CallState
  PROVE  /\ Awaiting(c) \in CallState
         /\ Awaiting(c).pc = "token"
         /\ Awaiting(c).request = c.request
         /\ Awaiting(c).step = c.step
         /\ Awaiting(c).attempt = c.attempt
         /\ Awaiting(c).token = 0
         /\ Awaiting(c).refused = c.refused
         /\ Awaiting(c).deadline = c.deadline
         /\ Awaiting(c).profile = c.profile
         /\ Awaiting(c).result = c.result
  <1>. QED BY Zenon DEF Awaiting, CallState

\* A call whose token was refused (the 401 of authorizedFetch).
LEMMA RefusedCall ==
  ASSUME NEW c \in CallState
  PROVE  /\ Refused(c) \in CallState
         /\ Refused(c).pc = c.pc
         /\ Refused(c).request = c.request
         /\ Refused(c).step = c.step
         /\ Refused(c).attempt = 2
         /\ Refused(c).token = c.token
         /\ Refused(c).refused = c.token
         /\ Refused(c).deadline = c.deadline
         /\ Refused(c).profile = c.profile
         /\ Refused(c).result = c.result
  <1>1. 2 \in 1..2
    OBVIOUS
  <1>2. c.token \in {0} \cup DOMAIN issued
    BY DEF CallState
  <1>. QED BY <1>1, <1>2, Zenon DEF Refused, CallState

\* A call that has read the profile (updateUser).
LEMMA ProceedingCall ==
  ASSUME NEW c \in CallState
  PROVE  /\ Proceeding(c) \in CallState
         /\ Proceeding(c).pc = c.pc
         /\ Proceeding(c).request = c.request
         /\ Proceeding(c).step = "main"
         /\ Proceeding(c).attempt = 1
         /\ Proceeding(c).token = c.token
         /\ Proceeding(c).refused = 0
         /\ Proceeding(c).deadline = c.deadline
         /\ Proceeding(c).profile = c.profile
         /\ Proceeding(c).result = c.result
  <1>1. 1 \in 1..2
    OBVIOUS
  <1>. QED BY <1>1, Zenon DEF Proceeding, CallState

\* A call that starts.
LEMMA StartedCall ==
  ASSUME NEW c \in CallState, NEW r \in Request
  PROVE  /\ Started(c, r) \in CallState
         /\ Started(c, r).pc = c.pc
         /\ Started(c, r).request = r
         /\ Started(c, r).step = IF r.op = "updateUser" /\ r.attributes THEN "read" ELSE "main"
         /\ Started(c, r).attempt = c.attempt
         /\ Started(c, r).token = c.token
         /\ Started(c, r).refused = c.refused
         /\ Started(c, r).deadline = c.deadline
         /\ Started(c, r).profile = c.profile
         /\ Started(c, r).result = c.result
  <1>. QED BY Zenon DEF Started, CallState

\* A call that was not made yet is a call.
LEMMA IdleTyped == Idle \in CallState
  BY DEF Idle, CallState, Result

\* One call changes and the others do not.
LEMMA OneCallTyped ==
  ASSUME TypeOK, NEW i \in Call, NEW c \in CallState, call' = [call EXCEPT ![i] = c],
         DOMAIN issued' = DOMAIN issued
  PROVE  call' \in [Call -> CallState']
  BY DEF TypeOK, CallState

\* Keycloak's answers are answers.
LEMMA RepliesTyped ==
  ASSUME TypeOK, NEW i \in Call, NEW status \in Status,
         NEW field \in {"none", "username", "email", "both"}, Replies(i, status, field)
  PROVE  reply' \in [Call -> Answer]
  BY DEF TypeOK, Replies, Answer

\* The token request that is made or awaited (getToken).
LEMMA RequestTokenTyped ==
  ASSUME TypeOK, RequestToken, issued' = issued
  PROVE  tokenRequest' \in [deadline : Int, minted : {0} \cup DOMAIN issued']
  <1>1. Deadline \in Int
    BY DeadlineRange DEF TypeOK
  <1>. QED BY <1>1 DEF TypeOK, RequestToken, NoRequest

\* getToken keeps the call and the token request typed.
LEMMA GetTokenTyped ==
  ASSUME TypeOK, NEW i \in Call, NEW c \in CallState, GetToken(i, c), issued' = issued
  PROVE  /\ call' \in [Call -> CallState']
         /\ tokenRequest' \in [deadline : Int, minted : {0} \cup DOMAIN issued']
         /\ reply' \in [Call -> Answer]
  <1>1. reply' \in [Call -> Answer]
    BY DEF TypeOK, GetToken, NoReply, Answer
  <1>2. CASE Fresh /\ call' = [call EXCEPT ![i] = Sent(c, token.id)] /\ UNCHANGED tokenRequest
    <2>1. token.id \in DOMAIN issued /\ now \in 0..MaxTime
      BY <1>2 DEF TypeOK, Fresh
    <2>2. Sent(c, token.id) \in CallState
      BY <2>1, SentCall
    <2>. QED BY <1>1, <1>2, <2>2, OneCallTyped DEF TypeOK
  <1>3. CASE call' = [call EXCEPT ![i] = Awaiting(c)] /\ RequestToken
    <2>1. Awaiting(c) \in CallState
      BY AwaitingCall
    <2>. QED BY <1>1, <1>3, <2>1, RequestTokenTyped, OneCallTyped
  <1>. QED BY <1>1, <1>2, <1>3 DEF GetToken

-----------------------------------------------------------------------------
(* Profiles *)

\* Lower case applied twice is lower case.
LEMMA StoredTwice ==
  ASSUME NEW k, NEW v \in Value \cup {None, Empty}
  PROVE  Stored(k, v) \in Value \cup {None} /\ Stored(k, Stored(k, v)) = Stored(k, v)
  BY ValueAssumption DEF Stored

\* A patch laid over a profile is a body (updateUser with attributes).
LEMMA OverlaidTyped ==
  ASSUME NEW patch \in Patch, NEW profile \in Profile
  PROVE  Overlaid(patch, profile) \in Patch
  BY ValueAssumption DEF Overlaid, Patch, Profile

\* What a PUT stores is a profile.
LEMMA PutTyped ==
  ASSUME TypeOK, NEW u \in User, NEW body \in Patch, NEW whole \in BOOLEAN
  PROVE  Put(u, body, whole) \in Profile
  <1>1. ASSUME NEW k \in Key
        PROVE  (IF body[k] # Unset THEN Stored(k, body[k])
                ELSE IF whole \/ users[u] = NoProfile THEN None ELSE users[u][k]) \in Value \cup {None}
    <2>1. CASE body[k] # Unset
      <3>1. body[k] \in Value \cup {None, Empty}
        BY <2>1 DEF Patch
      <3>. QED BY <2>1, <3>1, StoredTwice
    <2>2. CASE body[k] = Unset
      <3>1. users[u] = NoProfile \/ users[u] \in Profile
        BY DEF TypeOK
      <3>. QED BY <2>2, <3>1 DEF Profile
    <2>. QED BY <2>1, <2>2
  <1>. QED BY <1>1 DEF Put, Profile

\* The body of an update is a patch.
LEMMA BodyTyped ==
  ASSUME TypeOK, NEW i \in Call, call[i].request \in Request,
         call[i].request.attributes => call[i].profile # NoProfile
  PROVE  Body(call[i]) \in Patch /\ call[i].request.attributes \in BOOLEAN
  <1>1. call[i].request \in Requests
    BY RequestAssumption
  <1>2. call[i].request.patch \in Patch /\ call[i].request.attributes \in BOOLEAN
    BY <1>1 DEF Requests
  <1>3. call[i].profile \in Profile \cup {NoProfile}
    BY DEF TypeOK, CallState
  <1>. QED BY <1>2, <1>3, OverlaidTyped DEF Body

-----------------------------------------------------------------------------
(* Typing *)

\* The fault budget stays a number.
LEMMA FaultTyped ==
  ASSUME TypeOK, Fault \/ UNCHANGED faults
  PROVE  faults' \in Nat
  BY DEF TypeOK, Fault

\* A token that was issued expires at some time.
LEMMA ExpiryTyped ==
  ASSUME TypeOK, NEW t \in DOMAIN issued
  PROVE  issued[t].expires \in Nat
  <1> DEFINE T == [expires : Nat, revoked : BOOLEAN]
  <1>1. issued \in Seq(T)
    BY DEF TypeOK
  <1>2. issued[t] \in T
    <2>. HIDE DEF T
    <2>. QED BY <1>1, ElementOfSeq
  <1>. QED BY <1>2

\* Revoking a token leaves the sequence of tokens as long as it was.
LEMMA RevokeTyped ==
  ASSUME TypeOK, NEW t \in DOMAIN issued, Revoke(t)
  PROVE  /\ issued' \in Seq([expires : Nat, revoked : BOOLEAN])
         /\ DOMAIN issued' = DOMAIN issued
         /\ \A u \in DOMAIN issued : issued'[u].expires = issued[u].expires
  <1> DEFINE T == [expires : Nat, revoked : BOOLEAN]
  <1>0. issued \in Seq(T)
    BY DEF TypeOK
  <1>1. issued \in Seq(T) /\ t \in 1..Len(issued) /\ issued[t] \in T
    <2>. HIDE DEF T
    <2>. QED BY <1>0, ElementOfSeq
  <1>2. issued' = [issued EXCEPT ![t] = [issued[t] EXCEPT !.revoked = TRUE]]
    BY DEF Revoke
  <1>3. [issued[t] EXCEPT !.revoked = TRUE] \in T
    BY <1>1, Zenon
  <1>4. [issued[t] EXCEPT !.revoked = TRUE].expires = issued[t].expires
    BY <1>1, Zenon
  <1>. HIDE DEF T
  <1>5. /\ issued' \in Seq(T) /\ Len(issued') = Len(issued)
        /\ \A j \in 1..Len(issued) :
             issued'[j] = IF j = t THEN [issued[t] EXCEPT !.revoked = TRUE] ELSE issued[j]
    BY <1>1, <1>2, <1>3, ExceptSeq
  <1>6. DOMAIN issued' = DOMAIN issued
    BY <1>1, <1>5
  <1>. QED BY <1>1, <1>4, <1>5, <1>6 DEF T

\* Keycloak's answer to one request leaves the other answers alone.
LEMMA RepliesOne ==
  ASSUME TypeOK, NEW i \in Call, NEW status, NEW field, Replies(i, status, field), NEW j \in Call
  PROVE  reply'[j] = IF j = i THEN [status |-> status, field |-> field] ELSE reply[j]
  BY DEF Replies, TypeOK

\* Keycloak serves the request itself: it answers, executes it or does not, and changes no call.
LEMMA ServesMain ==
  ASSUME TypeOK, NEW i \in Call, ServesUpdate(i) \/ ServesOther(i)
  PROVE  /\ call' = call /\ call[i].step = "main"
         /\ reply' \in [Call -> Answer] /\ reply'[i].status \in {200, 400, 404, 409}
         /\ \A j \in Call \ {i} : reply'[j] = reply[j]
         /\ executed' = IF reply'[i].status = 200 THEN [executed EXCEPT ![i] = @ + 1] ELSE executed
         /\ executed' \in [Call -> Nat]
  <1>1. ASSUME NEW status \in {200, 400, 404, 409}, NEW field \in {"none", "username", "email", "both"},
               Replies(i, status, field),
               executed' = IF status = 200 THEN [executed EXCEPT ![i] = @ + 1] ELSE executed
        PROVE  /\ reply' \in [Call -> Answer] /\ reply'[i].status \in {200, 400, 404, 409}
               /\ \A j \in Call \ {i} : reply'[j] = reply[j]
               /\ executed' = IF reply'[i].status = 200 THEN [executed EXCEPT ![i] = @ + 1] ELSE executed
               /\ executed' \in [Call -> Nat]
    <2>0. reply \in [Call -> Answer]
      BY DEF TypeOK
    <2>1. reply'[i].status = status
      BY <1>1, <2>0 DEF Replies
    <2>2. \A j \in Call \ {i} : reply'[j] = reply[j]
      BY <1>1, <2>0 DEF Replies
    <2>3. reply' \in [Call -> Answer]
      BY <1>1, RepliesTyped DEF Status
    <2>4. executed' \in [Call -> Nat]
      BY <1>1 DEF TypeOK
    <2>. QED BY <1>1, <2>1, <2>2, <2>3, <2>4
  <1>2. CASE ServesUpdate(i)
    <2> DEFINE status == UpdateStatus(call[i].request.user, After(i))
               taken == Taken(call[i].request.user, After(i))
    <2>1. status \in {200, 400, 404, 409} /\ taken \subseteq {"username", "email"}
      BY DEF UpdateStatus, Taken
    <2>2. PICK field \in IF status = 409 THEN taken \cup {"both"} ELSE {"none"} : Replies(i, status, field)
      BY <1>2 DEF ServesUpdate
    <2>3. executed' = IF status = 200 THEN [executed EXCEPT ![i] = @ + 1] ELSE executed
      BY <1>2 DEF ServesUpdate
    <2>4. call' = call /\ call[i].step = "main"
      BY <1>2 DEF ServesUpdate
    <2>. HIDE DEF status, taken
    <2>5. field \in {"none", "username", "email", "both"}
      BY <2>1, <2>2
    <2>. QED BY <1>1, <2>1, <2>2, <2>3, <2>4, <2>5
  <1>3. CASE ServesOther(i)
    <2> DEFINE status == OtherStatus(call[i].request)
    <2>1. status \in {200, 400, 404, 409}
      BY DEF OtherStatus
    <2>2. Replies(i, status, "none") /\ call' = call /\ call[i].step = "main"
      BY <1>3 DEF ServesOther
    <2>3. executed' = IF status = 200 THEN [executed EXCEPT ![i] = @ + 1] ELSE executed
      BY <1>3 DEF ServesOther
    <2>. HIDE DEF status
    <2>. QED BY <1>1, <2>1, <2>2, <2>3
  <1>. QED BY <1>2, <1>3

\* Keycloak serves a request: of a call only the profile that it reads changes.
LEMMA ServesCall ==
  ASSUME TypeOK, NEW i \in Call, Serves(i), NEW j \in Call
  PROVE  /\ call'[j].pc = call[j].pc /\ call'[j].request = call[j].request
         /\ call'[j].step = call[j].step /\ call'[j].attempt = call[j].attempt
         /\ call'[j].token = call[j].token /\ call'[j].refused = call[j].refused
         /\ call'[j].deadline = call[j].deadline /\ call'[j].result = call[j].result
         /\ j # i => call'[j] = call[j] /\ reply'[j] = reply[j] /\ executed'[j] = executed[j]
  <1>1. CASE ServesRead(i)
    <2>1. call' = [call EXCEPT ![i].profile = users[call[i].request.user]] /\ executed' = executed
      BY <1>1 DEF ServesRead
    <2>2. call \in [Call -> CallState]
      BY DEF TypeOK
    <2>3. j # i => reply'[j] = reply[j]
      <3>1. PICK status : Replies(i, status, "none")
        BY <1>1 DEF ServesRead
      <3>. QED BY <3>1, RepliesOne
    <2>. QED BY <2>1, <2>2, <2>3 DEF CallState
  <1>2. CASE ServesUpdate(i) \/ ServesOther(i)
    <2>1. call' = call /\ (j # i => reply'[j] = reply[j])
      BY <1>2, ServesMain
    <2>2. j # i => executed'[j] = executed[j]
      <3>1. executed' \in {executed, [executed EXCEPT ![i] = @ + 1]}
        BY <1>2, ServesMain
      <3>2. executed \in [Call -> Nat]
        BY DEF TypeOK
      <3>. QED BY <3>1, <3>2
    <2>. QED BY <2>1, <2>2
  <1>. QED BY <1>1, <1>2 DEF Serves

\* Every step of the service, of Keycloak and of the clock keeps every variable typed.
LEMMA StepTyped ==
  ASSUME IInv, Next
  PROVE  TypeOK'
  <1> USE DEF IInv, Protocol
  <1>1. CASE TokenArrives
    <2>1. now \in 0..MaxTime /\ now \in Nat /\ tokenRequest.minted \in DOMAIN issued
      BY <1>1, TimeAssumption DEF TypeOK, TokenArrives
    <2>2. token' \in [id : DOMAIN issued, expiresAt : Int] /\ token'.id \in DOMAIN issued
      BY <1>1, <2>1, ExpiresAtRange DEF TokenArrives
    <2>3. ASSUME NEW i \in Call
          PROVE  (IF call[i].pc = "token" THEN Sent(call[i], token'.id) ELSE call[i]) \in CallState
      BY <2>1, <2>2, SentCall DEF TypeOK
    <2>4. call' \in [Call -> CallState']
      BY <1>1, <2>3 DEF TokenArrives, CallState
    <2>5. tokenRequest' \in [deadline : Int, minted : {0} \cup DOMAIN issued']
      BY <1>1 DEF TokenArrives, NoRequest
    <2>. QED BY <1>1, <2>2, <2>4, <2>5 DEF TokenArrives, TypeOK
  <1>2. ASSUME NEW r \in Result, TokenRejects(r), Fault \/ UNCHANGED faults
        PROVE  TypeOK'
    <2>1. ASSUME NEW i \in Call
          PROVE  (IF call[i].pc = "token" THEN Settled(call[i], r) ELSE call[i]) \in CallState
      BY SettledCall DEF TypeOK
    <2>2. call' \in [Call -> CallState']
      BY <1>2, <2>1 DEF TokenRejects, CallState
    <2>3. tokenRequest' \in [deadline : Int, minted : {0} \cup DOMAIN issued']
      BY <1>2 DEF TokenRejects, NoRequest
    <2>. QED BY <1>2, <2>2, <2>3, FaultTyped DEF TokenRejects, TypeOK
  <1>3. CASE TokenFails
    BY <1>2, <1>3 DEF TokenFails, Result
  <1>4. CASE TokenTimeout
    BY <1>2, <1>4 DEF TokenTimeout, Result
  <1>5. ASSUME NEW i \in Call, NEW r \in Request, Start(i, r)
        PROVE  TypeOK'
    <2> DEFINE c == Started(call[i], r)
    <2>1. c \in CallState
      BY StartedCall DEF TypeOK
    <2>. HIDE DEF c
    <2>2. CASE ~RequireUserId(r)
      <3>1. Settled(c, "RequestError") \in CallState
        BY <2>1, SettledCall DEF Result
      <3>2. call' = [call EXCEPT ![i] = Settled(c, "RequestError")] /\ UNCHANGED <<tokenRequest, reply>>
        BY <1>5, <2>2 DEF Start, c
      <3>3. call' \in [Call -> CallState']
        BY <1>5, <3>1, <3>2, OneCallTyped DEF Start
      <3>. QED BY <1>5, <3>2, <3>3 DEF Start, TypeOK
    <2>3. CASE RequireUserId(r)
      <3>1. GetToken(i, c) /\ issued' = issued
        BY <1>5, <2>3 DEF Start, c
      <3>2. /\ call' \in [Call -> CallState']
            /\ tokenRequest' \in [deadline : Int, minted : {0} \cup DOMAIN issued']
            /\ reply' \in [Call -> Answer]
        BY <2>1, <3>1, GetTokenTyped
      <3>. QED BY <1>5, <3>2 DEF Start, TypeOK
    <2>. QED BY <2>2, <2>3
  <1>6. ASSUME NEW i \in Call, Unauthorized(i)
        PROVE  TypeOK'
    <2>1. Awaiting(Refused(call[i])) \in CallState
      BY RefusedCall, AwaitingCall DEF TypeOK
    <2>2. call' \in [Call -> CallState']
      BY <1>6, <2>1, OneCallTyped DEF Unauthorized
    <2>4. tokenRequest' \in [deadline : Int, minted : {0} \cup DOMAIN issued']
      BY <1>6, RequestTokenTyped DEF Unauthorized
    <2>5. reply' \in [Call -> Answer]
      BY <1>6 DEF TypeOK, Unauthorized, NoReply, Answer
    <2>. QED BY <1>6, <2>2, <2>4, <2>5 DEF Unauthorized, TypeOK
  <1>7. ASSUME NEW i \in Call, ProfileRead(i)
        PROVE  TypeOK'
    <2>1. Proceeding(call[i]) \in CallState
      BY ProceedingCall DEF TypeOK
    <2>2. /\ call' \in [Call -> CallState']
          /\ tokenRequest' \in [deadline : Int, minted : {0} \cup DOMAIN issued']
          /\ reply' \in [Call -> Answer]
      BY <1>7, <2>1, GetTokenTyped DEF ProfileRead
    <2>. QED BY <1>7, <2>2 DEF ProfileRead, TypeOK
  <1>8. ASSUME NEW i \in Call, NEW r \in Result, SettlesAnswered(i, r), Fault \/ UNCHANGED faults
        PROVE  TypeOK'
    <2>1. Settled(Idle, r) \in CallState
      BY IdleTyped, SettledCall
    <2>2. call' \in [Call -> CallState']
      BY <1>8, <2>1, OneCallTyped DEF SettlesAnswered
    <2>3. reply' \in [Call -> Answer]
      BY <1>8 DEF TypeOK, SettlesAnswered, NoReply, Answer
    <2>. QED BY <1>8, <2>2, <2>3, FaultTyped DEF SettlesAnswered, TypeOK
  <1>9. ASSUME NEW i \in Call, Completes(i)
        PROVE  TypeOK'
    BY <1>8, <1>9 DEF Completes, Failure, AssertOk, Result
  <1>10. ASSUME NEW i \in Call, Malformed(i)
         PROVE  TypeOK'
    BY <1>8, <1>10 DEF Malformed, Result
  <1>11. ASSUME NEW i \in Call, GivesUp(i), Fault \/ UNCHANGED faults
         PROVE  TypeOK'
    <2>1. Settled(call[i], "RequestError") \in CallState
      BY SettledCall DEF TypeOK, Result
    <2>2. call' \in [Call -> CallState']
      BY <1>11, <2>1, OneCallTyped DEF GivesUp
    <2>. QED BY <1>11, <2>2, FaultTyped DEF GivesUp, TypeOK
  <1>12. CASE Mint
    <2>1. Len(issued) \in Nat /\ now + Lifetime \in Nat
      BY TimeAssumption DEF TypeOK
    <2>2. issued' \in Seq([expires : Nat, revoked : BOOLEAN])
      BY <1>12, <2>1 DEF Mint, TypeOK
    <2>3. DOMAIN issued \subseteq DOMAIN issued' /\ Len(issued') \in DOMAIN issued'
      BY <1>12, <2>1 DEF Mint, TypeOK
    <2>4. call' \in [Call -> CallState']
      BY <1>12, <2>3 DEF Mint, TypeOK, CallState
    <2>5. tokenRequest' \in [deadline : Int, minted : {0} \cup DOMAIN issued']
      BY <1>12, <2>3 DEF Mint, TypeOK
    <2>6. token' = NoToken \/ token' \in [id : DOMAIN issued', expiresAt : Int]
      BY <1>12, <2>3 DEF Mint, TypeOK
    <2>. QED BY <1>12, <2>2, <2>4, <2>5, <2>6 DEF Mint, TypeOK
  <1>13. ASSUME NEW t \in DOMAIN issued, Revoke(t)
         PROVE  TypeOK'
    <2>1. issued' \in Seq([expires : Nat, revoked : BOOLEAN]) /\ DOMAIN issued' = DOMAIN issued
      BY <1>13, RevokeTyped
    <2>2. call' \in [Call -> CallState']
      BY <1>13, <2>1 DEF Revoke, TypeOK, CallState
    <2>. QED BY <1>13, <2>1, <2>2, FaultTyped DEF Revoke, TypeOK
  <1>14. ASSUME NEW i \in Call, Unauthenticated(i)
         PROVE  TypeOK'
    BY <1>14, RepliesTyped DEF Unauthenticated, TypeOK, CallState, Status
  <1>15. ASSUME NEW i \in Call, Refuses(i)
         PROVE  TypeOK'
    <2>1. reply' \in [Call -> Answer]
      BY <1>15, RepliesTyped DEF Refuses, Status
    <2>. QED BY <1>15, <2>1, FaultTyped DEF Refuses, TypeOK, CallState
  <1>16. ASSUME NEW i \in Call, Serves(i)
         PROVE  TypeOK'
    <2>1. call[i].request \in Request /\ call[i].request.user \in User
      BY <1>16 DEF Serves, Underway, CallOf
    <2>2. CASE ServesRead(i)
      <3>1. users[call[i].request.user] \in Profile \cup {NoProfile}
        BY <2>1 DEF TypeOK
      <3>2. [call[i] EXCEPT !.profile = users[call[i].request.user]] \in CallState
        <4>1. call[i] \in CallState
          BY DEF TypeOK
        <4>. QED BY <3>1, <4>1, Zenon DEF CallState
      <3>3. call' \in [Call -> CallState']
        BY <1>16, <2>2, <3>2, OneCallTyped DEF Serves, ServesRead
      <3>4. reply' \in [Call -> Answer]
        BY <2>2, RepliesTyped DEF ServesRead, Status
      <3>. QED BY <1>16, <2>2, <3>3, <3>4 DEF Serves, ServesRead, TypeOK
    <2>3. CASE ServesUpdate(i)
      <3>1. call[i].request.attributes => call[i].profile # NoProfile
        <4>1. call[i].step = "main" /\ call[i].request.op = "updateUser" /\ call[i].token # 0
          BY <1>16, <2>3 DEF Serves, Underway, ServesUpdate
        <4>2. call[i].request \in Requests
          BY <2>1, RequestAssumption
        <4>3. call[i].request # NoRequest
          BY <4>2 DEF Requests, NoRequest
        <4>4. ProfileOf(i)
          BY DEF IInv, Protocol
        <4>. QED BY <4>1, <4>3, <4>4 DEF ProfileOf
      <3>2. After(i) \in Profile
        BY <2>1, <3>1, BodyTyped, PutTyped DEF After
      <3>3. users' \in [User -> Profile \cup {NoProfile}]
        BY <2>1, <2>3, <3>2 DEF ServesUpdate, TypeOK
      <3>4. call' = call /\ reply' \in [Call -> Answer] /\ executed' \in [Call -> Nat]
        BY <2>3, ServesMain
      <3>. QED BY <1>16, <3>3, <3>4 DEF Serves, TypeOK, CallState
    <2>4. CASE ServesOther(i)
      <3>1. users' \in [User -> Profile \cup {NoProfile}]
        BY <2>1, <2>4 DEF ServesOther, TypeOK
      <3>2. call' = call /\ reply' \in [Call -> Answer] /\ executed' \in [Call -> Nat]
        BY <2>4, ServesMain
      <3>. QED BY <1>16, <3>1, <3>2 DEF Serves, TypeOK, CallState
    <2>. QED BY <1>16, <2>2, <2>3, <2>4 DEF Serves
  <1>17. CASE Tick
    <2>1. now' \in 0..MaxTime
      BY <1>17, TimeAssumption DEF Tick, TypeOK
    <2>. QED BY <1>17, <2>1 DEF Tick, TypeOK, CallState
  <1>. QED
    BY <1>1, <1>3, <1>4, <1>5, <1>6, <1>7, <1>9, <1>10, <1>11, <1>12, <1>13, <1>14, <1>15, <1>16, <1>17
    DEF Next, ConnectionBreaks, TimesOut

-----------------------------------------------------------------------------
(* The token request and the cached token *)

\* A request that is made or awaited is not older than its timeout (getToken).
LEMMA RequestTokenRange ==
  ASSUME TypeOK, RequestOf, RequestToken
  PROVE  /\ tokenRequest' # NoRequest
         /\ now <= tokenRequest'.deadline /\ tokenRequest'.deadline <= now + Timeout
         /\ tokenRequest'.minted # 0 => tokenRequest' = tokenRequest
  <1>1. Deadline \in Nat /\ now <= Deadline /\ Deadline <= now + Timeout
    BY DeadlineRange DEF TypeOK
  <1>2. CASE tokenRequest # NoRequest
    BY <1>2 DEF RequestToken, RequestOf
  <1>3. CASE tokenRequest = NoRequest
    <2>1. tokenRequest' = [deadline |-> Deadline, minted |-> 0]
      BY <1>3 DEF RequestToken, NoRequest
    <2>. QED BY <1>1, <2>1 DEF NoRequest
  <1>. QED BY <1>2, <1>3

\* What getToken does to the tokens in use: a call takes the cached token only when
\* no token request is in flight.
LEMMA GetTokenRange ==
  ASSUME TypeOK, RequestOf, CachedOf, NEW i \in Call, NEW c \in CallState, GetToken(i, c),
         UNCHANGED <<issued, now, token>>, c.refused = 0
  PROVE  RequestOf'
  <1>1. CASE Fresh /\ UNCHANGED tokenRequest
    BY <1>1 DEF RequestOf
  <1>2. CASE ~Fresh /\ call' = [call EXCEPT ![i] = Awaiting(c)] /\ RequestToken
    <2>1. ~Fresh'
      BY <1>2 DEF Fresh
    <2>2. tokenRequest'.minted # 0 => \A j \in Call : call'[j].token < tokenRequest'.minted /\ call'[j].refused < tokenRequest'.minted
      <3>1. SUFFICES ASSUME tokenRequest'.minted # 0, NEW j \in Call
                     PROVE  call'[j].token < tokenRequest'.minted /\ call'[j].refused < tokenRequest'.minted
        OBVIOUS
      <3>2. tokenRequest' = tokenRequest /\ tokenRequest.minted \in Nat \ {0}
        BY <1>2, <3>1, RequestTokenRange DEF TypeOK
      <3>3. CASE j = i
        <4>1. call'[j] = Awaiting(c)
          BY <1>2, <3>3 DEF TypeOK
        <4>. QED BY <3>2, <4>1, AwaitingCall
      <3>4. CASE j # i
        BY <1>2, <3>1, <3>2, <3>4 DEF RequestOf, TypeOK
      <3>. QED BY <3>3, <3>4
    <2>. QED BY <1>2, <2>1, <2>2, RequestTokenRange DEF RequestOf
  <1>. QED BY <1>1, <1>2 DEF GetToken

\* A call that only forgets leaves the bounds of the token request alone.
LEMMA ForgettingRange ==
  ASSUME TypeOK, RequestOf, NEW i \in Call, NEW c, call' = [call EXCEPT ![i] = c],
         c.token \in {0, call[i].token}, c.refused = 0, UNCHANGED <<issued, now, token, tokenRequest>>
  PROVE  RequestOf'
  <1>1. ASSUME tokenRequest.minted # 0, NEW j \in Call
        PROVE  call'[j].token < tokenRequest.minted /\ call'[j].refused < tokenRequest.minted
    <2>1. tokenRequest.minted \in Nat \ {0}
      BY <1>1 DEF TypeOK
    <2>2. CASE j = i
      BY <1>1, <2>1, <2>2 DEF RequestOf, TypeOK
    <2>3. CASE j # i
      BY <1>1, <2>3 DEF RequestOf, TypeOK
    <2>. QED BY <2>2, <2>3
  <1>. QED BY <1>1 DEF RequestOf, Fresh

\* The part on the token request is preserved: a token that is on its way was issued after
\* every token that is in use (getToken, requestToken).
LEMMA StepRequest ==
  ASSUME IInv, Next
  PROVE  RequestOf'
  <1> USE DEF IInv, Protocol
  <1>1. ASSUME tokenRequest' = NoRequest
        PROVE  RequestOf'
    BY <1>1 DEF RequestOf, NoRequest
  <1>2. CASE TokenArrives \/ TokenFails \/ TokenTimeout
    BY <1>1, <1>2 DEF TokenArrives, TokenFails, TokenTimeout, TokenRejects
  <1>3. ASSUME NEW i \in Call, NEW r \in Request, Start(i, r)
        PROVE  RequestOf'
    <2>1. call[i] \in CallState /\ call[i].token = 0 /\ call[i].refused = 0
      BY <1>3 DEF TypeOK, Start, CallOf, Idle
    <2>2. Started(call[i], r) \in CallState /\ Started(call[i], r).token = 0 /\ Started(call[i], r).refused = 0
      BY <2>1, StartedCall
    <2>3. CASE RequireUserId(r)
      BY <1>3, <2>2, <2>3, GetTokenRange DEF Start
    <2>4. CASE ~RequireUserId(r)
      <3>1. "RequestError" \in Result
        BY DEF Result
      <3>2. /\ Settled(Started(call[i], r), "RequestError").token = 0
            /\ Settled(Started(call[i], r), "RequestError").refused = 0
        BY <2>2, <3>1, SettledCall
      <3>. QED BY <1>3, <2>4, <3>2, ForgettingRange DEF Start
    <2>. QED BY <2>3, <2>4
  <1>4. ASSUME NEW i \in Call, Unauthorized(i)
        PROVE  RequestOf'
    <2>1. call[i] \in CallState
      BY DEF TypeOK
    <2>2. Awaiting(Refused(call[i])).token = 0 /\ Awaiting(Refused(call[i])).refused = call[i].token
      BY <2>1, RefusedCall, AwaitingCall
    <2>3. ~Fresh'
      BY <1>4 DEF Fresh, Unauthorized
    <2>4. ASSUME tokenRequest'.minted # 0, NEW j \in Call
          PROVE  call'[j].token < tokenRequest'.minted /\ call'[j].refused < tokenRequest'.minted
      <3>1. tokenRequest' = tokenRequest /\ tokenRequest.minted \in Nat \ {0}
        BY <1>4, <2>4, RequestTokenRange DEF TypeOK, Unauthorized
      <3>2. call[j].token < tokenRequest.minted /\ call[j].refused < tokenRequest.minted
            /\ call[i].token < tokenRequest.minted
        BY <3>1 DEF RequestOf
      <3>3. call'[j] = IF j = i THEN Awaiting(Refused(call[i])) ELSE call[j]
        BY <1>4 DEF Unauthorized, TypeOK
      <3>. QED BY <2>2, <3>1, <3>2, <3>3
    <2>. QED BY <1>4, <2>3, <2>4, RequestTokenRange DEF RequestOf, Unauthorized
  <1>5. ASSUME NEW i \in Call, ProfileRead(i)
        PROVE  RequestOf'
    <2>1. Proceeding(call[i]) \in CallState /\ Proceeding(call[i]).refused = 0
      BY ProceedingCall DEF TypeOK
    <2>. QED BY <1>5, <2>1, GetTokenRange DEF ProfileRead
  <1>6. ASSUME NEW i \in Call, NEW r \in Result, SettlesAnswered(i, r)
        PROVE  RequestOf'
    <2>1. Settled(Idle, r).token = 0 /\ Settled(Idle, r).refused = 0
      BY IdleTyped, SettledCall DEF Idle
    <2>. QED BY <1>6, <2>1, ForgettingRange DEF SettlesAnswered
  <1>7. ASSUME NEW i \in Call, Completes(i) \/ Malformed(i)
        PROVE  RequestOf'
    BY <1>6, <1>7 DEF Completes, Malformed, Failure, AssertOk, Result
  <1>8. ASSUME NEW i \in Call, GivesUp(i)
        PROVE  RequestOf'
    <2>1. "RequestError" \in Result
      BY DEF Result
    <2>2. /\ Settled(call[i], "RequestError").token = call[i].token
          /\ Settled(call[i], "RequestError").refused = 0
      BY <2>1, SettledCall DEF TypeOK
    <2>. QED BY <1>8, <2>2, ForgettingRange DEF GivesUp
  <1>9. CASE Mint
    <2>1. Len(issued) \in Nat /\ issued' = Append(issued, [expires |-> now + Lifetime, revoked |-> FALSE])
      BY <1>9 DEF Mint, TypeOK
    <2>7. issued \in Seq([expires : Nat, revoked : BOOLEAN])
          /\ [expires |-> now + Lifetime, revoked |-> FALSE] \in [expires : Nat, revoked : BOOLEAN]
      BY TimeAssumption DEF TypeOK
    <2>2. tokenRequest'.minted = Len(issued) + 1 /\ tokenRequest'.deadline = tokenRequest.deadline
      <3>1. Len(issued') = Len(issued) + 1
        BY <2>1, <2>7, AppendProperties
      <3>. QED BY <1>9, <3>1 DEF Mint, TypeOK
    <2>3. issued'[tokenRequest'.minted].expires = now + Lifetime
      <3>1. issued'[Len(issued) + 1] = [expires |-> now + Lifetime, revoked |-> FALSE]
        BY <2>1, <2>7, AppendProperties
      <3>. QED BY <2>2, <3>1
    <2>4. ASSUME NEW j \in Call
          PROVE  /\ call[j].token \in Nat /\ call[j].token <= Len(issued)
                 /\ call[j].refused \in Nat /\ call[j].refused <= Len(issued)
      <3>1. DOMAIN issued = 1..Len(issued)
        BY <2>7
      <3>2. call[j].token \in {0} \cup DOMAIN issued /\ call[j].refused \in {0} \cup DOMAIN issued
        BY DEF TypeOK, CallState
      <3>. QED BY <2>1, <3>1, <3>2
    <2>6. tokenRequest # NoRequest /\ tokenRequest.deadline \in Int /\ now \in Nat
      BY <1>9, TimeAssumption DEF Mint, TypeOK
    <2>8. call' = call /\ now' = now /\ ~Fresh'
      BY <1>9, <2>6 DEF Mint, RequestOf, Fresh
    <2>9. now <= tokenRequest.deadline /\ tokenRequest.deadline <= now + Timeout
      BY <2>6 DEF RequestOf
    <2>10. tokenRequest'.minted # 0 /\ tokenRequest' # NoRequest
      BY <2>1, <2>2 DEF NoRequest
    <2>11. ASSUME NEW j \in Call
           PROVE  call'[j].token < tokenRequest'.minted /\ call'[j].refused < tokenRequest'.minted
      BY <2>1, <2>2, <2>4, <2>8
    <2>12. tokenRequest'.deadline + Lifetime <= issued'[tokenRequest'.minted].expires + Timeout
      BY <2>2, <2>3, <2>6, <2>9, TimeAssumption
    <2>. QED BY <2>2, <2>6, <2>8, <2>9, <2>10, <2>11, <2>12 DEF RequestOf
  <1>10. ASSUME NEW t \in DOMAIN issued, Revoke(t)
         PROVE  RequestOf'
    BY <1>10, RevokeTyped DEF RequestOf, Revoke, TypeOK, Fresh
  <1>11. ASSUME NEW i \in Call, Unauthenticated(i) \/ Refuses(i)
         PROVE  RequestOf'
    BY <1>11 DEF Unauthenticated, Refuses, RequestOf, Fresh
  <1>12. ASSUME NEW i \in Call, Serves(i)
         PROVE  RequestOf'
    <2>1. \A j \in Call : call'[j].token = call[j].token /\ call'[j].refused = call[j].refused
      BY <1>12, ServesCall
    <2>. QED BY <1>12, <2>1 DEF Serves, RequestOf, Fresh
  <1>13. CASE Tick
    <2>1. tokenRequest # NoRequest => ~Fresh'
      BY <1>13, TimeAssumption DEF Tick, RequestOf, Fresh, TypeOK
    <2>. QED BY <1>13, <2>1, TimeAssumption DEF Tick, RequestOf, TypeOK
  <1>. QED
    BY <1>2, <1>3, <1>4, <1>5, <1>7, <1>8, <1>9, <1>10, <1>11, <1>12, <1>13
    DEF Next, ConnectionBreaks, TimesOut

\* The part on the cached token is preserved: a token arrives at most a timeout after it
\* was issued, and is forgotten a margin before its lifetime is over (requestToken).
LEMMA StepCached ==
  ASSUME IInv, Next
  PROVE  CachedOf'
  <1> USE DEF IInv, Protocol
  <1>1. CASE TokenArrives
    <2>1. tokenRequest.minted # 0 /\ tokenRequest.minted \in DOMAIN issued /\ tokenRequest.deadline \in Int
      BY <1>1 DEF TokenArrives, TypeOK
    <2>2. /\ now <= tokenRequest.deadline
          /\ tokenRequest.deadline + Lifetime <= issued[tokenRequest.minted].expires + Timeout
      BY <2>1 DEF RequestOf
    <2>3. issued[tokenRequest.minted].expires \in Nat /\ now \in Nat
      BY <2>1, ExpiryTyped, TimeAssumption DEF TypeOK
    <2>4. token'.expiresAt = now + Lifetime - Margin /\ token'.id = tokenRequest.minted /\ issued' = issued
      BY <1>1, <2>3, ExpiresAtRange DEF TokenArrives
    <2>. QED BY <2>1, <2>2, <2>3, <2>4, TimeAssumption DEF CachedOf
  <1>2. CASE Mint
    <2>1. token # NoToken => token.id \in 1..Len(issued)
      BY DEF TypeOK
    <2>2. \A t \in 1..Len(issued) : issued'[t] = issued[t]
      BY <1>2 DEF Mint, TypeOK
    <2>. QED BY <1>2, <2>1, <2>2 DEF Mint, CachedOf
  <1>3. ASSUME NEW t \in DOMAIN issued, Revoke(t)
        PROVE  CachedOf'
    BY <1>3, RevokeTyped DEF Revoke, CachedOf, TypeOK
  <1>4. ASSUME token' \in {token, NoToken}, issued' = issued
        PROVE  CachedOf'
    BY <1>4 DEF CachedOf
  <1>5. TokenFails \/ TokenTimeout => token' = token /\ issued' = issued
    BY DEF TokenFails, TokenTimeout, TokenRejects
  <1>6. ASSUME NEW i \in Call, NEW r \in Request, Start(i, r)
        PROVE  CachedOf'
    BY <1>4, <1>6 DEF Start
  <1>7. ASSUME NEW i \in Call, Unauthorized(i) \/ ProfileRead(i) \/ Completes(i) \/ Malformed(i)
                               \/ ConnectionBreaks(i) \/ TimesOut(i)
        PROVE  CachedOf'
    BY <1>4, <1>7 DEF Unauthorized, ProfileRead, Completes, Malformed, SettlesAnswered,
                      ConnectionBreaks, TimesOut, GivesUp
  <1>8. ASSUME NEW i \in Call, Unauthenticated(i) \/ Refuses(i) \/ Serves(i)
        PROVE  CachedOf'
    BY <1>4, <1>8 DEF Unauthenticated, Refuses, Serves
  <1>9. CASE Tick
    BY <1>4, <1>9 DEF Tick
  <1>. QED BY <1>1, <1>2, <1>3, <1>4, <1>5, <1>6, <1>7, <1>8, <1>9 DEF Next

-----------------------------------------------------------------------------
(* The calls *)

\* A call that a step leaves alone keeps its part of the invariant.
LEMMA QuietCall ==
  ASSUME NEW i, CallOf(i),
         call'[i] = call[i], reply'[i] = reply[i], executed'[i] = executed[i], UNCHANGED now,
         call[i].pc = "token" => tokenRequest' # NoRequest,
         call[i].token # 0 => issued'[call[i].token].expires = issued[call[i].token].expires
  PROVE  CallOf(i)'
  BY DEF CallOf, Idle, NoRequest

\* What getToken makes of a call that was not executed: it is sent with a token that
\* outlives its deadline, or it awaits one.
LEMMA GetTokenCall ==
  ASSUME TypeOK, RequestOf, CachedOf, NEW i \in Call, NEW c \in CallState, GetToken(i, c),
         UNCHANGED <<token, issued, executed, now>>, c.request \in Request, c.request.user \in User,
         c.result = "none", c.attempt = 1, executed[i] = 0
  PROVE  CallOf(i)'
  <1>1. reply'[i] = NoReply
    BY DEF GetToken, TypeOK
  <1>2. CASE Fresh /\ call' = [call EXCEPT ![i] = Sent(c, token.id)]
    <2>1. token # NoToken /\ token.id \in DOMAIN issued /\ now < token.expiresAt /\ token.expiresAt \in Int
      BY <1>2 DEF Fresh, TypeOK
    <2>2. now \in Nat /\ issued[token.id].expires \in Nat
      <3>1. now \in Nat
        BY TimeAssumption DEF TypeOK
      <3>. QED BY <2>1, <3>1, ExpiryTyped
    <2>3. now <= Deadline /\ Deadline <= now + Timeout /\ Deadline \in Nat
      BY DeadlineRange DEF TypeOK
    <2>4. Deadline < issued[token.id].expires
      BY <2>1, <2>2, <2>3, TimeAssumption DEF CachedOf
    <2>5. call'[i] = Sent(c, token.id) /\ now \in 0..MaxTime
      BY <1>2 DEF TypeOK
    <2>6. token.id # 0
      BY <2>1 DEF TypeOK
    <2> DEFINE d == Sent(c, token.id)
    <2>7. /\ d.pc = "sent" /\ d.token = token.id /\ d.deadline = Deadline /\ d.request = c.request
          /\ d.attempt = 1 /\ d.result = "none"
      BY <2>1, <2>5, SentCall
    <2>. HIDE DEF d
    <2>. QED BY <1>1, <2>3, <2>4, <2>5, <2>6, <2>7 DEF CallOf, NoReply, d
  <1>3. CASE call' = [call EXCEPT ![i] = Awaiting(c)] /\ RequestToken
    <2>1. call'[i] = Awaiting(c) /\ tokenRequest' # NoRequest
      BY <1>3, RequestTokenRange DEF TypeOK
    <2> DEFINE d == Awaiting(c)
    <2>2. /\ d.pc = "token" /\ d.token = 0 /\ d.request = c.request /\ d.attempt = 1 /\ d.result = "none"
      BY AwaitingCall
    <2>. HIDE DEF d
    <2>. QED BY <1>1, <2>1, <2>2 DEF CallOf, NoReply, d
  <1>. QED BY <1>2, <1>3 DEF GetToken

\* getToken leaves the other calls alone, and keeps the token request that they await.
LEMMA GetTokenOthers ==
  ASSUME TypeOK, RequestOf, NEW i \in Call, NEW c, GetToken(i, c)
  PROVE  /\ tokenRequest # NoRequest => tokenRequest' # NoRequest
         /\ \A j \in Call \ {i} : call'[j] = call[j] /\ reply'[j] = reply[j]
  <1>1. tokenRequest # NoRequest => tokenRequest' # NoRequest
    BY RequestTokenRange DEF GetToken
  <1>. QED BY <1>1 DEF GetToken, TypeOK

\* The part on the calls is preserved.
LEMMA StepCalls ==
  ASSUME IInv, Next, NEW j \in Call
  PROVE  CallOf(j)'
  <1> USE DEF IInv, Protocol
  <1>0. call[j] \in CallState /\ CallOf(j) /\ now \in 0..MaxTime /\ now \in Nat
    BY TimeAssumption DEF TypeOK
  <1>1. CASE TokenArrives
    <2>1. tokenRequest.minted \in DOMAIN issued /\ tokenRequest.minted # 0 /\ token'.id = tokenRequest.minted
      BY <1>1 DEF TokenArrives, TypeOK
    <2>2. CASE call[j].pc # "token"
      <3>1. call'[j] = call[j]
        BY <1>1, <2>2 DEF TokenArrives
      <3>. QED BY <1>0, <1>1, <2>2, <3>1, QuietCall DEF TokenArrives
    <2>3. CASE call[j].pc = "token"
      <3> DEFINE d == Sent(call[j], tokenRequest.minted)
      <3>1. call'[j] = d
        BY <1>1, <2>1, <2>3 DEF TokenArrives
      <3>2. /\ d.pc = "sent" /\ d.token = tokenRequest.minted /\ d.deadline = Deadline /\ d.step = call[j].step
            /\ d.request = call[j].request /\ d.refused = call[j].refused /\ d.result = "none"
        BY <1>0, <2>1, <2>3, SentCall DEF CallOf
      <3>3. call[j].request \in Request /\ call[j].request.user \in User /\ reply[j].status = 0 /\ executed[j] = 0
        BY <1>0, <2>3 DEF CallOf
      <3>4. now <= Deadline /\ Deadline <= now + Timeout /\ Deadline \in Nat
        BY <1>0, DeadlineRange
      <3>5. /\ now <= tokenRequest.deadline /\ tokenRequest.deadline \in Int
            /\ tokenRequest.deadline + Lifetime <= issued[tokenRequest.minted].expires + Timeout
            /\ call[j].refused < tokenRequest.minted
            /\ issued[tokenRequest.minted].expires \in Nat
        BY <2>1, ExpiryTyped DEF RequestOf, TypeOK
      <3>6. Deadline < issued[tokenRequest.minted].expires
        BY <1>0, <3>4, <3>5, TimeAssumption
      <3>7. issued' = issued /\ reply' = reply /\ executed' = executed /\ now' = now
        BY <1>1 DEF TokenArrives
      <3>. HIDE DEF d
      <3>. QED BY <2>1, <3>1, <3>2, <3>3, <3>4, <3>5, <3>6, <3>7 DEF CallOf
    <2>. QED BY <2>2, <2>3
  <1>2. ASSUME NEW r \in {"Authentication", "RequestError", "untyped"}, TokenRejects(r)
        PROVE  CallOf(j)'
    <2>1. CASE call[j].pc # "token"
      <3>1. call'[j] = call[j]
        BY <1>2, <2>1 DEF TokenRejects
      <3>. QED BY <1>0, <1>2, <2>1, <3>1, QuietCall DEF TokenRejects
    <2>2. CASE call[j].pc = "token"
      <3> DEFINE d == Settled(call[j], r)
      <3>1. call'[j] = d /\ r \in Result
        BY <1>2, <2>2 DEF TokenRejects, Result
      <3>2. d.pc = "done" /\ d.token = 0
        BY <1>0, <2>2, <3>1, SettledCall DEF CallOf
      <3>3. reply' = reply /\ reply[j].status = 0
        BY <1>0, <1>2, <2>2 DEF TokenRejects, CallOf
      <3>. HIDE DEF d
      <3>. QED BY <3>1, <3>2, <3>3 DEF CallOf
    <2>. QED BY <2>1, <2>2
  <1>3. ASSUME NEW i \in Call, NEW r \in Request, Start(i, r)
        PROVE  CallOf(j)'
    <2>1. call[i] = Idle /\ reply[i].status = 0 /\ executed[i] = 0 /\ call[i] \in CallState
      BY <1>3 DEF Start, CallOf, Idle, TypeOK
    <2> DEFINE c == Started(call[i], r)
    <2>2. c \in CallState /\ c.request = r /\ c.result = "none" /\ c.attempt = 1 /\ c.token = 0
      BY <2>1, StartedCall DEF Idle
    <2>. HIDE DEF c
    <2>3. CASE RequireUserId(r)
      <3>1. GetToken(i, c) /\ UNCHANGED <<token, issued, executed, now>> /\ r.user \in User
        BY <1>3, <2>3 DEF Start, c, RequireUserId
      <3>2. CASE j = i
        BY <2>1, <2>2, <3>1, <3>2, GetTokenCall
      <3>3. CASE j # i
        <4>1. call[j].pc = "token" => tokenRequest' # NoRequest
          BY <1>0, <3>1, GetTokenOthers DEF CallOf
        <4>. QED BY <1>0, <3>1, <3>3, <4>1, GetTokenOthers, QuietCall
      <3>. QED BY <3>2, <3>3
    <2>4. CASE ~RequireUserId(r)
      <3> DEFINE d == Settled(c, "RequestError")
      <3>1. call' = [call EXCEPT ![i] = d] /\ UNCHANGED <<token, tokenRequest, issued, executed, now, reply>>
        BY <1>3, <2>4 DEF Start, c
      <3>2. d.pc = "done" /\ d.token = 0 /\ d.attempt = 1
        BY <2>2, SettledCall DEF Result
      <3>. HIDE DEF d
      <3>3. CASE j = i
        <4>1. call'[j] = d
          BY <3>1, <3>3 DEF TypeOK
        <4>. QED BY <2>1, <3>1, <3>2, <3>3, <4>1 DEF CallOf
      <3>4. CASE j # i
        <4>1. call'[j] = call[j]
          BY <3>1, <3>4 DEF TypeOK
        <4>. QED BY <1>0, <3>1, <4>1, QuietCall DEF CallOf
      <3>. QED BY <3>3, <3>4
    <2>. QED BY <2>3, <2>4
  <1>4. ASSUME NEW i \in Call, Unauthorized(i)
        PROVE  CallOf(j)'
    <2>1. tokenRequest' # NoRequest /\ UNCHANGED <<issued, executed, now>>
      BY <1>4, RequestTokenRange DEF Unauthorized
    <2>2. CASE j = i
      <3> DEFINE d == Awaiting(Refused(call[i]))
      <3>1. call'[i] = d /\ reply'[i] = NoReply
        BY <1>4 DEF Unauthorized, TypeOK
      <3>2. d.pc = "token" /\ d.token = 0 /\ d.request = call[i].request /\ d.result = call[i].result
        BY <1>0, <2>2, RefusedCall, AwaitingCall
      <3>3. call[i].pc = "sent" /\ reply[i].status = 401 /\ call[i].token # 0
        BY <1>0, <1>4, <2>2 DEF Unauthorized, Answered, CallOf
      <3>4. call[i].request \in Request /\ call[i].request.user \in User /\ call[i].result = "none" /\ executed[i] = 0
        BY <1>0, <2>2, <3>3 DEF CallOf
      <3>. HIDE DEF d
      <3>. QED BY <2>1, <2>2, <3>1, <3>2, <3>4 DEF CallOf, NoReply
    <2>3. CASE j # i
      <3>1. call'[j] = call[j] /\ reply'[j] = reply[j]
        BY <1>4, <2>3 DEF Unauthorized, TypeOK
      <3>. QED BY <1>0, <2>1, <3>1, QuietCall
    <2>. QED BY <2>2, <2>3
  <1>5. ASSUME NEW i \in Call, ProfileRead(i)
        PROVE  CallOf(j)'
    <2> DEFINE c == Proceeding(call[i])
    <2>1. GetToken(i, c) /\ UNCHANGED <<token, issued, executed, now>>
      BY <1>5 DEF ProfileRead
    <2>2. /\ call[i].request \in Request /\ call[i].request.user \in User /\ call[i].result = "none"
          /\ executed[i] = 0 /\ call[i] \in CallState
      BY <1>5 DEF ProfileRead, Answered, CallOf, TypeOK
    <2>3. c \in CallState /\ c.request = call[i].request /\ c.result = "none" /\ c.attempt = 1
      BY <2>2, ProceedingCall
    <2>. HIDE DEF c
    <2>4. CASE j = i
      BY <2>1, <2>2, <2>3, <2>4, GetTokenCall
    <2>5. CASE j # i
      <3>1. call[j].pc = "token" => tokenRequest' # NoRequest
        BY <1>0, <2>1, GetTokenOthers DEF CallOf
      <3>. QED BY <1>0, <2>1, <2>5, <3>1, GetTokenOthers, QuietCall
    <2>. QED BY <2>4, <2>5
  <1>6. ASSUME NEW i \in Call, NEW r \in Result, SettlesAnswered(i, r)
        PROVE  CallOf(j)'
    <2>1. UNCHANGED <<token, tokenRequest, issued, executed, now>>
      BY <1>6 DEF SettlesAnswered
    <2>2. CASE j = i
      <3> DEFINE d == Settled(Idle, r)
      <3>1. call'[i] = d /\ reply'[i] = NoReply
        BY <1>6 DEF SettlesAnswered, TypeOK
      <3>2. d.pc = "done" /\ d.token = 0
        BY IdleTyped, SettledCall DEF Idle
      <3>. HIDE DEF d
      <3>. QED BY <2>2, <3>1, <3>2 DEF CallOf, NoReply
    <2>3. CASE j # i
      <3>1. call'[j] = call[j] /\ reply'[j] = reply[j]
        BY <1>6, <2>3 DEF SettlesAnswered, TypeOK
      <3>. QED BY <1>0, <2>1, <3>1, QuietCall DEF CallOf
    <2>. QED BY <2>2, <2>3
  <1>7. ASSUME NEW i \in Call, Completes(i) \/ Malformed(i)
        PROVE  CallOf(j)'
    BY <1>6, <1>7 DEF Completes, Malformed, Failure, AssertOk, Result
  <1>8. ASSUME NEW i \in Call, GivesUp(i)
        PROVE  CallOf(j)'
    <2>1. UNCHANGED <<token, tokenRequest, issued, executed, now, reply>>
      BY <1>8 DEF GivesUp
    <2>2. CASE j = i
      <3> DEFINE d == Settled(call[i], "RequestError")
      <3>1. call'[i] = d
        BY <1>8 DEF GivesUp, TypeOK
      <3>2. /\ d.pc = "done" /\ d.token = call[i].token /\ d.refused = 0 /\ d.result = "RequestError"
            /\ d.request = call[i].request /\ d.step = call[i].step
        BY <1>0, <2>2, SettledCall DEF Result
      <3>3. call[i].pc = "sent" /\ call[i].token # 0 /\ call[i].token \in Nat
        BY <1>0, <1>8, <2>2 DEF GivesUp, CallOf, CallState, TypeOK
      <3>. HIDE DEF d
      <3>. QED BY <1>0, <2>1, <2>2, <3>1, <3>2, <3>3 DEF CallOf
    <2>3. CASE j # i
      <3>1. call'[j] = call[j]
        BY <1>8, <2>3 DEF GivesUp, TypeOK
      <3>. QED BY <1>0, <2>1, <3>1, QuietCall DEF CallOf
    <2>. QED BY <2>2, <2>3
  <1>9. CASE Mint
    <2>1. call[j].token # 0 => call[j].token \in 1..Len(issued)
      <3>1. issued \in Seq([expires : Nat, revoked : BOOLEAN])
        BY DEF TypeOK
      <3>. QED BY <1>0, <3>1 DEF CallState
    <2>2. \A t \in 1..Len(issued) : issued'[t] = issued[t]
      BY <1>9 DEF Mint, TypeOK
    <2>3. tokenRequest' # NoRequest
      BY StepRequest, <1>9 DEF Mint, NoRequest, RequestOf
    <2>. QED BY <1>0, <1>9, <2>1, <2>2, <2>3, QuietCall DEF Mint
  <1>10. ASSUME NEW t \in DOMAIN issued, Revoke(t)
         PROVE  CallOf(j)'
    <2>1. call[j].token # 0 => issued'[call[j].token].expires = issued[call[j].token].expires
      BY <1>0, <1>10, RevokeTyped DEF CallState
    <2>. QED BY <1>0, <1>10, <2>1, QuietCall DEF Revoke, CallOf
  <1>11. ASSUME NEW i \in Call, Underway(i), UNCHANGED <<issued, now, tokenRequest>>,
                UNCHANGED <<call, executed>>, NEW status \in {401, 403, 409, 500}, Replies(i, status, "none")
         PROVE  CallOf(j)'
    <2>1. CASE j # i
      <3>1. reply'[j] = reply[j]
        BY <1>11, <2>1 DEF Replies, TypeOK
      <3>. QED BY <1>0, <1>11, <3>1, QuietCall DEF CallOf
    <2>2. CASE j = i
      <3>1. reply'[j].status = status
        BY <1>11, <2>2 DEF Replies, TypeOK
      <3>. QED BY <1>0, <1>11, <2>2, <3>1 DEF CallOf, Underway, Idle
    <2>. QED BY <2>1, <2>2
  <1>12. ASSUME NEW i \in Call, Unauthenticated(i) \/ Refuses(i)
         PROVE  CallOf(j)'
    BY <1>11, <1>12 DEF Unauthenticated, Refuses
  <1>13. ASSUME NEW i \in Call, Serves(i)
         PROVE  CallOf(j)'
    <2>1. UNCHANGED <<token, tokenRequest, issued, now>> /\ Underway(i)
      BY <1>13 DEF Serves
    <2>2. CASE j # i
      BY <1>0, <1>13, <2>1, <2>2, ServesCall, QuietCall DEF CallOf
    <2>3. CASE j = i
      <3>1. call[j].token # 0 /\ call[j].pc \in {"sent", "done"} /\ executed[j] = 0
        BY <1>0, <2>1, <2>3 DEF Underway, CallOf
      <3>2. executed'[j] = IF reply'[j].status = 200 /\ call[j].step = "main" THEN 1 ELSE 0
        <4>1. CASE ServesRead(i)
          BY <2>3, <3>1, <4>1 DEF ServesRead
        <4>2. CASE ServesUpdate(i) \/ ServesOther(i)
          BY <2>3, <3>1, <4>2, ServesMain DEF TypeOK
        <4>. QED BY <1>13, <4>1, <4>2 DEF Serves
      <3>. QED BY <1>0, <1>13, <2>1, <2>3, <3>1, <3>2, ServesCall DEF CallOf
    <2>. QED BY <2>2, <2>3
  <1>14. CASE Tick
    <2>1. call[j].pc = "sent" => now + 1 <= call[j].deadline
      BY <1>0, <1>14 DEF Tick, CallState
    <2>. QED BY <1>0, <1>14, <2>1 DEF Tick, CallOf, Idle
  <1>. QED
    BY <1>1, <1>2, <1>3, <1>4, <1>5, <1>7, <1>8, <1>9, <1>10, <1>12, <1>13, <1>14
    DEF Next, ConnectionBreaks, TimesOut, TokenFails, TokenTimeout

-----------------------------------------------------------------------------
(* The profiles that calls read, and the users of Keycloak *)

\* A request is one of Requests, and not the absent one.
LEMMA RequestTyped ==
  ASSUME NEW r \in Request
  PROVE  r # NoRequest /\ r.patch \in Patch /\ r.attributes \in BOOLEAN
  <1>1. r \in Requests
    BY RequestAssumption
  <1>. QED BY <1>1 DEF Requests, NoRequest

\* A step that keeps what a call asks for and has read keeps its part on the profile.
LEMMA QuietProfile ==
  ASSUME NEW j, ProfileOf(j), reply'[j] \in {reply[j], NoReply},
         call'[j].step = call[j].step, call'[j].request = call[j].request,
         call'[j].profile = call[j].profile,
         call'[j].pc \in {"token", "sent"} \/ call'[j].token # 0
           => call[j].pc \in {"token", "sent"} \/ call[j].token # 0
  PROVE  ProfileOf(j)'
  BY DEF ProfileOf, NoReply, NoRequest

\* What getToken makes of a call, as far as its profile is concerned.
LEMMA GetTokenProfile ==
  ASSUME TypeOK, NEW i \in Call, NEW c \in CallState, GetToken(i, c)
  PROVE  /\ reply'[i] = NoReply
         /\ call'[i].step = c.step /\ call'[i].request = c.request /\ call'[i].profile = c.profile
  <1>1. reply'[i] = NoReply
    BY DEF GetToken, TypeOK
  <1>2. CASE Fresh /\ call' = [call EXCEPT ![i] = Sent(c, token.id)]
    <2>1. token.id \in DOMAIN issued /\ call'[i] = Sent(c, token.id) /\ now \in 0..MaxTime
      BY <1>2 DEF Fresh, TypeOK
    <2>. QED BY <1>1, <2>1, SentCall
  <1>3. CASE call' = [call EXCEPT ![i] = Awaiting(c)]
    <2>1. call'[i] = Awaiting(c)
      BY <1>3 DEF TypeOK
    <2>. QED BY <1>1, <2>1, AwaitingCall
  <1>. QED BY <1>2, <1>3 DEF GetToken

\* The part on the profiles is preserved: updateUser with attributes reads before it writes.
LEMMA StepProfiles ==
  ASSUME IInv, Next, NEW j \in Call
  PROVE  ProfileOf(j)'
  <1> USE DEF IInv, Protocol
  <1>0. call[j] \in CallState /\ ProfileOf(j) /\ now \in 0..MaxTime
    BY DEF TypeOK
  <1>1. CASE TokenArrives
    <2>1. tokenRequest.minted \in DOMAIN issued /\ token'.id = tokenRequest.minted /\ reply' = reply
      BY <1>1 DEF TokenArrives, TypeOK
    <2>2. CASE call[j].pc # "token"
      <3>1. call'[j] = call[j]
        BY <1>1, <2>2 DEF TokenArrives
      <3>. QED BY <1>0, <2>1, <3>1, QuietProfile
    <2>3. CASE call[j].pc = "token"
      <3>1. call'[j] = Sent(call[j], tokenRequest.minted)
        BY <1>1, <2>1, <2>3 DEF TokenArrives
      <3>2. /\ call'[j].step = call[j].step /\ call'[j].request = call[j].request
            /\ call'[j].profile = call[j].profile
        BY <1>0, <2>1, <3>1, SentCall
      <3>. QED BY <1>0, <2>1, <2>3, <3>2, QuietProfile
    <2>. QED BY <2>2, <2>3
  <1>2. ASSUME NEW r \in {"Authentication", "RequestError", "untyped"}, TokenRejects(r)
        PROVE  ProfileOf(j)'
    <2>1. r \in Result /\ reply' = reply
      BY <1>2 DEF TokenRejects, Result
    <2>2. CASE call[j].pc # "token"
      <3>1. call'[j] = call[j]
        BY <1>2, <2>2 DEF TokenRejects
      <3>. QED BY <1>0, <2>1, <3>1, QuietProfile
    <2>3. CASE call[j].pc = "token"
      <3>1. call'[j] = Settled(call[j], r)
        BY <1>2, <2>3 DEF TokenRejects
      <3>. QED BY <1>0, <2>1, <2>3, <3>1, SettledCall, QuietProfile
    <2>. QED BY <2>2, <2>3
  <1>3. ASSUME NEW i \in Call, j # i, call'[j] = call[j], reply'[j] = reply[j]
        PROVE  ProfileOf(j)'
    BY <1>0, <1>3, QuietProfile
  <1>4. ASSUME NEW r \in Request, Start(j, r)
        PROVE  ProfileOf(j)'
    <2> DEFINE c == Started(call[j], r)
    <2>1. /\ c \in CallState /\ c.request = r
          /\ c.step = IF r.op = "updateUser" /\ r.attributes THEN "read" ELSE "main"
      BY <1>0, StartedCall
    <2>. HIDE DEF c
    <2>2. CASE RequireUserId(r)
      <3>1. GetToken(j, c)
        BY <1>4, <2>2 DEF Start, c
      <3>. QED BY <2>1, <3>1, GetTokenProfile DEF ProfileOf, NoReply
    <2>3. CASE ~RequireUserId(r)
      <3>1. call'[j] = Settled(c, "RequestError") /\ reply'[j] = reply[j]
        BY <1>4, <2>3 DEF Start, TypeOK, c
      <3>2. call'[j].pc = "done" /\ call'[j].token = c.token
        BY <2>1, <3>1, SettledCall DEF Result
      <3>3. call[j].pc = "idle"
        BY <1>4 DEF Start
      <3>4. c.token = 0 /\ reply[j].status = 0
        BY <1>0, <3>3, StartedCall DEF CallOf, Idle, c
      <3>. QED BY <1>0, <3>1, <3>2, <3>4 DEF ProfileOf
    <2>. QED BY <2>2, <2>3
  <1>5. CASE Unauthorized(j)
    <2>1. call'[j] = Awaiting(Refused(call[j])) /\ reply'[j] = NoReply
      BY <1>5 DEF Unauthorized, TypeOK
    <2>2. call[j].pc = "sent"
      BY <1>5 DEF Unauthorized, Answered
    <2>. QED BY <1>0, <2>1, <2>2, RefusedCall, AwaitingCall, QuietProfile
  <1>6. CASE ProfileRead(j)
    <2> DEFINE c == Proceeding(call[j])
    <2>1. GetToken(j, c) /\ c \in CallState /\ c.step = "main" /\ c.profile = call[j].profile
      BY <1>0, <1>6, ProceedingCall DEF ProfileRead
    <2>2. call[j].profile # NoProfile
      BY <1>0, <1>6 DEF ProfileRead, ProfileOf
    <2>. HIDE DEF c
    <2>. QED BY <2>1, <2>2, GetTokenProfile DEF ProfileOf, NoReply
  <1>7. ASSUME NEW r \in Result, SettlesAnswered(j, r)
        PROVE  ProfileOf(j)'
    <2>1. call'[j] = Settled(Idle, r) /\ reply'[j] = NoReply
      BY <1>7 DEF SettlesAnswered, TypeOK
    <2>2. call'[j].pc = "done" /\ call'[j].token = 0
      BY <2>1, IdleTyped, SettledCall DEF Idle
    <2>. QED BY <2>1, <2>2 DEF ProfileOf, NoReply
  <1>8. CASE Completes(j) \/ Malformed(j)
    BY <1>7, <1>8 DEF Completes, Malformed, Failure, AssertOk, Result
  <1>9. CASE GivesUp(j)
    <2>1. call'[j] = Settled(call[j], "RequestError") /\ reply' = reply /\ call[j].pc = "sent"
      BY <1>9 DEF GivesUp, TypeOK
    <2>. QED BY <1>0, <2>1, SettledCall, QuietProfile DEF Result
  <1>10. CASE UNCHANGED <<call, reply>>
    BY <1>0, <1>10, QuietProfile
  <1>11. ASSUME NEW status \in {401, 403, 409, 500}, Replies(j, status, "none"), UNCHANGED call
         PROVE  ProfileOf(j)'
    <2>1. reply'[j].status = status
      BY <1>11 DEF Replies, TypeOK
    <2>. QED BY <1>0, <1>11, <2>1 DEF ProfileOf, NoRequest
  <1>12. CASE Serves(j)
    <2>1. CASE ServesRead(j)
      <3> DEFINE profile == users[call[j].request.user]
      <3>1. /\ reply'[j] = [status |-> IF profile = NoProfile THEN 404 ELSE 200, field |-> "none"]
            /\ call' = [call EXCEPT ![j].profile = profile] /\ call[j].step = "read"
        BY <2>1 DEF ServesRead, Replies, TypeOK
      <3>2. call'[j].profile = profile /\ call'[j].step = "read"
        BY <1>0, <1>12, <3>1, ServesCall DEF CallState, TypeOK
      <3>3. call'[j].pc = call[j].pc /\ call'[j].request = call[j].request /\ call'[j].token = call[j].token
        BY <1>12, ServesCall
      <3>. HIDE DEF profile
      <3>. QED BY <1>0, <3>1, <3>2, <3>3 DEF ProfileOf
    <2>2. CASE ServesUpdate(j) \/ ServesOther(j)
      <3>2. reply'[j].status # 0 /\ call' = call /\ call[j].step = "main"
        BY <2>2, ServesMain
      <3>3. call'[j] = call[j]
        BY <3>2
      <3>. QED BY <1>0, <3>2, <3>3 DEF ProfileOf
    <2>. QED BY <1>12, <2>1, <2>2 DEF Serves
  <1>13. ASSUME NEW i \in Call, j # i, NEW r \in Request, Start(i, r)
         PROVE  ProfileOf(j)'
    BY <1>3, <1>13 DEF Start, GetToken, TypeOK
  <1>14. ASSUME NEW i \in Call, j # i,
                Unauthorized(i) \/ ProfileRead(i) \/ Completes(i) \/ Malformed(i) \/ GivesUp(i)
         PROVE  ProfileOf(j)'
    BY <1>3, <1>14 DEF Unauthorized, ProfileRead, GetToken, Completes, Malformed, SettlesAnswered, GivesUp, TypeOK
  <1>15. ASSUME NEW i \in Call, j # i, Unauthenticated(i) \/ Refuses(i)
         PROVE  ProfileOf(j)'
    BY <1>3, <1>15 DEF Unauthenticated, Refuses, Replies, TypeOK
  <1>16. ASSUME NEW i \in Call, j # i, Serves(i)
         PROVE  ProfileOf(j)'
    BY <1>3, <1>16, ServesCall
  <1>17. CASE Unauthenticated(j) \/ Refuses(j)
    BY <1>11, <1>17 DEF Unauthenticated, Refuses
  <1>18. CASE Mint \/ Tick \/ \E t \in DOMAIN issued : Revoke(t)
    BY <1>10, <1>18 DEF Mint, Tick, Revoke
  <1>. QED
    BY <1>1, <1>2, <1>4, <1>5, <1>6, <1>8, <1>9, <1>12, <1>13, <1>14, <1>15, <1>16, <1>17, <1>18
    DEF Next, ConnectionBreaks, TimesOut, TokenFails, TokenTimeout

\* What a PUT stores is stored as it is: lower case is not lowered again.
LEMMA PutStored ==
  ASSUME TypeOK, UsersOf, NEW u \in User, NEW body \in Patch, NEW whole \in BOOLEAN,
         NEW f \in {"username", "email"}
  PROVE  Stored(f, Put(u, body, whole)[f]) = Put(u, body, whole)[f]
  <1>1. Put(u, body, whole)[f] = IF body[f] # Unset THEN Stored(f, body[f])
                                 ELSE IF whole \/ users[u] = NoProfile THEN None ELSE users[u][f]
    BY DEF Put, Key, Field
  <1>2. CASE body[f] # Unset
    <2>1. body[f] \in Value \cup {None, Empty}
      BY <1>2 DEF Patch, Key, Field
    <2>. QED BY <1>1, <1>2, <2>1, StoredTwice
  <1>3. CASE body[f] = Unset
    <2>1. Stored(f, None) = None
      BY ValueAssumption DEF Stored
    <2>. QED BY <1>1, <1>3, <2>1 DEF UsersOf
  <1>. QED BY <1>2, <1>3

\* Who is served holds an updated profile that is a profile (updateUser).
LEMMA UpdatedProfile ==
  ASSUME IInv, NEW i \in Call, Underway(i), ServesUpdate(i)
  PROVE  /\ call[i].request \in Request /\ call[i].request.user \in User
         /\ Body(call[i]) \in Patch /\ call[i].request.attributes \in BOOLEAN
         /\ call[i].request.attributes => call[i].profile \in Profile
  <1>1. call[i].request \in Request /\ call[i].request.user \in User
    BY DEF IInv, Protocol, Underway, CallOf
  <1>2. call[i].request.attributes => call[i].profile # NoProfile
    BY <1>1, RequestTyped DEF IInv, Protocol, Underway, ServesUpdate, ProfileOf
  <1>3. call[i].profile \in Profile \cup {NoProfile}
    BY DEF IInv, Protocol, TypeOK, CallState
  <1>. QED BY <1>1, <1>2, <1>3, BodyTyped DEF IInv, Protocol

\* No two users have the same name or address, and both are stored in lower case
\* (isTaken, and what Keycloak does with a profile).
LEMMA StepUsers ==
  ASSUME IInv, Next
  PROVE  UsersOf'
  <1> USE DEF IInv, Protocol
  <1>1. ASSUME users' = users
        PROVE  UsersOf'
    BY <1>1 DEF UsersOf, Taken
  <1>2. ASSUME NEW u \in User, users' = [users EXCEPT ![u] = NoProfile]
        PROVE  UsersOf'
    <2>1. \A w \in User : users'[w] # NoProfile => users'[w] = users[w] /\ users[w] # NoProfile
      BY <1>2 DEF TypeOK
    <2>2. \A w \in User : users'[w] # NoProfile => Taken(w, users[w])' \subseteq Taken(w, users[w])
      BY <2>1 DEF Taken
    <2>3. \A w \in User : users'[w] # NoProfile => Taken(w, users[w])' = {}
      BY <2>1, <2>2 DEF UsersOf
    <2>. QED BY <2>1, <2>3 DEF UsersOf
  <1>3. ASSUME NEW u \in User, NEW after \in Profile, users' = [users EXCEPT ![u] = after],
               Taken(u, after) = {}, \A f \in {"username", "email"} : Stored(f, after[f]) = after[f]
        PROVE  UsersOf'
    <2>1. SUFFICES ASSUME NEW w \in User, users'[w] # NoProfile
                   PROVE  /\ Taken(w, users[w])' = {}
                          /\ \A f \in {"username", "email"} : Stored(f, users'[w][f]) = users'[w][f]
      BY DEF UsersOf
    <2>2. CASE w = u
      <3>1. users'[w] = after
        BY <1>3, <2>2 DEF TypeOK
      <3>2. \A x \in User \ {u} : users'[x] = users[x]
        BY <1>3 DEF TypeOK
      <3>3. Taken(w, users[w])' = Taken(u, after)
        BY <2>2, <3>1, <3>2 DEF Taken
      <3>. QED BY <1>3, <3>1, <3>3
    <2>3. CASE w # u
      <3>1. users'[w] = users[w] /\ users'[u] = after
        BY <1>3, <2>3 DEF TypeOK
      <3>2. \A f \in {"username", "email"} : Stored(f, users[w][f]) = users[w][f]
        BY <2>1, <3>1 DEF UsersOf
      <3>3. Taken(w, users[w]) = {}
        BY <2>1, <3>1 DEF UsersOf
      <3>4. ASSUME NEW k \in {"username", "email"}, users[w][k] # None,
                   NEW x \in User \ {w}, users'[x] # NoProfile, users'[x][k] = users[w][k]
            PROVE  FALSE
        <4>1. CASE x = u
          <5>1. after[k] # None /\ users[w] # NoProfile /\ users[w][k] = after[k] /\ w \in User \ {u}
            BY <2>1, <2>3, <3>1, <3>4, <4>1
          <5>. QED BY <1>3, <5>1 DEF Taken
        <4>2. CASE x # u
          <5>1. users'[x] = users[x]
            BY <1>3, <4>2 DEF TypeOK
          <5>. QED BY <3>3, <3>4, <5>1 DEF Taken
        <4>. QED BY <4>1, <4>2
      <3>5. Taken(w, users[w])' = {}
        BY <3>1, <3>4 DEF Taken
      <3>. QED BY <3>1, <3>2, <3>5
    <2>. QED BY <2>2, <2>3
  <1>4. ASSUME NEW i \in Call, Serves(i)
        PROVE  UsersOf'
    <2>1. Underway(i) /\ call[i].request.user \in User
      BY <1>4 DEF Serves, Underway, CallOf
    <2>2. CASE ServesRead(i)
      BY <1>1, <2>2 DEF ServesRead
    <2>3. CASE ServesUpdate(i)
      <3> DEFINE u == call[i].request.user
      <3>1. users' = users \/ (Taken(u, After(i)) = {} /\ users' = [users EXCEPT ![u] = After(i)])
        BY <2>3 DEF ServesUpdate, UpdateStatus
      <3>2. After(i) \in Profile /\ \A f \in {"username", "email"} : Stored(f, After(i)[f]) = After(i)[f]
        BY <2>1, <2>3, UpdatedProfile, PutTyped, PutStored DEF After
      <3>. QED BY <1>1, <1>3, <2>1, <3>1, <3>2
    <2>4. CASE ServesOther(i)
      BY <1>1, <1>2, <2>1, <2>4 DEF ServesOther
    <2>. QED BY <1>4, <2>2, <2>3, <2>4 DEF Serves
  <1>5. TokenArrives \/ TokenFails \/ TokenTimeout \/ Mint \/ Tick => users' = users
    BY DEF TokenArrives, TokenFails, TokenTimeout, TokenRejects, Mint, Tick
  <1>6. ASSUME NEW i \in Call, NEW r \in Request, Start(i, r)
        PROVE  users' = users
    BY <1>6 DEF Start
  <1>7. ASSUME NEW i \in Call, \/ Unauthorized(i) \/ ProfileRead(i) \/ Completes(i) \/ Malformed(i)
                               \/ ConnectionBreaks(i) \/ TimesOut(i) \/ Unauthenticated(i) \/ Refuses(i)
        PROVE  users' = users
    BY <1>7 DEF Unauthorized, ProfileRead, Completes, Malformed, SettlesAnswered,
                ConnectionBreaks, TimesOut, GivesUp, Unauthenticated, Refuses
  <1>8. ASSUME NEW t \in DOMAIN issued, Revoke(t)
        PROVE  users' = users
    BY <1>8 DEF Revoke
  <1>. QED BY <1>1, <1>4, <1>5, <1>6, <1>7, <1>8 DEF Next

-----------------------------------------------------------------------------
(* The theorems *)

\* The service starts with nothing in flight (constructor).
LEMMA InitInvariant == Init => IInv
  <1> SUFFICES ASSUME Init PROVE IInv
    OBVIOUS
  <1>1. TypeOK
    <2>1. issued \in Seq([expires : Nat, revoked : BOOLEAN])
      BY EmptySeq DEF Init
    <2>2. call \in [Call -> CallState]
      BY IdleTyped DEF Init
    <2>. QED BY <2>1, <2>2, TimeAssumption DEF Init, TypeOK, NoRequest, NoReply, Answer
  <1>2. RequestOf /\ CachedOf
    BY DEF Init, RequestOf, CachedOf, NoRequest
  <1>3. UsersOf
    BY DEF Init, UsersOf
  <1>4. ASSUME NEW i \in Call
        PROVE  CallOf(i) /\ ProfileOf(i)
    <2>1. call[i] = Idle /\ reply[i] = NoReply /\ executed[i] = 0
      BY <1>4 DEF Init
    <2>. QED BY <2>1 DEF CallOf, ProfileOf, Idle, NoReply
  <1>. QED BY <1>1, <1>2, <1>3, <1>4 DEF IInv, Protocol

\* A step that changes nothing keeps the invariant.
LEMMA StutterInvariant == IInv /\ UNCHANGED vars => IInv'
  <1> SUFFICES ASSUME IInv, UNCHANGED vars PROVE IInv'
    OBVIOUS
  <1>1. TypeOK'
    BY DEF IInv, Protocol, TypeOK, CallState
  <1>2. RequestOf' /\ CachedOf' /\ UsersOf'
    BY DEF IInv, Protocol, RequestOf, CachedOf, UsersOf, Fresh, Taken
  <1>3. ASSUME NEW i \in Call
        PROVE  CallOf(i)' /\ ProfileOf(i)'
    BY QuietProfile DEF IInv, Protocol, CallOf
  <1>. QED BY <1>1, <1>2, <1>3 DEF IInv, Protocol

\* The invariant is preserved by every step.
LEMMA StepInvariant == IInv /\ [Next]_vars => IInv'
  BY StepTyped, StepRequest, StepCached, StepCalls, StepProfiles, StepUsers, StutterInvariant DEF IInv, Protocol

\* Every variable of the service and of Keycloak keeps its type, and every part of the
\* invariant holds at every step of every run.
THEOREM Invariance == Spec => []IInv
  <1>1. Init => IInv
    BY InitInvariant
  <1>2. IInv /\ [Next]_vars => IInv'
    BY StepInvariant
  <1>. QED BY <1>1, <1>2, PTL DEF Spec

\* The protocol of the token and of the calls: the cached token, the one token request and
\* every call agree with each other and with Keycloak (getToken, adminRequest).
THEOREM ProtocolHolds == Spec => []Protocol
  <1>1. IInv => Protocol
    BY DEF IInv
  <1>. QED BY <1>1, Invariance, PTL

\* Typing, for every number of calls and users (KeycloakAdminService).
THEOREM TypeCorrect == Spec => []TypeOK
  <1>1. IInv => TypeOK
    BY DEF IInv
  <1>. QED BY <1>1, Invariance, PTL

\* The outcome of a call is decided by the step that settles it, and by nothing after it.
LEMMA StepOutcome ==
  ASSUME IInv, IInv', Next, NEW j \in Call,
         executed[j] <= 1,
         call[j].result = "ok" => executed[j] = 1,
         call[j].result \notin {"none", "ok", "RequestError"} => executed[j] = 0
  PROVE  /\ executed'[j] <= 1
         /\ call'[j].result = "ok" => executed'[j] = 1
         /\ call'[j].result \notin {"none", "ok", "RequestError"} => executed'[j] = 0
  <1> DEFINE Goal == /\ executed'[j] <= 1
                     /\ call'[j].result = "ok" => executed'[j] = 1
                     /\ call'[j].result \notin {"none", "ok", "RequestError"} => executed'[j] = 0
  <1>0. /\ call[j] \in CallState /\ call'[j] \in CallState' /\ CallOf(j) /\ CallOf(j)'
        /\ executed[j] \in Nat
    BY DEF IInv, Protocol, TypeOK
  <1>1. CASE ~(call'[j].pc = "done" /\ call'[j].token = 0)
    BY <1>0, <1>1 DEF CallOf
  <1>2. CASE call'[j] = call[j] /\ executed'[j] = executed[j]
    BY <1>2
  <1>3. ASSUME NEW r \in {"Authentication", "RequestError", "untyped"}, TokenRejects(r)
        PROVE  Goal
    <2>1. CASE call[j].pc = "token"
      <3>1. call'[j].result = r
        BY <1>0, <1>3, <2>1, SettledCall DEF TokenRejects, Result
      <3>2. executed'[j] = 0
        BY <1>0, <1>3, <2>1 DEF TokenRejects, CallOf
      <3>. QED BY <3>1, <3>2
    <2>2. CASE call[j].pc # "token"
      BY <1>2, <1>3, <2>2 DEF TokenRejects
    <2>. QED BY <2>1, <2>2
  <1>4. CASE TokenArrives
    <2>1. CASE call[j].pc = "token"
      <3>1. tokenRequest.minted \in DOMAIN issued /\ now \in 0..MaxTime
        BY <1>4 DEF TokenArrives, IInv, TypeOK
      <3>2. call'[j] = Sent(call[j], tokenRequest.minted)
        BY <1>4, <2>1 DEF TokenArrives
      <3>3. call'[j].pc = "sent"
        BY <1>0, <3>1, <3>2, SentCall
      <3>. QED BY <1>1, <3>3
    <2>2. CASE call[j].pc # "token"
      BY <1>2, <1>4, <2>2 DEF TokenArrives
    <2>. QED BY <2>1, <2>2
  <1>5. ASSUME NEW r \in Request, Start(j, r)
        PROVE  Goal
    <2>1. executed'[j] = 0
      BY <1>0, <1>5 DEF Start, CallOf, Idle
    <2>2. CASE RequireUserId(r)
      <3>1. /\ call[j].result = "none" /\ GetToken(j, Started(call[j], r)) /\ now \in 0..MaxTime
            /\ token # NoToken => token.id \in DOMAIN issued
        BY <1>5, <1>0, <2>2 DEF Start, CallOf, Idle, IInv, TypeOK
      <3>2. Started(call[j], r) \in CallState /\ Started(call[j], r).result = "none"
        BY <1>0, <3>1, StartedCall
      <3>3. call'[j] = Awaiting(Started(call[j], r)) \/ (Fresh /\ call'[j] = Sent(Started(call[j], r), token.id))
        BY <3>1 DEF GetToken, IInv, TypeOK
      <3>4. call'[j].result = "none"
        BY <3>1, <3>2, <3>3, AwaitingCall, SentCall DEF Fresh
      <3>. QED BY <2>1, <3>4
    <2>3. CASE ~RequireUserId(r)
      <3>1. call'[j] = Settled(Started(call[j], r), "RequestError")
        BY <1>5, <2>3 DEF Start, IInv, TypeOK
      <3>2. call'[j].result = "RequestError"
        BY <1>0, <3>1, StartedCall, SettledCall DEF Result
      <3>. QED BY <2>1, <3>2
    <2>. QED BY <2>2, <2>3
  <1>6. CASE Unauthorized(j) \/ ProfileRead(j)
    <2>1. executed' = executed /\ call[j].pc = "sent"
      BY <1>6 DEF Unauthorized, ProfileRead, Answered
    <2>2. call'[j].pc # "done"
      <3>1. CASE Unauthorized(j)
        <4>1. call'[j] = Awaiting(Refused(call[j]))
          BY <3>1 DEF Unauthorized, IInv, TypeOK
        <4>. QED BY <1>0, <4>1, RefusedCall, AwaitingCall
      <3>2. CASE ProfileRead(j)
        <4>1. GetToken(j, Proceeding(call[j])) /\ Proceeding(call[j]) \in CallState
          BY <1>0, <3>2, ProceedingCall DEF ProfileRead
        <4>2. \/ call'[j] = Awaiting(Proceeding(call[j]))
              \/ call'[j] = Sent(Proceeding(call[j]), token.id) /\ token.id \in DOMAIN issued
          BY <4>1 DEF GetToken, Fresh, IInv, TypeOK
        <4>3. now \in 0..MaxTime
          BY DEF IInv, Protocol, TypeOK
        <4>. QED BY <4>1, <4>2, <4>3, AwaitingCall, SentCall
      <3>. QED BY <1>6, <3>1, <3>2
    <2>. QED BY <1>1, <2>2
  <1>7. ASSUME NEW r \in Result, SettlesAnswered(j, r)
        PROVE  call'[j].result = r /\ executed'[j] = executed[j]
    <2>1. call'[j] = Settled(Idle, r)
      BY <1>7 DEF SettlesAnswered, IInv, TypeOK
    <2>. QED BY <1>7, <2>1, IdleTyped, SettledCall DEF SettlesAnswered
  <1>8. CASE Completes(j)
    <2>1. Failure(reply[j]) \in Result
      BY DEF Failure, AssertOk, Result
    <2>2. call'[j].result = Failure(reply[j]) /\ executed'[j] = executed[j]
      BY <1>7, <1>8, <2>1 DEF Completes
    <2>3. executed[j] = IF reply[j].status = 200 THEN 1 ELSE 0
      BY <1>0, <1>8 DEF Completes, Answered, CallOf
    <2>4. Failure(reply[j]) = "ok" <=> reply[j].status = 200
      BY DEF Failure, AssertOk
    <2>. QED BY <2>2, <2>3, <2>4
  <1>9. CASE Malformed(j)
    <2>1. call'[j].result = "RequestError" /\ executed'[j] = executed[j]
      BY <1>7, <1>9 DEF Malformed, Result
    <2>. QED BY <2>1
  <1>10. CASE GivesUp(j)
    <2>1. call'[j] = Settled(call[j], "RequestError") /\ executed' = executed
      BY <1>10 DEF GivesUp, IInv, TypeOK
    <2>2. call'[j].result = "RequestError"
      BY <1>0, <2>1, SettledCall DEF Result
    <2>. QED BY <2>1, <2>2
  <1>11. ASSUME NEW i \in Call, j # i, Serves(i)
         PROVE  Goal
    BY <1>2, <1>11, ServesCall DEF IInv, Protocol
  <1>12. CASE Serves(j)
    <2>1. call'[j].token = call[j].token /\ call[j].token # 0
      BY <1>12, ServesCall DEF Serves, Underway, IInv
    <2>. QED BY <1>1, <2>1
  <1>13. ASSUME NEW i \in Call, NEW r \in Request, j # i, Start(i, r)
         PROVE  Goal
    BY <1>2, <1>13 DEF Start, GetToken, IInv, TypeOK
  <1>14. ASSUME NEW i \in Call, j # i,
                Unauthorized(i) \/ ProfileRead(i) \/ Completes(i) \/ Malformed(i) \/ GivesUp(i)
         PROVE  Goal
    BY <1>2, <1>14 DEF Unauthorized, ProfileRead, GetToken, Completes, Malformed, SettlesAnswered, GivesUp,
                       IInv, TypeOK
  <1>15. CASE \/ \E i \in Call : Unauthenticated(i) \/ Refuses(i)
              \/ Mint \/ Tick \/ \E t \in DOMAIN issued : Revoke(t)
    BY <1>2, <1>15 DEF Unauthenticated, Refuses, Mint, Tick, Revoke
  <1>. QED
    BY <1>3, <1>4, <1>5, <1>6, <1>8, <1>9, <1>10, <1>11, <1>12, <1>13, <1>14, <1>15
    DEF Next, ConnectionBreaks, TimesOut, TokenFails, TokenTimeout

\* A call never reports what did not happen: "ok" was executed once, a refusal never, and no
\* operation is executed twice, although a request is sent again after a 401 (authorizedFetch).
THEOREM Honesty == Spec => []OutcomeIsTrue
  <1>1. Init => OutcomeIsTrue
    BY DEF Init, OutcomeIsTrue, Idle
  <1>2. IInv /\ IInv' /\ OutcomeIsTrue /\ [Next]_vars => OutcomeIsTrue'
    <2>1. IInv /\ IInv' /\ OutcomeIsTrue /\ Next => OutcomeIsTrue'
      BY StepOutcome DEF OutcomeIsTrue
    <2>2. OutcomeIsTrue /\ UNCHANGED vars => OutcomeIsTrue'
      BY DEF OutcomeIsTrue
    <2>. QED BY <2>1, <2>2
  <1>. QED BY <1>1, <1>2, Invariance, PTL DEF Spec

\* A request that is sent again after a 401 never carries the token that was refused
\* (authorizedFetch discards the cached token, whichever it is).
THEOREM FreshResend == Spec => []ResendIsFresh
  <1>1. IInv => ResendIsFresh
    BY DEF IInv, Protocol, CallOf, ResendIsFresh
  <1>. QED BY <1>1, Invariance, PTL

\* No token expires at Keycloak while a call waits for its answer, whatever the lifetime, the
\* margin and the timeout, as long as a margin is two timeouts (TOKEN_EXPIRY_MARGIN_MS).
THEOREM Unexpired == Spec => []UnexpiredInUse
  <1>1. ASSUME IInv, NEW i \in Call, call[i].pc = "sent"
        PROVE  now < issued[call[i].token].expires
    <2>1. call[i].token # 0 /\ now <= call[i].deadline /\ call[i].deadline < issued[call[i].token].expires
      BY <1>1 DEF IInv, Protocol, CallOf
    <2>2. call[i].token \in DOMAIN issued /\ call[i].deadline \in Int /\ now \in Nat
      BY <1>1, <2>1, TimeAssumption DEF IInv, Protocol, TypeOK, CallState
    <2>3. issued[call[i].token].expires \in Nat
      BY <1>1, <2>2, ExpiryTyped DEF IInv, Protocol
    <2>. QED BY <2>1, <2>2, <2>3
  <1>2. IInv => UnexpiredInUse
    BY <1>1 DEF UnexpiredInUse
  <1>. QED BY <1>2, Invariance, PTL

-----------------------------------------------------------------------------
(* The stub *)

\* What the stub lays over a stored profile is what Keycloak stores of the PUT, with the
\* fields that the patch names or, for attributes, with the whole profile that was read.
LEMMA PatchedIsPut ==
  ASSUME TypeOK, UsersOf, NEW i \in Call, call[i].request \in Request, call[i].request.user \in User,
         users[call[i].request.user] # NoProfile,
         call[i].request.attributes => call[i].profile = users[call[i].request.user]
  PROVE  StubPatched(users[call[i].request.user], call[i].request.patch)
           = Put(call[i].request.user, Body(call[i]), call[i].request.attributes)
  <1> DEFINE u == call[i].request.user
             patch == call[i].request.patch
             profile == users[u]
             whole == call[i].request.attributes
             body == Body(call[i])
  <1>1. profile \in Profile /\ patch \in Patch /\ whole \in BOOLEAN
    BY RequestTyped DEF TypeOK
  <1>2. body = IF whole THEN Overlaid(patch, profile) ELSE patch
    BY DEF Body
  <1>3. ASSUME NEW k \in Key
        PROVE  (IF patch[k] = Unset THEN profile[k] ELSE Stored(k, patch[k]))
                 = IF body[k] # Unset THEN Stored(k, body[k])
                   ELSE IF whole \/ profile = NoProfile THEN None ELSE profile[k]
    <2>1. CASE ~whole
      BY <1>2, <2>1
    <2>2. CASE whole
      <3>1. body[k] = IF patch[k] # Unset THEN patch[k] ELSE IF profile[k] = None THEN Unset ELSE profile[k]
        BY <1>2, <2>2 DEF Overlaid
      <3>2. CASE patch[k] # Unset
        BY <3>1, <3>2
      <3>3. CASE patch[k] = Unset /\ profile[k] = None
        BY <2>2, <3>1, <3>3
      <3>4. CASE patch[k] = Unset /\ profile[k] # None
        <4>1. profile[k] \in Value
          BY <1>1, <3>4 DEF Profile
        <4>2. body[k] = profile[k] /\ profile[k] # Unset
          BY <3>1, <3>4, <4>1, ValueAssumption
        <4>3. Stored(k, profile[k]) = profile[k]
          <5>1. CASE k \in {"username", "email"}
            BY <5>1 DEF UsersOf
          <5>2. CASE k \notin {"username", "email"}
            BY <4>1, <5>2, ValueAssumption DEF Stored
          <5>. QED BY <5>1, <5>2
        <4>. QED BY <3>4, <4>2, <4>3
      <3>. QED BY <3>2, <3>3, <3>4
    <2>. QED BY <2>1, <2>2
  <1>. QED BY <1>3 DEF StubPatched, Put

\* A name or address that is taken is one that the patch gives: the others were unique.
LEMMA TakenIsGiven ==
  ASSUME UsersOf, NEW u \in User, users[u] # NoProfile, NEW patch,
         NEW f \in Taken(u, StubPatched(users[u], patch))
  PROVE  patch[f] # Unset
  <1> SUFFICES ASSUME patch[f] = Unset
               PROVE  FALSE
    OBVIOUS
  <1>1. f \in {"username", "email"} /\ f \in Key
    BY DEF Taken, Key, Field
  <1>2. StubPatched(users[u], patch)[f] = users[u][f]
    BY <1>1 DEF StubPatched
  <1>3. f \in Taken(u, users[u])
    BY <1>1, <1>2 DEF Taken
  <1>. QED BY <1>3 DEF UsersOf

\* Only Keycloak's own service of a request decides a call with one of these answers.
LEMMA DecidedByService ==
  ASSUME IInv, Next, NEW i \in Call, reply[i].status = 0,
         reply'[i].status \in {200, 400, 404} \/ reply'[i].field # "none"
  PROVE  Serves(i)
  <1> USE DEF IInv, Protocol
  <1>1. reply[i].field = "none"
    BY DEF ProfileOf
  <1>2. reply' \notin {reply, [reply EXCEPT ![i] = NoReply]}
    BY <1>1 DEF TypeOK, NoReply
  <1>3. ASSUME NEW j \in Call, j # i PROVE reply' # [reply EXCEPT ![j] = NoReply]
    BY <1>1, <1>3 DEF TypeOK
  <1>4. \A j \in Call : reply' # [reply EXCEPT ![j] = NoReply]
    BY <1>2, <1>3
  <1>5. ASSUME NEW j \in Call, NEW status \in {401, 403, 409, 500}, Replies(j, status, "none")
        PROVE  FALSE
    <2>1. reply'[i] = IF j = i THEN [status |-> status, field |-> "none"] ELSE reply[i]
      BY <1>5 DEF Replies, TypeOK
    <2>. QED BY <1>1, <2>1
  <1>6. ASSUME NEW j \in Call, j # i, Serves(j)
        PROVE  FALSE
    BY <1>1, <1>6, ServesCall
  <1>7. ~TokenArrives /\ ~TokenFails /\ ~TokenTimeout /\ ~Mint /\ ~Tick
    BY <1>2 DEF TokenArrives, TokenFails, TokenTimeout, TokenRejects, Mint, Tick
  <1>8. ASSUME NEW j \in Call, NEW r \in Request, Start(j, r)
        PROVE  FALSE
    BY <1>2, <1>4, <1>8 DEF Start, GetToken
  <1>9. ASSUME NEW j \in Call, \/ Unauthorized(j) \/ ProfileRead(j) \/ Completes(j) \/ Malformed(j)
                               \/ ConnectionBreaks(j) \/ TimesOut(j)
        PROVE  FALSE
    BY <1>2, <1>4, <1>9 DEF Unauthorized, ProfileRead, GetToken, Completes, Malformed, SettlesAnswered,
                            ConnectionBreaks, TimesOut, GivesUp
  <1>10. ASSUME NEW j \in Call, Unauthenticated(j) \/ Refuses(j)
         PROVE  FALSE
    BY <1>5, <1>10 DEF Unauthenticated, Refuses
  <1>11. ASSUME NEW t \in DOMAIN issued, Revoke(t)
         PROVE  FALSE
    BY <1>2, <1>11 DEF Revoke
  <1>. QED BY <1>6, <1>7, <1>8, <1>9, <1>10, <1>11 DEF Next

\* The stub answers an update the way Keycloak does (updateUser).
LEMMA StubUpdates ==
  ASSUME IInv, NEW i \in Call, Underway(i), ServesUpdate(i),
         reply'[i].status \in {200, 400, 404} \/ reply'[i].field # "none",
         call[i].request.attributes => call[i].profile = users[call[i].request.user]
  PROVE  StubOutcome(call[i].request) = [status |-> reply'[i].status, users |-> users']
  <1> DEFINE r == call[i].request
             u == r.user
             after == After(i)
             answers(status, x) == [status |-> status, users |-> [users EXCEPT ![u] = x]]
  <1>1. u \in User /\ r \in Request /\ r.op = "updateUser" /\ users \in [User -> Profile \cup {NoProfile}]
    <2>1. u \in User /\ r \in Request
      BY UpdatedProfile
    <2>. QED BY <2>1 DEF ServesUpdate, IInv, TypeOK
  <1> DEFINE status == UpdateStatus(u, after)
  <1>2. /\ \E field : Replies(i, status, field)
        /\ users' = IF status = 200 THEN [users EXCEPT ![u] = after] ELSE users
    BY DEF ServesUpdate
  <1>3. reply'[i].status = status
    BY <1>2 DEF Replies, IInv, TypeOK
  <1>4. [users EXCEPT ![u] = users[u]] = users
    BY <1>1
  <1>5. CASE users[u] = NoProfile
    <2>1. StubOutcome(r) = answers(404, users[u])
      BY <1>5 DEF StubOutcome
    <2>2. status = 404
      BY <1>5 DEF UpdateStatus
    <2>. QED BY <1>2, <1>3, <1>4, <2>1, <2>2
  <1>6. CASE users[u] # NoProfile
    <2> DEFINE patched == StubPatched(users[u], r.patch)
    <2>1. patched = after
      BY <1>1, <1>6, PatchedIsPut DEF IInv, Protocol, After
    <2>2. \A f \in Taken(u, patched) : r.patch[f] # Unset
      BY <1>1, <1>6, TakenIsGiven DEF IInv, Protocol
    <2>3. CASE patched["username"] = None
      <3>1. StubOutcome(r) = answers(400, users[u])
        BY <1>1, <1>6, <2>3 DEF StubOutcome
      <3>2. status = 400
        BY <1>6, <2>1, <2>3 DEF UpdateStatus
      <3>. QED BY <1>2, <1>3, <1>4, <3>1, <3>2
    <2>4. CASE patched["username"] # None /\ Taken(u, patched) # {}
      <3>1. PICK f \in Taken(u, patched) : r.patch[f] # Unset
        BY <2>2, <2>4
      <3>2. StubOutcome(r) = answers(409, users[u])
        BY <1>1, <1>6, <2>4, <3>1 DEF StubOutcome
      <3>3. status = 409
        BY <1>6, <2>1, <2>4 DEF UpdateStatus
      <3>. QED BY <1>2, <1>3, <1>4, <3>2, <3>3
    <2>5. CASE patched["username"] # None /\ Taken(u, patched) = {}
      <3>1. StubOutcome(r) = answers(200, patched)
        BY <1>1, <1>6, <2>5 DEF StubOutcome
      <3>2. status = 200
        BY <1>6, <2>1, <2>5 DEF UpdateStatus
      <3>. QED BY <1>2, <1>3, <2>1, <3>1, <3>2
    <2>. QED BY <2>3, <2>4, <2>5
  <1>. QED BY <1>5, <1>6

\* The stub answers the other operations the way Keycloak does.
LEMMA StubServesOther ==
  ASSUME IInv, NEW i \in Call, Underway(i), ServesOther(i)
  PROVE  StubOutcome(call[i].request) = [status |-> reply'[i].status, users |-> users']
  <1> DEFINE r == call[i].request
             u == r.user
             answers(status, x) == [status |-> status, users |-> [users EXCEPT ![u] = x]]
  <1>1. r.op # "updateUser" /\ users \in [User -> Profile \cup {NoProfile}]
    BY DEF ServesOther, IInv, TypeOK
  <1> DEFINE status == OtherStatus(r)
  <1>2. /\ Replies(i, status, "none")
        /\ users' = IF status = 200 /\ r.op = "deleteUser" THEN [users EXCEPT ![u] = NoProfile] ELSE users
    BY DEF ServesOther
  <1>3. reply'[i].status = status
    BY <1>2 DEF Replies, IInv, TypeOK
  <1>4. [users EXCEPT ![u] = users[u]] = users
    BY <1>1
  <1>5. CASE users[u] = NoProfile
    <2>1. StubOutcome(r) = answers(404, users[u])
      BY <1>5 DEF StubOutcome
    <2>2. status = 404
      BY <1>5 DEF OtherStatus
    <2>. QED BY <1>2, <1>3, <1>4, <2>1, <2>2
  <1>6. CASE users[u] # NoProfile /\ r.op = "executeActionsEmail" /\ users[u]["email"] = None
    <2>1. StubOutcome(r) = answers(400, users[u])
      BY <1>6 DEF StubOutcome
    <2>2. status = 400
      BY <1>6 DEF OtherStatus
    <2>. QED BY <1>2, <1>3, <1>4, <2>1, <2>2
  <1>7. CASE users[u] # NoProfile /\ r.op = "deleteUser"
    <2>1. StubOutcome(r) = answers(200, NoProfile)
      BY <1>7 DEF StubOutcome
    <2>2. status = 200
      BY <1>7 DEF OtherStatus
    <2>. QED BY <1>2, <1>3, <1>7, <2>1, <2>2
  <1>8. CASE /\ users[u] # NoProfile /\ r.op # "deleteUser"
             /\ ~(r.op = "executeActionsEmail" /\ users[u]["email"] = None)
    <2>1. StubOutcome(r) = answers(200, users[u])
      BY <1>1, <1>8 DEF StubOutcome
    <2>2. status = 200
      BY <1>8 DEF OtherStatus
    <2>. QED BY <1>2, <1>3, <1>4, <1>8, <2>1, <2>2
  <1>. QED BY <1>5, <1>6, <1>7, <1>8

\* The stub of the library stands for Keycloak: whenever Keycloak serves a call, the stub would
\* have given the same kind of answer and left the same users, every field and attribute of
\* them; for attributes, as long as the profile is still the one that the call read.
THEOREM StubIsFaithful == Spec => StubAgrees
  <1> DEFINE Agrees ==
        \A i \in Call :
          LET r == call[i].request IN
          /\ call[i].step = "main" /\ reply[i].status = 0
          /\ reply'[i].status \in {200, 400, 404} \/ reply'[i].field # "none"
          /\ r.attributes => call[i].profile = users[r.user]
          => StubOutcome(r) = [status |-> reply'[i].status, users |-> users']
  <1>1. IInv /\ Next => Agrees
    <2> SUFFICES ASSUME IInv, Next, NEW i \in Call, call[i].step = "main", reply[i].status = 0,
                        reply'[i].status \in {200, 400, 404} \/ reply'[i].field # "none",
                        call[i].request.attributes => call[i].profile = users[call[i].request.user]
                 PROVE  StubOutcome(call[i].request) = [status |-> reply'[i].status, users |-> users']
      OBVIOUS
    <2>1. Serves(i)
      BY DecidedByService
    <2>2. Underway(i) /\ (ServesUpdate(i) \/ ServesOther(i))
      BY <2>1 DEF Serves, ServesRead
    <2>. QED BY <2>2, StubUpdates, StubServesOther
  <1>2. IInv /\ [Next]_vars => [Agrees]_vars
    BY <1>1
  <1>. QED BY <1>2, Invariance, PTL DEF Spec, StubAgrees
=============================================================================
