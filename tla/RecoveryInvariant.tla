-------------------------- MODULE RecoveryInvariant --------------------------
(***************************************************************************)
(* The inductive invariant of Recovery, part by part: the statements of    *)
(* the engine and the lock they run under, what a permission stands for,   *)
(* what the child reported of its work, the two directions of the channel, *)
(* and the end of the two processes.                                       *)
(***************************************************************************)
EXTENDS Recovery, Functions

Alive == child \in {"booting", "running"}
Gone == \A n \in Name : catalog[n] # Acquired

Says(ch, t) == \E m \in Range(ch) : m.type = t
AtMostOne(ch, t) == \A i, j \in 1..Len(ch) : ch[i].type = t /\ ch[j].type = t => i = j

-----------------------------------------------------------------------------
(* The server *)

Asked(kind) ==
  [kind |-> kind, name |-> Target, oid |-> IF kind = "inspect" THEN Acquired ELSE NoOid]
AskedAt(p) == Asked(IF p \in {"connect", "lock", "drop"} THEN p ELSE "inspect")

\* From the granted lock to the end of the backend the lock is held, so what an
\* inspection shows of the target stays true, and the DROP finds it
\* (acquireLock, inspectTarget, dispatchDrop).
Fence ==
  /\ stmt[Admin] \in {NoStmt} \cup {Asked(kind) : kind \in {"connect", "lock", "inspect", "drop"}}
  /\ cpc \in QueryPc \cup {"permit"} => stmt[Admin] = AskedAt(cpc)
  /\ backend[Admin] = "open" =>
       /\ stmt[Admin].kind = "lock" /\ answer[Admin] = "ok" => lock[Target] = Admin
       /\ stmt[Admin].kind \in {"inspect", "drop"} => lock[Target] = Admin
       /\ stmt[Admin].kind = "inspect" /\ answer[Admin] = "ok" /\ ShowsTarget
            => catalog[Target] = Acquired
       /\ stmt[Admin].kind = "drop" /\ answer[Admin] = "pending" => catalog[Target] = Acquired
  \* an OID is given once: absence of the target is for ever
  /\ creator[Acquired] # Nobody
  /\ stmt[Admin].kind = "inspect" /\ answer[Admin] = "ok" /\ rows[Admin] = {} => Gone

\* No DROP without a permission of the parent, and no report of one before it
\* is recorded there (requestDrop, permitDrop).
Permission ==
  /\ permitted => requested
  /\ Says(toChild, "permit-drop") => permitted
  /\ cpc \in {"confirm", "drop", "verify"} => permitted
  /\ stmt[Admin].kind = "drop" \/ dropped => permitted
  /\ cpc = "verify" \/ (stmt[Admin].kind = "drop" /\ answer[Admin] = "ok") => dropped
  /\ permitted => outcome \in {"unknown", "removed"}
  /\ outcome = "unknown" => permitted

-----------------------------------------------------------------------------
(* The reports *)

Told == {m \in Range(toParent) : m.type \in {"closing", "result"}}
Reports == {m.obs : m \in Told} \cup childClosing \cup {o \in {observation} : cpc \in ClosingPc}

Successful(o) == o.outcome \in {"removed", "already-absent"}

\* What a report says is true when it is made and stays so.
Truthful(o) ==
  /\ o.outcome = "unknown" => permitted /\ o.primary # "none"
  /\ o.outcome = "removed" => dropped
  /\ o.outcome = "already-absent" => ~requested /\ ~Says(toParent, "request-drop")
  /\ Successful(o) =>
       o.primary = "none" /\ Gone /\ session # "unused" /\ answer[Admin] # "pending"

\* The child reports the end of its work once; the result only adds how the
\* close went (finishWork, reportResult).
Reporting ==
  /\ \A o, q \in Reports : q = [o EXCEPT !.closeFailed = q.closeFailed]
  /\ Alive /\ cpc \notin ClosingPc => Reports = {}
  /\ \A o \in Reports : Truthful(o)
  /\ outcome \in {"removed", "already-absent"} => \E o \in childClosing : o.outcome = outcome
  /\ \A o \in childClosing : Believable(o)
  /\ Alive /\ (terminal \/ Says(toParent, "result")) => cpc \in {"reported", "finished"}

-----------------------------------------------------------------------------
(* The channel *)

\* How far the conversation is: where the parent is, after a message, and where
\* the child is.  "connect" is the beginning.
ParentPosition ==
  IF terminal THEN "result"
  ELSE IF childClosing # {} THEN "closing"
  ELSE IF requested /\ phase = "drop" THEN "request-drop"
  ELSE IF phase = "connect" /\ ready THEN "ready"
  ELSE phase
PositionOf(m) == IF m.type = "phase" THEN m.phase ELSE m.type
ChildPosition ==
  IF child = "booting" THEN "connect"
  ELSE IF cpc \in {"permit", "confirm", "drop"} THEN "request-drop"
  ELSE IF cpc = "recheck" THEN "inspect"
  ELSE IF cpc \in {"lock", "inspect", "verify"} THEN cpc
  ELSE IF cpc = "allocation" THEN "closing"
  ELSE IF cpc \in {"reported", "finished"} THEN "result"
  ELSE "ready"

PhaseIn(p) == IF p \in {"connect", "ready"} THEN "connect" ELSE IF p = "request-drop" THEN "drop" ELSE p
Course == {<<"ready", "lock">>, <<"lock", "inspect">>, <<"inspect", "drop">>, <<"request-drop", "verify">>}

\* m may be the first thing that is said after p.
MayFollow(p, m) ==
  \/ m.type = "ready" /\ p = "connect"
  \/ m.type = "phase" /\ <<p, m.phase>> \in Course
  \/ m.type = "request-drop" /\ p = "drop"
  \/ /\ m.type = "closing" /\ p \notin {"closing", "result"}
     /\ m.obs.primary # "none" => m.obs.at = PhaseIn(p)
     /\ m.obs.outcome = "removed" => p = "verify"
     /\ m.obs.outcome = "already-absent" => p = "inspect"
  \/ m.type = "result" /\ p = "closing"

\* The messages of ch continue what is at p, each the one before it.
Continues(p, ch) ==
  \A i \in 1..Len(ch) : MayFollow(IF i = 1 THEN p ELSE PositionOf(ch[i - 1]), ch[i])
EndOf(p, ch) == IF ch = <<>> THEN p ELSE PositionOf(ch[Len(ch)])

\* What the child said and the parent has not read continues what it has read,
\* and ends where the child is; a parent that is closing may have read "ready"
\* without taking note (onMessage of the parent, send of the child).
Conversation ==
  /\ Continues(ParentPosition, toParent)
  /\ connected /\ Alive =>
       \/ EndOf(ParentPosition, toParent) = ChildPosition
       \/ toParent = <<>> /\ ParentPosition = "connect" /\ closing /\ ChildPosition = "ready"
  /\ child = "booting" => cpc = "idle" /\ toParent = <<>>
  /\ connected => Alive /\ call = "pending"

\* How the parent's own flags depend on each other.
Order ==
  /\ phase # "connect" => ready
  /\ requested => phase \in {"drop", "verify"}
  /\ phase = "verify" => permitted
  /\ terminal => childClosing # {}
  /\ childClosing # {} => closing
  /\ Alive /\ cpc # "idle" => ready \/ closing
  /\ Alive /\ cpc \in EnginePc \cup {"failed"} => ready
  /\ \A m \in Range(toParent) :
       /\ m.type \in {"phase", "request-drop"} => ready
       /\ m.type = "phase" /\ m.phase = "verify" => permitted
       /\ m.type = "ready" => ~ready
  /\ Says(toParent, "request-drop") =>
       ~requested /\ AtMostOne(toParent, "request-drop") /\ (Alive => cpc = "permit" \/ stopReason # "none")
  /\ Alive /\ cpc \in {"idle", "create", "connect", "lock", "inspect", "recheck"}
       => ~requested /\ ~Says(toParent, "request-drop")

\* What the parent said and the child has not read: a start or a permission is
\* alone in the pipe or before everything else, and the child still waits for
\* it (start, permit-drop, close and finish in the child's onMessage).
Inbox ==
  /\ \A i \in 1..Len(toChild) : toChild[i].type \in {"start", "permit-drop"} => i = 1 /\ ready
  /\ ~closing => \A m \in Range(toChild) : m.type \in {"start", "permit-drop"}
  /\ Says(toChild, "start") =>
       child = "running" /\ cpc = "idle" /\ ~requested /\ ~Says(toParent, "request-drop")
  /\ Says(toChild, "permit-drop") /\ Alive => cpc = "permit" \/ stopReason # "none"
  /\ Says(toChild, "close") \/ closeReceived => childClosing # {}
  /\ Says(toChild, "close") => ~closeReceived /\ AtMostOne(toChild, "close")
  /\ Says(toChild, "finish") => terminal /\ AtMostOne(toChild, "finish") /\ (Alive => cpc = "reported")
  /\ cpc = "finished" \/ child \in {"killed", "exited"} => ~connected /\ toChild = <<>>

-----------------------------------------------------------------------------
(* The end *)

\* How the parent learns that the child is gone, and what it must have recorded
\* if the end was not the regular one (onExit, onDisconnect, conclude).
Ending ==
  /\ exited => child \in {"exited", "killed"}
  /\ exited /\ NoFailure => child = "exited"
  /\ child \in {"failed", "unspawned"} => primary # "none"
  /\ disconnected => ~connected /\ toParent = <<>>
  /\ call = "settled" => Disposed
  /\ child = "exited" => session \in {"unused", "disposed"}
  /\ stopReason = "CANCELLED" => primary # "none"
  /\ \A m \in Range(toChild) : m.type = "cancel" /\ m.reason = "CANCELLED" => primary # "none"

Agreement == Reporting /\ Conversation /\ Order /\ Inbox
IInv == TypeOK /\ Fence /\ Permission /\ Agreement /\ Ending
=============================================================================
