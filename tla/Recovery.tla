------------------------------ MODULE Recovery ------------------------------
(***************************************************************************)
(* Recovery of one retained test database: superviseRecovery, the parent   *)
(* (src/database/internal/test-database-recovery-parent.ts), its child     *)
(* process (-child.ts) that runs the engine (-engine.ts), the channel      *)
(* between them, and the PostgreSQL server of module Postgres.             *)
(*                                                                         *)
(* Each action is one event handler of the parent or of the child, or what *)
(* the engine does between two awaits.  Deadlines are booleans that become *)
(* true at some time: the code compares clocks of two processes, of which  *)
(* nothing is assumed, and a timer fires at any time after its deadline.   *)
(***************************************************************************)
EXTENDS Postgres, Naturals, Sequences

CONSTANTS
  Recoverer,    \* the child, as an actor of the server
  Slot,         \* the name of its one administration session
  Target,       \* name of the retained database
  Acquired,     \* its OID, as the caller saved it
  MaxPending,   \* sends of the parent whose callbacks a full pipe delays
  MaxFaults,    \* failed sends, lost sessions, failed closes, crashes
  MaxOutside    \* what other participants and outsiders do

ASSUME RecoveryAssumption ==
  Recoverer \in Actor /\ Slot \in SessionId /\ Target \in Name /\ Acquired \in Oid
ASSUME BudgetAssumption == MaxPending \in Nat /\ MaxFaults \in Nat /\ MaxOutside \in Nat

VARIABLES
  \* the parent
  call, phase, outcome, primary, closeFailed, ready, requested, permitted, closing, terminal,
  childClosing, pendingSends, exited, disconnected, late, closeTimer,
  \* the channel
  toChild, toParent, connected,
  \* the child
  child, cpc, stopReason, allocated, closeReceived, childLate, condemned, observation, session,
  \* history and budgets
  dropped,      \* the server executed a DROP of this recovery
  faults, outside

protocolVars == <<phase, ready, requested, permitted, terminal, childClosing>>
failureVars == <<primary, closeFailed>>
disposalVars == <<call, exited, disconnected>>
closeVars == <<closing, closeTimer>>
parentVars == <<protocolVars, outcome, failureVars, disposalVars, closeVars, pendingSends, late>>
engineVars == <<cpc, observation>>
stopVars == <<stopReason, condemned, session>>
childVars == <<child, engineVars, stopVars, allocated, closeReceived, childLate>>
envVars == <<dropped, faults, outside>>
vars == <<pgVars, parentVars, toChild, toParent, connected, childVars, envVars>>

Admin == <<Recoverer, Slot>>

Reason == {"CANCELLED", "DEADLINE_EXCEEDED", "DATABASE_FAILURE"}
Refusal == {"IDENTITY_MISMATCH", "OWNERSHIP_MISMATCH", "BUSY"}
Outcome == {"not-attempted", "unknown", "removed", "already-absent"}
Phase == {"connect", "lock", "inspect", "drop", "verify"}

Observation == [outcome : Outcome, primary : Reason \cup Refusal \cup {"none"}, at : Phase,
                closeFailed : BOOLEAN]
NotAttempted == [outcome |-> "not-attempted", primary |-> "none", at |-> "connect",
                 closeFailed |-> FALSE]

ParentMessage == [type : {"start", "permit-drop", "close", "finish"}]
                 \cup [type : {"cancel"}, reason : Reason]
ChildMessage == [type : {"ready", "request-drop"}] \cup [type : {"phase"}, phase : Phase]
                \cup [type : {"closing", "result"}, obs : Observation]

QueryPc == {"connect", "lock", "inspect", "recheck", "confirm", "drop", "verify"}
EnginePc == QueryPc \cup {"create", "permit"}
ClosingPc == {"allocation", "reported", "finished"}

TypeOK ==
  /\ PgTypeOK
  /\ call \in {"pending", "settled", "crashed"}
  /\ phase \in Phase /\ outcome \in Outcome
  /\ primary \in Reason \cup Refusal \cup {"none"} /\ closeFailed \in BOOLEAN
  /\ {ready, requested, permitted, closing, terminal} \subseteq BOOLEAN
  /\ childClosing \in SUBSET Observation
  /\ pendingSends \in Nat
  /\ {exited, disconnected, late} \subseteq BOOLEAN
  /\ closeTimer \in {"off", "graceful", "final", "done"}
  /\ toChild \in Seq(ParentMessage) /\ toParent \in Seq(ChildMessage) /\ connected \in BOOLEAN
  /\ child \in {"booting", "running", "exited", "killed", "failed", "unspawned"}
  /\ cpc \in EnginePc \cup ClosingPc \cup {"idle", "failed"}
  /\ stopReason \in Reason \cup {"none"}
  /\ {allocated, closeReceived, childLate, condemned} \subseteq BOOLEAN
  /\ observation \in Observation
  /\ session \in {"unused", "open", "broken", "disposed", "stuck"}
  /\ dropped \in BOOLEAN /\ faults \in Nat /\ outside \in Nat

\* The name stands for the retained database, for nothing, or for another one,
\* which may also be the retained one under a new name; someone may still be connected.
Init ==
  /\ catalog \in [Name -> Oid \cup {NoOid}]
  /\ \A n, m \in Name : n # m => catalog[n] = NoOid \/ catalog[n] # catalog[m]
  /\ creator = [o \in Oid |-> IF o = Acquired \/ \E n \in Name : catalog[n] = o
                              THEN Outsider ELSE Nobody]
  /\ lock = [n \in Name |-> NoSession]
  /\ backend = [s \in Session |-> "absent"]
  /\ stmt = [s \in Session |-> NoStmt]
  /\ answer = [s \in Session |-> "none"]
  /\ rows = [s \in Session |-> {}]
  /\ \/ conn = [k \in Client |-> NoOid]
     \/ conn = [k \in Client |-> catalog[Target]]
  /\ call = "pending" /\ phase = "connect" /\ outcome = "not-attempted"
  /\ primary = "none" /\ closeFailed = FALSE
  /\ ready = FALSE /\ requested = FALSE /\ permitted = FALSE /\ terminal = FALSE
  /\ closing = FALSE /\ closeTimer = "off" /\ childClosing = {}
  /\ pendingSends = 0 /\ exited = FALSE /\ disconnected = FALSE /\ late = FALSE
  /\ toChild = <<>> /\ toParent = <<>> /\ connected = TRUE
  /\ child = "booting" /\ cpc = "idle" /\ stopReason = "none"
  /\ allocated = FALSE /\ closeReceived = FALSE /\ childLate = FALSE /\ condemned = FALSE
  /\ observation = NotAttempted /\ session = "unused"
  /\ dropped = FALSE /\ faults = 0 /\ outside = 0

Fault == faults < MaxFaults /\ faults' = faults + 1
NoFault == UNCHANGED faults

-----------------------------------------------------------------------------
(* The parent: messages *)

NoFailure == primary = "none" /\ ~closeFailed
\* The failures of the parent, of which the first one besides CLOSE_FAILED is kept.
AddFailure(code) == primary' = IF primary = "none" THEN code ELSE primary

\* One more send after n.  Its callback runs at once, unless the pipe is full,
\* or broken; MaxPending bounds the callbacks that a full pipe delays.
Pending(n) ==
  pendingSends' \in IF ~connected THEN {n + 1} ELSE IF n < MaxPending THEN {n, n + 1} ELSE {n}

Deliver(m) == toChild' = IF connected THEN Append(toChild, m) ELSE toChild

\* stop: records the reason, starts the close and sends one cancellation, and
\* another one when this is the first failure.  n sends are pending before it.
Stop(code, n) ==
  LET cancels == ~disconnected /\ (NoFailure \/ ~closing) IN
  /\ AddFailure(code) /\ UNCHANGED closeFailed
  /\ closing' = TRUE
  /\ closeTimer' = IF closing THEN closeTimer ELSE "graceful"
  /\ IF cancels THEN Deliver([type |-> "cancel", reason |-> code]) ELSE UNCHANGED toChild
  /\ IF cancels THEN Pending(n) ELSE pendingSends' = n

BeginClose == closing' = TRUE /\ closeTimer' = IF closing THEN closeTimer ELSE "graceful"

SendToChild(m) ==
  IF disconnected THEN UNCHANGED <<toChild, pendingSends>>
  ELSE Deliver(m) /\ Pending(pendingSends)

NextPhase(p) ==
  CASE p = "connect" -> "lock" [] p = "lock" -> "inspect"
    [] p = "inspect" -> "drop" [] p = "drop" -> "verify" [] p = "verify" -> "none"

Believable(o) ==
  /\ o.primary # "none" => o.at = phase
  /\ o.outcome \in {"removed", "already-absent"} => o.primary = "none"
  /\ o.outcome = "unknown" => permitted /\ o.primary # "none"
  /\ o.outcome = "removed" => permitted /\ phase = "verify"
  /\ o.outcome = "already-absent" => ~permitted /\ phase = "inspect"

\* What the parent takes from a child that follows the protocol.
Acceptable(m) ==
  /\ m.type = "ready" => ~ready \/ closing
  /\ m.type = "phase" => ready /\ m.phase = NextPhase(phase) /\ (m.phase = "verify" => permitted)
  /\ m.type = "request-drop" => ready /\ ~requested /\ ~terminal /\ phase = "drop"
  /\ m.type = "closing" => childClosing = {} /\ ~terminal /\ Believable(m.obs)
  /\ m.type = "result" =>
       /\ ~terminal /\ Believable(m.obs)
       /\ \E o \in childClosing : m.obs = [o EXCEPT !.closeFailed = m.obs.closeFailed]

OnReady ==
  /\ IF closing
     THEN UNCHANGED <<ready, failureVars, closeVars, toChild, pendingSends>>
     ELSE /\ ready' = TRUE
          /\ IF late THEN Stop("DEADLINE_EXCEEDED", pendingSends)
             ELSE SendToChild([type |-> "start"]) /\ UNCHANGED <<failureVars, closeVars>>
  /\ UNCHANGED <<phase, requested, permitted, terminal, childClosing, outcome>>

OnPhase(m) ==
  /\ phase' = m.phase
  /\ UNCHANGED <<ready, requested, permitted, terminal, childClosing, outcome, failureVars,
                 closeVars, toChild, pendingSends>>

\* Mutant: the outcome becomes unknown only with the next report.
PermitUnrecorded ==
  /\ requested' = TRUE
  /\ IF closing \/ late
     THEN /\ UNCHANGED permitted
          /\ IF closing THEN UNCHANGED <<failureVars, closeVars, toChild, pendingSends>>
             ELSE Stop("DEADLINE_EXCEEDED", pendingSends)
     ELSE /\ permitted' = TRUE
          /\ SendToChild([type |-> "permit-drop"])
          /\ UNCHANGED <<failureVars, closeVars>>
  /\ UNCHANGED <<phase, ready, terminal, childClosing, outcome>>
\* The outcome is unknown from before the permit is sent.
OnRequestDrop ==
  /\ requested' = TRUE
  /\ IF closing \/ late
     THEN /\ UNCHANGED <<permitted, outcome>>
          /\ IF closing THEN UNCHANGED <<failureVars, closeVars, toChild, pendingSends>>
             ELSE Stop("DEADLINE_EXCEEDED", pendingSends)
     ELSE /\ permitted' = TRUE /\ outcome' = "unknown"
          /\ SendToChild([type |-> "permit-drop"])
          /\ UNCHANGED <<failureVars, closeVars>>
  /\ UNCHANGED <<phase, ready, terminal, childClosing>>

Accept(o) ==
  /\ outcome' = IF o.outcome \in {"removed", "already-absent"} THEN o.outcome ELSE outcome
  /\ AddFailure(o.primary)
  /\ closeFailed' = (closeFailed \/ o.closeFailed)

OnClosing(o) ==
  /\ Accept(o) /\ childClosing' = {o}
  /\ BeginClose /\ SendToChild([type |-> "close"])
  /\ UNCHANGED <<phase, ready, requested, permitted, terminal>>

OnResult(o) ==
  /\ Accept(o) /\ terminal' = TRUE
  /\ BeginClose /\ SendToChild([type |-> "finish"])
  /\ UNCHANGED <<phase, ready, requested, permitted, childClosing>>

OnMessage ==
  /\ call = "pending" /\ toParent # <<>>
  /\ toParent' = Tail(toParent)
  /\ LET m == Head(toParent) IN
     IF ~Acceptable(m)
     THEN Stop("DATABASE_FAILURE", pendingSends) /\ UNCHANGED <<protocolVars, outcome>>
     ELSE \/ m.type = "ready" /\ OnReady
          \/ m.type = "phase" /\ OnPhase(m)
          \/ m.type = "request-drop" /\ OnRequestDrop
          \/ m.type = "closing" /\ OnClosing(m.obs)
          \/ m.type = "result" /\ OnResult(m.obs)
  /\ UNCHANGED <<pgVars, disposalVars, late, connected, childVars, envVars>>

-----------------------------------------------------------------------------
(* The parent: signal, timers, sends and the end of the child *)

SpawnFailed == child \in {"failed", "unspawned"}

\* The child is gone and nothing of the parent is on its way.
Disposed == ((exited /\ disconnected) \/ child = "unspawned") /\ pendingSends = 0
Conclude == call' = IF Disposed' THEN "settled" ELSE call

\* What stop changes when it is all that a handler does.
StopOnly(code) ==
  /\ Stop(code, pendingSends)
  /\ UNCHANGED <<pgVars, protocolVars, outcome, disposalVars, toParent, connected>>

Abort ==
  /\ call = "pending" /\ (NoFailure \/ ~closing)
  /\ StopOnly("CANCELLED")
  /\ UNCHANGED <<late, childVars, envVars>>

\* The deadline passes; its timer may be late.  It is not looked at during the close.
DeadlinePasses ==
  /\ call = "pending" /\ ~late /\ ~closing
  /\ late' = TRUE
  /\ UNCHANGED <<pgVars, protocolVars, outcome, failureVars, disposalVars, closeVars, pendingSends,
                 toChild, toParent, connected, childVars, envVars>>

WorkTimer ==
  /\ call = "pending" /\ late /\ ~closing
  /\ StopOnly("DEADLINE_EXCEEDED")
  /\ UNCHANGED <<late, childVars, envVars>>

\* The callback of child.send.  It fails when the pipe is broken, and may fail anyway.
SendSettles ==
  /\ call = "pending" /\ pendingSends > 0
  /\ \/ /\ pendingSends' = pendingSends - 1
        /\ NoFault
        /\ UNCHANGED <<failureVars, closeVars, toChild>>
     \/ /\ Stop("DATABASE_FAILURE", pendingSends - 1)
        /\ IF connected THEN Fault ELSE NoFault
  /\ UNCHANGED <<pgVars, protocolVars, outcome, exited, disconnected, late, toParent, connected,
                 childVars, dropped, outside>>
  /\ Conclude

\* Mutant: the missed budget is recorded and the child is left to itself.
RecordOnly ==
  IF exited \/ SpawnFailed THEN UNCHANGED <<closeFailed, condemned>>
  ELSE closeFailed' = TRUE /\ UNCHANGED condemned
\* SIGKILL, unless the parent knows that there is nothing to kill; the child dies later.
ForceChild ==
  IF exited \/ SpawnFailed THEN UNCHANGED <<closeFailed, condemned>>
  ELSE closeFailed' = TRUE /\ condemned' = TRUE

ForceTimer ==
  /\ call = "pending" /\ closeTimer = "graceful"
  /\ closeTimer' = "final"
  /\ ForceChild
  /\ UNCHANGED <<pgVars, protocolVars, outcome, primary, disposalVars, closing, pendingSends, late,
                 toChild, toParent, connected, child, engineVars, stopReason, session, allocated,
                 closeReceived, childLate, envVars>>

FinalTimer ==
  /\ call = "pending" /\ closeTimer = "final"
  /\ closeTimer' = "done"
  /\ closeFailed' = TRUE
  /\ condemned' = (condemned \/ ~(exited \/ SpawnFailed))
  /\ UNCHANGED <<pgVars, protocolVars, outcome, primary, disposalVars, closing, pendingSends, late,
                 toChild, toParent, connected, child, engineVars, stopReason, session, allocated,
                 closeReceived, childLate, envVars>>

\* Mutant: the result is believed, however the process ended.
OnExitAnyhow ==
  /\ call = "pending" /\ child \in {"exited", "killed"} /\ ~exited
  /\ exited' = TRUE
  /\ IF terminal
     THEN UNCHANGED failureVars
     ELSE /\ IF NoFailure /\ childClosing = {} THEN AddFailure("DATABASE_FAILURE")
             ELSE UNCHANGED primary
          /\ closeFailed' = (closeFailed \/ closing)
  /\ BeginClose
  /\ UNCHANGED <<pgVars, protocolVars, outcome, disconnected, pendingSends, late, toChild, toParent,
                 connected, childVars, envVars>>
  /\ Conclude
\* The exit event may come before the last messages and the disconnection.
OnExit ==
  /\ call = "pending" /\ child \in {"exited", "killed"} /\ ~exited
  /\ exited' = TRUE
  /\ IF terminal /\ child = "exited"
     THEN UNCHANGED failureVars
     ELSE /\ IF NoFailure /\ childClosing = {} THEN AddFailure("DATABASE_FAILURE")
             ELSE UNCHANGED primary
          /\ closeFailed' = (closeFailed \/ closing)
  /\ BeginClose
  /\ UNCHANGED <<pgVars, protocolVars, outcome, disconnected, pendingSends, late, toChild, toParent,
                 connected, childVars, envVars>>
  /\ Conclude

\* The end of the channel is read after everything that was written to it.
OnDisconnect ==
  /\ call = "pending" /\ ~connected /\ ~disconnected /\ toParent = <<>>
  /\ disconnected' = TRUE
  /\ IF terminal \/ closing
     THEN closeFailed' = (closeFailed \/ ~terminal) /\ UNCHANGED <<primary, closeVars>>
     ELSE AddFailure("DATABASE_FAILURE") /\ BeginClose /\ UNCHANGED closeFailed
  /\ UNCHANGED <<pgVars, protocolVars, outcome, exited, pendingSends, late, toChild, toParent,
                 connected, childVars, envVars>>
  /\ Conclude

\* spawn reports an error: no process, and no channel.
SpawnFails ==
  /\ call = "pending" /\ child = "booting" /\ ~condemned /\ Fault
  /\ child' = "failed" /\ connected' = FALSE
  /\ Stop("DATABASE_FAILURE", pendingSends)
  /\ UNCHANGED <<pgVars, protocolVars, outcome, disposalVars, late, toParent, engineVars, stopVars,
                 allocated, closeReceived, childLate, dropped, outside>>

OnClose ==
  /\ call = "pending" /\ child = "failed"
  /\ child' = "unspawned"
  /\ UNCHANGED <<pgVars, protocolVars, outcome, failureVars, exited, disconnected, closeVars,
                 pendingSends, late, toChild, toParent, connected, engineVars, stopVars, allocated,
                 closeReceived, childLate, envVars>>
  /\ Conclude

ParentCrash ==
  /\ call = "pending" /\ Fault
  /\ call' = "crashed" /\ connected' = FALSE
  /\ UNCHANGED <<pgVars, protocolVars, outcome, failureVars, exited, disconnected, closeVars,
                 pendingSends, late, toChild, toParent, childVars, dropped, outside>>

-----------------------------------------------------------------------------
(* The child: its handlers *)

ChildSays(msgs) == toParent' = IF connected THEN toParent \o msgs ELSE toParent

\* stop: the session is interrupted, and a permission that is awaited is refused.
ChildStop(reason) ==
  /\ stopReason' = IF stopReason = "none" THEN reason ELSE stopReason
  /\ session' = IF session = "open" THEN "broken" ELSE session

\* Mutant: the fence is left to finish.
StopUnfenced == ChildStop("DATABASE_FAILURE") /\ UNCHANGED condemned
\* emergency: stop, and arm the fence that ends the process.
Emergency == ChildStop("DATABASE_FAILURE") /\ condemned' = TRUE

ChildBoots ==
  /\ child = "booting"
  /\ child' = "running"
  /\ ChildSays(<<[type |-> "ready"]>>)
  /\ IF connected THEN UNCHANGED stopVars ELSE Emergency
  /\ UNCHANGED <<pgVars, parentVars, toChild, connected, engineVars, allocated, closeReceived,
                 childLate, envVars>>

\* finishWork: tells the parent how the work ended and waits for the close budget.
FinishWork(o) ==
  /\ observation' = o
  /\ cpc' = "allocation"
  /\ ChildSays(<<[type |-> "closing", obs |-> o]>>)

OnStart ==
  /\ IF cpc = "idle" THEN cpc' = "create" /\ UNCHANGED stopVars ELSE Emergency /\ UNCHANGED cpc
  /\ UNCHANGED <<pgVars, toParent, connected, observation, allocated, closeReceived>>

\* A permission counts once, when asked for, and not after the end of the work.
OnPermit ==
  /\ IF cpc = "permit" /\ stopReason = "none" /\ ~childLate
     THEN /\ Send(Admin, "inspect", Target, Acquired)
          /\ cpc' = "confirm"
          /\ UNCHANGED stopVars
     ELSE /\ IF stopReason = "none" THEN Emergency ELSE UNCHANGED stopVars
          /\ UNCHANGED <<stmtVars, cpc>>
  /\ UNCHANGED <<serverVars, conn, toParent, connected, observation, allocated, closeReceived>>

\* Mutant: every cancellation finishes the work, and not only before it started.
CancelFinishes(reason) ==
  /\ ChildStop(reason)
  /\ allocated' = TRUE
  /\ FinishWork(NotAttempted)
  /\ UNCHANGED <<pgVars, connected, condemned, closeReceived>>
OnCancel(reason) ==
  /\ ChildStop(reason)
  /\ allocated' = TRUE
  /\ IF cpc = "idle" THEN FinishWork(NotAttempted) ELSE UNCHANGED <<engineVars, toParent>>
  /\ UNCHANGED <<pgVars, connected, condemned, closeReceived>>

OnCloseMessage ==
  /\ IF cpc \in ClosingPc /\ ~closeReceived
     THEN closeReceived' = TRUE /\ allocated' = TRUE /\ UNCHANGED stopVars
     ELSE Emergency /\ UNCHANGED <<closeReceived, allocated>>
  /\ UNCHANGED <<pgVars, toParent, connected, engineVars>>

\* The result was written before: disconnect, with the fence armed.
OnFinish ==
  /\ IF cpc = "reported"
     THEN /\ cpc' = "finished" /\ connected' = FALSE /\ condemned' = TRUE
          /\ UNCHANGED <<stopReason, session>>
     ELSE Emergency /\ UNCHANGED <<cpc, connected>>
  /\ UNCHANGED <<pgVars, toParent, observation, allocated, closeReceived>>

ChildReads ==
  /\ child = "running" /\ toChild # <<>>
  /\ toChild' = IF Head(toChild).type = "finish" THEN <<>> ELSE Tail(toChild)
  /\ LET m == Head(toChild) IN
     \/ m.type = "start" /\ OnStart
     \/ m.type = "permit-drop" /\ OnPermit
     \/ m.type = "cancel" /\ OnCancel(m.reason)
     \/ m.type = "close" /\ OnCloseMessage
     \/ m.type = "finish" /\ OnFinish
  /\ UNCHANGED <<parentVars, child, childLate, envVars>>

ChildDisconnects ==
  /\ child = "running" /\ ~connected /\ toChild = <<>> /\ (stopReason = "none" \/ ~condemned)
  /\ Emergency
  /\ UNCHANGED <<pgVars, parentVars, toChild, toParent, connected, child, engineVars, allocated,
                 closeReceived, childLate, envVars>>

ChildDeadlinePasses ==
  /\ child = "running" /\ cpc \in EnginePc /\ ~childLate /\ stopReason = "none"
  /\ childLate' = TRUE
  /\ UNCHANGED <<pgVars, parentVars, toChild, toParent, connected, child, engineVars, stopVars,
                 allocated, closeReceived, envVars>>

ChildWorkTimer ==
  /\ child = "running" /\ cpc \in EnginePc /\ childLate /\ stopReason = "none"
  /\ ChildStop("DEADLINE_EXCEEDED")
  /\ UNCHANGED <<pgVars, parentVars, toChild, toParent, connected, child, engineVars, condemned,
                 allocated, closeReceived, childLate, envVars>>

\* SIGKILL by the parent or by the fence.  What was written and not yet read may be lost.
ChildKilled ==
  /\ child \in {"booting", "running"}
  /\ IF condemned THEN NoFault ELSE Fault
  /\ child' = "killed" /\ connected' = FALSE /\ toChild' = <<>>
  /\ \E n \in 0..Len(toParent) : toParent' = SubSeq(toParent, 1, n)
  /\ session' = IF session = "open" THEN "broken" ELSE session
  /\ cpc' = "idle" /\ observation' = NotAttempted /\ stopReason' = "none"     \* its memory is gone
  /\ allocated' = FALSE /\ closeReceived' = FALSE /\ childLate' = FALSE
  /\ UNCHANGED <<pgVars, parentVars, condemned, dropped, outside>>

\* Nothing is left to wait for.
ChildExits ==
  /\ child = "running" /\ cpc = "finished" /\ session \in {"unused", "disposed"}
  /\ child' = "exited"
  /\ UNCHANGED <<pgVars, parentVars, toChild, toParent, connected, engineVars, stopVars, allocated,
                 closeReceived, childLate, envVars>>

-----------------------------------------------------------------------------
(* The child: the engine, executeRecovery *)

PhaseAt == CASE cpc \in {"lock"} -> "lock" [] cpc \in {"inspect", "recheck"} -> "inspect"
             [] cpc \in {"permit", "confirm", "drop"} -> "drop" [] cpc = "verify" -> "verify"
             [] OTHER -> "connect"

\* The frame of a step of the engine; the rest of its variables it sets itself.
EngineFrame ==
  UNCHANGED <<serverVars, conn, parentVars, toChild, connected, child, stopReason, condemned,
              allocated, closeReceived, childLate, dropped, outside>>

\* Mutant: success is reported for the phase of the close.
EndsAtClose(o) ==
  FinishWork([outcome |-> o, primary |-> "none", at |-> "close", closeFailed |-> FALSE])
Ends(o) ==
  FinishWork([outcome |-> o, primary |-> "none", at |-> PhaseAt, closeFailed |-> FALSE])
\* The outcome is unknown from before the DROP is dispatched.
Fails(code) ==
  FinishWork([outcome |-> IF cpc \in {"drop", "verify"} THEN "unknown" ELSE "not-attempted",
              primary |-> IF stopReason = "none" THEN code ELSE stopReason,
              at |-> PhaseAt, closeFailed |-> FALSE])
Refuses(code) == Fails(code) /\ UNCHANGED <<stmtVars, session>>

\* The next statement, with the messages of the phases on the way to it.
Asks(p, kind, msgs) ==
  /\ Send(Admin, kind, Target, IF kind = "inspect" THEN Acquired ELSE NoOid)
  /\ cpc' = p
  /\ ChildSays(msgs)
  /\ UNCHANGED <<observation, session>>
PhaseMessage(p) == [type |-> "phase", phase |-> p]

\* The engine goes on: not stopped, in time, and on a healthy session.
Proceeds(p) == child = "running" /\ cpc = p /\ stopReason = "none" /\ ~childLate
Replied(p, a) == Proceeds(p) /\ session = "open" /\ answer[Admin] = a

\* Loading the engine fails: there is no one to report it but the end of the process.
ImportFails ==
  /\ Proceeds("create") /\ Fault
  /\ Emergency
  /\ cpc' = "failed"
  /\ UNCHANGED <<pgVars, parentVars, toChild, toParent, connected, child, observation, allocated,
                 closeReceived, childLate, dropped, outside>>

SessionCreated ==
  /\ Proceeds("create")
  /\ session' = "open"
  /\ Send(Admin, "connect", Target, NoOid)
  /\ cpc' = "connect"
  /\ UNCHANGED <<toParent, observation, faults>>
  /\ EngineFrame

\* The connection, its timeouts and the identity of the base session are one exchange.
IdentityRead ==
  /\ Replied("connect", "ok")
  /\ \/ Asks("lock", "lock", <<PhaseMessage("lock")>>) /\ NoFault
     \/ Refuses("IDENTITY_MISMATCH") /\ Fault
  /\ EngineFrame

LockGranted ==
  /\ Replied("lock", "ok")
  /\ Asks("inspect", "inspect", <<PhaseMessage("inspect")>>)
  /\ NoFault /\ EngineFrame

LockBusy == Replied("lock", "refused") /\ Refuses("BUSY") /\ NoFault /\ EngineFrame

\* Mutant: the name is gone, wherever the OID is.
NameAbsent == \A r \in rows[Admin] : r[1] # Target
\* Neither the name nor the OID is in the catalog.
Absent == rows[Admin] = {}
\* Mutant: whatever carries the name is the target.
ShowsName == \E o \in Oid : rows[Admin] = {<<Target, o>>}
\* The name and the OID are one row, and there is no other one.
ShowsTarget == rows[Admin] = {<<Target, Acquired>>}

\* Absence is an answer only to the first inspection.  A row may also belong to
\* a template or to another role.
Inspected ==
  /\ Replied("inspect", "ok")
  /\ \/ Absent /\ Ends("already-absent") /\ UNCHANGED <<stmtVars, session>> /\ NoFault
     \/ ShowsTarget /\ Asks("recheck", "inspect", <<>>) /\ NoFault
     \/ ShowsTarget /\ Refuses("OWNERSHIP_MISMATCH") /\ Fault
     \/ ~Absent /\ ~ShowsTarget /\ Refuses("IDENTITY_MISMATCH") /\ NoFault
  /\ EngineFrame

\* The permission is not even asked for when the deadline passed on the way to it.
Rechecked ==
  /\ Replied("recheck", "ok")
  /\ \/ /\ ShowsTarget
        /\ cpc' = "permit"
        /\ ChildSays(<<PhaseMessage("drop"), [type |-> "request-drop"]>>)
        /\ UNCHANGED observation
     \/ /\ ShowsTarget
        /\ LET o == [NotAttempted EXCEPT !.primary = "DATABASE_FAILURE", !.at = "drop"] IN
           /\ observation' = o /\ cpc' = "allocation"
           /\ ChildSays(<<PhaseMessage("drop"), [type |-> "closing", obs |-> o]>>)
     \/ ~ShowsTarget /\ Fails("IDENTITY_MISMATCH")
  /\ NoFault /\ UNCHANGED <<stmtVars, session>>
  /\ EngineFrame

Confirmed ==
  /\ Replied("confirm", "ok")
  /\ \/ ShowsTarget /\ Asks("drop", "drop", <<>>)
     \/ ~ShowsTarget /\ Refuses("IDENTITY_MISMATCH")
     \/ /\ ShowsTarget     \* and the deadline is found to have passed just before the dispatch
        /\ FinishWork([outcome |-> "unknown", primary |-> "DEADLINE_EXCEEDED", at |-> "drop",
                       closeFailed |-> FALSE])
        /\ session' = "broken" /\ UNCHANGED stmtVars
  /\ NoFault
  /\ EngineFrame

Dropped ==
  /\ Replied("drop", "ok")
  /\ Asks("verify", "inspect", <<PhaseMessage("verify")>>)
  /\ NoFault /\ EngineFrame

Verified ==
  /\ Replied("verify", "ok")
  /\ IF Absent THEN Ends("removed") /\ UNCHANGED <<stmtVars, session>>
     ELSE Refuses("IDENTITY_MISMATCH")
  /\ NoFault
  /\ EngineFrame

\* A statement fails, or its session does, or it could not be opened.
EngineFails ==
  /\ cpc \in QueryPc \cup {"create"} /\ Proceeds(cpc)
  /\ Fails("DATABASE_FAILURE")
  /\ session' = IF session = "open" THEN "broken" ELSE session
  /\ IF cpc # "create" /\ (answer[Admin] = "error" \/ session # "open" \/ backend[Admin] = "closed")
     THEN NoFault ELSE Fault
  /\ UNCHANGED stmtVars
  /\ EngineFrame

\* The work was stopped, or its deadline is found to have passed.
Interrupted ==
  /\ child = "running" /\ cpc \in EnginePc
  /\ stopReason # "none" \/ (childLate /\ cpc # "permit")
  /\ Fails("DEADLINE_EXCEEDED")
  /\ session' = IF session = "open" THEN "broken" ELSE session
  /\ UNCHANGED <<stmtVars, faults>>
  /\ EngineFrame

\* The session is closed within the budget, and the result reported under the fence.
SessionClosed ==
  /\ child = "running" /\ cpc = "allocation" /\ allocated
  /\ \E end \in {"closed", "failed", "unconfirmed"} :
       /\ session = "unused" => end = "closed"
       /\ session' = IF session = "unused" THEN "unused"
                     ELSE IF end = "unconfirmed" THEN "stuck" ELSE "disposed"
       /\ IF end = "closed" THEN NoFault ELSE Fault
       /\ LET o == [observation EXCEPT !.closeFailed = end # "closed"] IN
          observation' = o /\ ChildSays(<<[type |-> "result", obs |-> o]>>)
  /\ condemned' = TRUE
  /\ cpc' = "reported"
  /\ UNCHANGED <<pgVars, parentVars, toChild, connected, child, stopReason, allocated,
                 closeReceived, childLate, dropped, outside>>

-----------------------------------------------------------------------------
(* The server, the other participants and the outsiders *)

ServerExecutes ==
  /\ Execute(Admin)
  /\ dropped' = (dropped \/ (ExecDrop(Admin) /\ catalog' # catalog))
  /\ UNCHANGED <<parentVars, toChild, toParent, connected, childVars, faults, outside>>

\* Where the client is gone, however late; or, as a fault, on its own account.
ServerEnds ==
  /\ backend[Admin] = "open"
  /\ IF session = "open" THEN Fault ELSE NoFault
  /\ EndBackend(Admin)
  /\ UNCHANGED <<parentVars, toChild, toParent, connected, childVars, dropped, outside>>

SessionLost ==
  /\ child = "running" /\ session = "open"
  /\ IF backend[Admin] = "closed" THEN NoFault ELSE Fault
  /\ session' = "broken"
  /\ UNCHANGED <<pgVars, parentVars, toChild, toParent, connected, child, engineVars, stopReason,
                 condemned, allocated, closeReceived, childLate, dropped, outside>>

\* A process that keeps to the protocol holds the target's lock while it creates
\* the database, or drops it: its own one, or the retained one in another recovery.
PeerActs ==
  /\ \E s \in Session \ {Admin} :
       \/ /\ \/ lock[Target] = NoSession /\ lock' = [lock EXCEPT ![Target] = s]
             \/ lock[Target] = s /\ lock' = [lock EXCEPT ![Target] = NoSession]
          /\ UNCHANGED <<catalog, creator>>
       \/ /\ lock[Target] = s /\ catalog[Target] # NoOid
          /\ catalog' = [catalog EXCEPT ![Target] = NoOid]
          /\ UNCHANGED <<creator, lock>>
       \/ /\ lock[Target] = s /\ catalog[Target] = NoOid
          /\ \E o \in Oid :
               /\ creator[o] = Nobody
               /\ creator' = [creator EXCEPT ![o] = OwnerOf(s)]
               /\ catalog' = [catalog EXCEPT ![Target] = o]
          /\ UNCHANGED lock
  /\ UNCHANGED <<backend, stmtVars, conn>>

PeerDisconnects ==
  \E k \in Client : conn[k] # NoOid /\ Detach({k}) /\ UNCHANGED <<serverVars, stmtVars>>

OthersAct ==
  /\ outside < MaxOutside /\ outside' = outside + 1
  /\ OutsideDDL \/ PeerActs \/ PeerDisconnects
  /\ UNCHANGED <<parentVars, toChild, toParent, connected, childVars, dropped, faults>>

-----------------------------------------------------------------------------
ParentStep ==
  \/ OnMessage \/ WorkTimer \/ SendSettles \/ ForceTimer \/ FinalTimer
  \/ OnExit \/ OnDisconnect \/ OnClose
ParentEvent == Abort \/ DeadlinePasses \/ SpawnFails \/ ParentCrash

ChildHandler == ChildBoots \/ ChildReads \/ ChildDisconnects \/ ChildWorkTimer \/ ChildExits
EngineStep ==
  \/ ImportFails \/ SessionCreated \/ IdentityRead \/ LockGranted \/ LockBusy
  \/ Inspected \/ Rechecked \/ Confirmed \/ Dropped \/ Verified
  \/ EngineFails \/ Interrupted \/ SessionClosed
ChildEvent == ChildDeadlinePasses \/ ChildKilled \/ SessionLost

Next ==
  \/ ParentStep \/ ParentEvent
  \/ ChildHandler \/ EngineStep \/ ChildEvent
  \/ ServerExecutes \/ ServerEnds \/ OthersAct

Spec == Init /\ [][Next]_vars

\* Timers fire, callbacks are called, a process that was sent SIGKILL dies, and
\* the parent's deadline passes.  Nothing is assumed of the server: a
\* statement may stay unanswered, and a closing child is killed in the end.
Fairness ==
  /\ WF_vars(OnMessage) /\ WF_vars(WorkTimer) /\ WF_vars(DeadlinePasses) /\ WF_vars(SendSettles)
  /\ WF_vars(ForceTimer) /\ WF_vars(OnExit) /\ WF_vars(OnDisconnect) /\ WF_vars(OnClose)
  /\ WF_vars(ChildBoots) /\ WF_vars(ChildReads) /\ WF_vars(ChildDisconnects)
  /\ WF_vars(condemned /\ ChildKilled)

FairSpec == Spec /\ Fairness

-----------------------------------------------------------------------------
(* Properties *)

\* superviseRecovery resolves, instead of rejecting, with its outcome.
Success ==
  call = "settled" /\ NoFailure /\ terminal /\ outcome \in {"removed", "already-absent"}

\* A DROP that the server can still execute runs under the target's lock and
\* finds the very database the caller asked for, also when the child that sent
\* it is stopped or dead (the inspection after the permission).
DropsOnlyTarget ==
  Running(Admin, "drop") => lock[Target] = Admin /\ catalog[Target] = Acquired

\* When the call resolves, no name stands for the database any more, the child
\* ended by itself with its session closed, and nothing is left that could
\* act: no message, no pending send and no statement.
SuccessIsClean ==
  Success =>
    /\ \A n \in Name : catalog[n] # Acquired
    /\ child = "exited" /\ session = "disposed" /\ stopReason # "CANCELLED"
    /\ pendingSends = 0 /\ toParent = <<>>
    /\ \A kind \in StmtKind : ~Running(Admin, kind)

\* Whatever is cancelled, late or lost, parent and child never take each other's
\* messages for a violation of the protocol; only a permission may come too late.
Expected(m) ==
  /\ m.type = "start" => cpc = "idle"
  /\ m.type = "permit-drop" => cpc = "permit" \/ stopReason # "none"
  /\ m.type = "close" => cpc \in ClosingPc /\ ~closeReceived
  /\ m.type = "finish" => cpc = "reported"
PeersAgree ==
  /\ call = "pending" /\ toParent # <<>> => Acceptable(Head(toParent))
  /\ child = "running" /\ toChild # <<>> => Expected(Head(toChild))

\* The caller may conclude from the reported outcome what RecoveryOutcome says.
Report == INSTANCE RecoveryOutcome
  WITH verdict <- IF call = "settled" THEN outcome ELSE "open"
OutcomeIsHonest == Report!Spec

\* The call always settles, whatever the server, the channel and the child do.
CallSettles == call = "pending" ~> call # "pending"

\* No child survives, not even its parent.
NoOrphan == <>(child \notin {"booting", "running"})
=============================================================================
