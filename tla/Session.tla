------------------------------ MODULE Session ------------------------------
(***************************************************************************)
(* The administration session of the database module                        *)
(* (src/database/helpers/test-database-session.ts): how it is created for   *)
(* the lease of a test process or for a recovery, its flags under the       *)
(* events of the socket and of pg's client, and its close.                  *)
(***************************************************************************)
EXTENDS TestIdentity

CONSTANTS
  Op,           \* the operations of a session: connect and the queries
  ConnectOp,
  OpTimeout, Budgets,  \* timeoutMs of an operation, and of close
  MaxTime

ASSUME SessionAssumption ==
  /\ ConnectOp \in Op
  /\ OpTimeout \in Nat /\ Budgets \subseteq Nat /\ MaxTime \in Nat

VARIABLES
  now,
  input,        \* captured input of a recovery, until its session is made; Missing for a lease
  stage,        \* of TestDatabaseSession.create
  todo, file,   \* certificates to be read, and the open one
  aborted,      \* the signal of a recovery
  connected, stopping, lost, confirmed,
  socket, ended, ending,  \* the socket, client "end", and the promise of client.end()
  call, promise, until,   \* of each operation: what its caller knows, pg's promise, its timeout
  closing, failed, began, budget

creationVars == <<input, stage, todo, file>>
flagVars == <<stopping, lost>>
opVars == <<call, promise, until>>
closeVars == <<confirmed, closing, failed, began, budget>>
sessionVars == <<now, creationVars, aborted, connected, flagVars, socket, ended, ending, opVars, closeVars>>
vars == <<identityVars, sessionVars>>

TypeOK ==
  /\ IdentityTypeOK
  /\ now \in 0..MaxTime
  /\ stage \in {"none", "config", "made", "refused"} /\ todo \subseteq TlsKeys /\ file \in TlsKeys \cup {"none"}
  /\ {aborted, connected, stopping, lost, confirmed, ended, failed} \subseteq BOOLEAN
  /\ socket \in {"new", "open", "erring", "ending", "closed"}
  /\ ending \in {"no", "pending", "done"}
  /\ call \in [Op -> {"none", "waiting", "ok", "failed"}]
  /\ promise \in [Op -> {"none", "pending", "settled"}]
  /\ until \in [Op -> Nat]
  /\ closing \in {"no", "graceful", "forced", "ok", "failed"}
  /\ began \in 0..now /\ budget \in Budgets \cup {0}
  /\ \A o \in Op : call[o] = "waiting" => promise[o] = "pending"
  /\ file # "none" => stage = "config"

Init ==
  /\ IdentityInit
  /\ now = 0 /\ input = Missing /\ stage = "none" /\ todo = {} /\ file = "none" /\ aborted = FALSE
  /\ connected = FALSE /\ stopping = FALSE /\ lost = FALSE /\ confirmed = FALSE
  /\ socket = "new" /\ ended = FALSE /\ ending = "no"
  /\ call = [o \in Op |-> "none"] /\ promise = [o \in Op |-> "none"] /\ until = [o \in Op |-> 0]
  /\ closing = "no" /\ failed = FALSE /\ began = 0 /\ budget = 0

-----------------------------------------------------------------------------
(* Creation *)

\* connectionConfig: the files that the URL names are read unless sslmode is disable; the
\* certificates of a recovery are in memory, and refused when the TLS library does.
RecoveryConfig(tls) == IF tls = "none" THEN {"config"} ELSE {"config", "refused"}
Files(url) == IF url.mode = "disable" THEN {} ELSE url.keys \ {"sslmode"}

\* The session reads nothing of the capture again: from here it is followed alone.
CaptureEnds ==
  /\ env' = Missing /\ invocation' = Missing /\ identity' = Missing
  /\ configuration' = Missing /\ testOptions' = Missing /\ reported' = Missing

\* acquireLease: a session for the captured configuration.
Lease ==
  /\ stage = "none" /\ configuration # Missing
  /\ LET url == configuration.url IN
     IF BaseRefused(url, url.role) THEN stage' = "refused" /\ UNCHANGED <<todo, input>>
     ELSE stage' = "config" /\ todo' = Files(url) /\ UNCHANGED input
  /\ CaptureEnds
  /\ UNCHANGED <<now, file, aborted, connected, flagVars, socket, ended, ending, opVars, closeVars>>

\* recoverTestDatabase, in some process that was told of the report.
Recover(deviation) ==
  /\ stage = "none" /\ reported # Missing
  /\ LET o == Deviating(deviation, OptionsOf(reported)) IN
     IF Refusal(o) # "none" \/ ~ValidInput(Captured(o)) THEN stage' = "refused" /\ UNCHANGED input
     ELSE /\ input' = Captured(o)
          /\ stage' \in RecoveryConfig(o.tls)
  /\ CaptureEnds
  /\ UNCHANGED <<now, todo, file, aborted, connected, flagVars, socket, ended, ending, opVars, closeVars>>

OpenFile(key) ==
  /\ stage = "config" /\ file = "none" /\ key \in todo
  /\ \/ file' = key /\ UNCHANGED <<stage, todo>>
     \/ stage' = "refused" /\ todo' = {} /\ UNCHANGED file  \* there is none
  /\ UNCHANGED <<identityVars, now, input, aborted, connected, flagVars, socket, ended, ending, opVars, closeVars>>
\* It is read when it is a regular file, and closed in any case.
ReadFile ==
  /\ file # "none" /\ file' = "none"
  /\ \/ todo' = todo \ {file} /\ UNCHANGED stage
     \/ stage' = "refused" /\ todo' = {}
  /\ UNCHANGED <<identityVars, now, input, aborted, connected, flagVars, socket, ended, ending, opVars, closeVars>>

\* The imports are there, and the signal is looked at once more; onSession of the child
\* interrupts a session that was created all the same.
Made ==
  /\ stage = "config" /\ todo = {} /\ file = "none"
  /\ stage' = IF aborted THEN "refused" ELSE "made"
  /\ input' = Missing
  /\ UNCHANGED <<identityVars, now, todo, file, aborted, connected, flagVars, socket, ended, ending, opVars, closeVars>>

-----------------------------------------------------------------------------
(* Health *)

Healthy == ~stopping /\ ~lost
Listening == closing \notin {"ok", "failed"}

\* socket.destroy(error)
Destroyed(s) == IF s \in {"new", "open"} THEN "erring" ELSE s
Interrupted == stopping' = TRUE /\ socket' = Destroyed(socket)

\* The owner gives the session up, as stop of the child does.
Interrupt ==
  /\ stage = "made" /\ ~stopping /\ Interrupted
  /\ UNCHANGED <<identityVars, now, creationVars, aborted, connected, lost, ended, ending, opVars, closeVars>>
Abort ==
  /\ stage = "config" /\ ~aborted /\ aborted' = TRUE
  /\ input # Missing  \* a lease has no signal
  /\ UNCHANGED <<identityVars, now, creationVars, connected, flagVars, socket, ended, ending, opVars, closeVars>>

\* The network fails, or the server ends the connection (also as the answer to client.end()).
SocketBreaks ==
  /\ socket = "open" /\ socket' \in {"erring", "ending"}
  /\ UNCHANGED <<identityVars, now, creationVars, aborted, connected, flagVars, ended, ending, opVars, closeVars>>
\* The socket emits its error, if any, and "close"; onError interrupts a session that goes on.
SocketCloses ==
  /\ socket \in {"erring", "ending"} /\ socket' = "closed"
  /\ lost' = (lost \/ ~stopping \/ (socket = "erring" /\ Listening))
  /\ stopping' = (stopping \/ socket = "erring")
  /\ UNCHANGED <<identityVars, now, creationVars, aborted, connected, ended, ending, opVars, closeVars>>

\* pg's client ends after its socket, with an error unless it was told to end.
ClientEnds ==
  /\ connected /\ socket = "closed" /\ ~ended /\ ended' = TRUE
  /\ IF ending = "no" THEN lost' = TRUE /\ stopping' = TRUE /\ UNCHANGED ending
     ELSE ending' = "done" /\ UNCHANGED flagVars
  /\ UNCHANGED <<identityVars, now, creationVars, aborted, connected, socket, opVars, closeVars>>

-----------------------------------------------------------------------------
(* Operations *)

Dispatch(o) ==
  /\ call[o] = "none"
  /\ now + OpTimeout <= MaxTime
  /\ IF Healthy
     THEN /\ call' = [call EXCEPT ![o] = "waiting"] /\ promise' = [promise EXCEPT ![o] = "pending"]
          /\ until' = [until EXCEPT ![o] = now + OpTimeout]
     ELSE call' = [call EXCEPT ![o] = "failed"] /\ UNCHANGED <<promise, until>>

Connect ==
  /\ stage = "made" /\ Healthy /\ Dispatch(ConnectOp) /\ connected' = TRUE /\ socket' = "open"
  /\ UNCHANGED <<identityVars, now, creationVars, aborted, flagVars, ended, ending, closeVars>>
Query(o) ==
  /\ o # ConnectOp /\ call[ConnectOp] \in {"ok", "failed"} /\ Dispatch(o)
  /\ UNCHANGED <<identityVars, now, creationVars, aborted, connected, flagVars, socket, ended, ending, closeVars>>

\* The server's answer: only an open socket brings one.
Answers(o) ==
  /\ promise[o] = "pending" /\ socket = "open"
  /\ promise' = [promise EXCEPT ![o] = "settled"]
  /\ call' = [call EXCEPT ![o] = IF @ = "waiting" THEN "ok" ELSE @]
  /\ UNCHANGED <<identityVars, now, creationVars, aborted, connected, flagVars, socket, ended, ending, until, closeVars>>

Throws(o) == call' = [call EXCEPT ![o] = "failed"] /\ Interrupted
\* pg rejects: an SQL error, its own timeout, or the end of the connection.
Rejects(o) ==
  /\ promise[o] = "pending" /\ promise' = [promise EXCEPT ![o] = "settled"]
  /\ IF call[o] = "waiting" THEN Throws(o) ELSE UNCHANGED <<call, stopping, socket>>
  /\ UNCHANGED <<identityVars, now, creationVars, aborted, connected, lost, ended, ending, until, closeVars>>

\* Mutant of TimesOut: the session is not interrupted.
TimesOutQuietly(o) ==
  /\ call[o] = "waiting" /\ now >= until[o]
  /\ call' = [call EXCEPT ![o] = "failed"] /\ UNCHANGED <<stopping, socket>>
  /\ UNCHANGED <<identityVars, now, creationVars, aborted, connected, lost, ended, ending, promise, until, closeVars>>
\* within of operation; pg's promise is still under way.
TimesOut(o) ==
  /\ call[o] = "waiting" /\ now >= until[o] /\ Throws(o)
  /\ UNCHANGED <<identityVars, now, creationVars, aborted, connected, lost, ended, ending, promise, until, closeVars>>

-----------------------------------------------------------------------------
(* Close *)

\* The first call of close; another one gets the same promise.  A session is connected as soon as
\* it is made, or interrupted before.
BeginClose(ms) ==
  /\ connected \/ stopping
  /\ stage = "made" /\ closing = "no" /\ now + ms <= MaxTime
  /\ closing' = IF Healthy THEN "graceful" ELSE "forced"
  /\ stopping' = TRUE
  /\ socket' = IF Healthy THEN socket ELSE Destroyed(socket)
  /\ ending' = IF connected /\ ~ended THEN "pending" ELSE "done"
  /\ began' = now /\ budget' = ms
  /\ UNCHANGED <<identityVars, now, creationVars, aborted, connected, lost, ended, opVars, confirmed, failed>>

EndFails ==
  /\ ending = "pending" /\ ending' = "done" /\ failed' = TRUE /\ socket' = Destroyed(socket)
  /\ Listening
  /\ UNCHANGED <<identityVars, now, creationVars, aborted, connected, flagVars, ended, opVars, confirmed, closing, began, budget>>

HalfAt == began + budget \div 2
\* Mutant of DeadlineAt: the second half is given the whole budget.
DeadlineAtWhole == HalfAt + budget
DeadlineAt == began + budget

\* What confirm waits for.
Confirmed ==
  socket = "closed" /\ (connected => ended) /\ ending = "done" /\ \A o \in Op : promise[o] # "pending"

\* confirm resolves within the first half, and at once again, or within what is left.
Confirms ==
  /\ closing \in {"graceful", "forced"} /\ Confirmed
  /\ confirmed' = TRUE /\ closing' = IF failed THEN "failed" ELSE "ok"
  /\ UNCHANGED <<identityVars, now, creationVars, aborted, connected, flagVars, socket, ended, ending, opVars, failed, began, budget>>

HalfTimer ==
  /\ closing = "graceful" /\ now >= HalfAt
  /\ closing' = "forced" /\ failed' = TRUE /\ socket' = Destroyed(socket)
  /\ UNCHANGED <<identityVars, now, creationVars, aborted, connected, flagVars, ended, ending, opVars, confirmed, began, budget>>
FinalTimer ==
  /\ closing = "forced" /\ now >= DeadlineAt
  /\ closing' = "failed" /\ failed' = TRUE /\ socket' = Destroyed(socket)
  /\ UNCHANGED <<identityVars, now, creationVars, aborted, connected, flagVars, ended, ending, opVars, confirmed, began, budget>>

-----------------------------------------------------------------------------
Due == \/ \E o \in Op : call[o] = "waiting" /\ now >= until[o]
       \/ closing = "graceful" /\ now >= HalfAt
       \/ closing = "forced" /\ now >= DeadlineAt
\* The event loop runs a timer that is due within the tick.
Tick ==
  /\ stage = "made" /\ now < MaxTime /\ ~Due /\ now' = now + 1
  /\ UNCHANGED <<identityVars, creationVars, aborted, connected, flagVars, socket, ended, ending, opVars, closeVars>>

CaptureNext ==
  /\ stage = "none" /\ UNCHANGED sessionVars
  /\ \/ EnvChanges \/ Reset
     \/ \E ns \in Namespace : InitializeTestInvocation(ns)
     \/ \E ns \in Namespace \ (Unusable \cup Unfaithful) :
          GetTestDatabaseInfo(ns) \/ \E options \in TestOptions : ForTest(options, ns)

Timers == (\E o \in Op : TimesOut(o)) \/ Confirms \/ HalfTimer \/ FinalTimer \/ Tick

Next ==
  \/ CaptureNext
  \/ Lease \/ \E deviation \in Deviation : Recover(deviation)
  \/ (\E key \in TlsKeys : OpenFile(key)) \/ ReadFile \/ Made
  \/ Interrupt \/ Abort \/ SocketBreaks \/ SocketCloses \/ ClientEnds
  \/ Connect \/ \E o \in Op : Query(o) \/ Answers(o) \/ Rejects(o)
  \/ (\E ms \in Budgets : BeginClose(ms)) \/ EndFails
  \/ Timers

\* Nothing is assumed of the server, the socket and pg: timers fire.
Spec == Init /\ [][Next]_vars /\ WF_vars(Timers)

-----------------------------------------------------------------------------
(* Properties *)

\* close tells the truth, in time: disposed means that the socket is closed, pg's client has ended
\* and none of its promises is left, success means disposed, and close has settled by the end of
\* its one budget, whichever of the server, the socket and pg holds it up.
CloseIsHonest ==
  /\ confirmed => socket = "closed" /\ (connected => ended) /\ \A o \in Op : promise[o] # "pending"
  /\ closing = "ok" => confirmed
  /\ closing \in {"graceful", "forced"} => now <= began + budget

\* What a recovery refuses of a report: a URL under which no lease is opened either, one that is
\* too long or names files, a role, namespace or worker id that is no text of its length, and a
\* base whose databases look like the server's own.
NotTaken(r) ==
  \/ BaseRefused(r.url, r.url.role)
  \/ r.url.long \/ r.url.role \in LongRole \/ ~(r.url.keys \subseteq {"sslmode"})
  \/ r.info.namespace \in Unfaithful \/ r.info.workerId \in Unfaithful
  \/ r.url.base.pg
\* Anything else it takes, and so does its child.
Recoverable(r) ==
  LET o == OptionsOf(r) IN
  IF NotTaken(r) THEN Refusal(o) # "none" ELSE Refusal(o) = "none" /\ ValidInput(Captured(o))

\* The identity that a process reports, whatever it was called with and in which order, is one
\* that a recovery under the URL of that time takes, in its parent and its child, with exactly the
\* exceptions of NotTaken: its name is never refused as one of another identity, or as too long.
\* What is taken, of a caller who changes some options too, is never the base, and fits in a name
\* of the server.
ReportedIsRecoverable ==
  /\ reported # Missing => Recoverable(reported)
  /\ input # Missing => input.databaseName # input.baseName /\ NameBytes(input.databaseName) <= MaxBytes

\* The session keeps the promise that the lifecycle and the recovery build on.
Promise == INSTANCE SessionPromise WITH
  healthy <- Healthy, disposed <- confirmed,
  close <- IF closing = "no" THEN "open" ELSE IF closing \in {"graceful", "forced"} THEN "closing" ELSE closing
KeepsPromise == Promise!Spec
\* The steps of that promise.
KeepsSteps == Promise!Init /\ [][Promise!Next]_(Promise!vars)
=============================================================================
