--------------------------- MODULE RecoveryProofs ---------------------------
(***************************************************************************)
(* Recovery for every number of names, OIDs, faults and delayed sends: the *)
(* invariant of RecoveryInvariant is inductive, part by part.  Hence a     *)
(* DROP finds the retained database under its lock, a success leaves       *)
(* nothing behind, parent and child never break the protocol, and what the *)
(* caller is told is what RecoveryOutcome allows.                          *)
(***************************************************************************)
EXTENDS RecoveryInvariant, SequenceTheorems, TLAPS

USE DEF vars, pgVars, serverVars, stmtVars, protocolVars, failureVars, disposalVars, closeVars,
        parentVars, engineVars, stopVars, childVars, envVars

-----------------------------------------------------------------------------
(* Channels *)

\* One more message in the pipe (child.send).
LEMMA AppendedMessages ==
  ASSUME NEW S, NEW ch \in Seq(S), NEW m \in S
  PROVE  /\ Append(ch, m) \in Seq(S)
         /\ Len(Append(ch, m)) = Len(ch) + 1
         /\ \A i \in 1..Len(ch) : Append(ch, m)[i] = ch[i]
         /\ Append(ch, m)[Len(ch) + 1] = m
         /\ Range(Append(ch, m)) = Range(ch) \cup {m}
  <1>1. /\ Append(ch, m) \in Seq(S)
        /\ Len(Append(ch, m)) = Len(ch) + 1
        /\ \A i \in 1..Len(ch) : Append(ch, m)[i] = ch[i]
        /\ Append(ch, m)[Len(ch) + 1] = m
    BY AppendProperties
  <1>2. Len(ch) \in Nat
    BY LenProperties
  <1>3. Range(Append(ch, m)) = {Append(ch, m)[i] : i \in 1..(Len(ch) + 1)}
    BY <1>1, RangeEquality
  <1>4. Range(ch) = {ch[i] : i \in 1..Len(ch)}
    BY RangeEquality
  <1>5. 1..(Len(ch) + 1) = 1..Len(ch) \cup {Len(ch) + 1}
    BY <1>2
  <1>6. Range(Append(ch, m)) \subseteq Range(ch) \cup {m}
    BY <1>1, <1>3, <1>4, <1>5
  <1>7. Range(ch) \cup {m} \subseteq Range(Append(ch, m))
    BY <1>1, <1>3, <1>4, <1>5
  <1>. QED BY <1>1, <1>6, <1>7

\* The rest of the pipe after its head was read (onMessage).
LEMMA ReadMessages ==
  ASSUME NEW S, NEW ch \in Seq(S), ch # <<>>
  PROVE  /\ Head(ch) \in S /\ Head(ch) \in Range(ch) /\ Head(ch) = ch[1]
         /\ Tail(ch) \in Seq(S)
         /\ Len(ch) \in Nat \ {0} /\ Len(Tail(ch)) = Len(ch) - 1
         /\ \A i \in 1..Len(Tail(ch)) : Tail(ch)[i] = ch[i + 1]
         /\ Range(Tail(ch)) \subseteq Range(ch)
  <1>1. /\ Head(ch) \in S /\ Tail(ch) \in Seq(S)
        /\ Len(Tail(ch)) = Len(ch) - 1
        /\ \A i \in 1..Len(Tail(ch)) : Tail(ch)[i] = ch[i + 1]
    BY HeadTailProperties
  <1>2. Len(ch) \in Nat \ {0} /\ Head(ch) = ch[1]
    BY EmptySeq
  <1>3. Range(ch) = {ch[i] : i \in 1..Len(ch)}
    BY RangeEquality
  <1>4. Range(Tail(ch)) = {Tail(ch)[i] : i \in 1..Len(Tail(ch))}
    BY <1>1, RangeEquality
  <1>5. Head(ch) \in Range(ch)
    BY <1>2, <1>3
  <1>6. Range(Tail(ch)) \subseteq Range(ch)
    BY <1>1, <1>2, <1>3, <1>4
  <1>. QED BY <1>1, <1>2, <1>5, <1>6

\* What is left of the pipe when the writer is killed.
LEMMA KeptMessages ==
  ASSUME NEW S, NEW ch \in Seq(S), NEW n \in 0..Len(ch)
  PROVE  /\ SubSeq(ch, 1, n) \in Seq(S)
         /\ Len(SubSeq(ch, 1, n)) = n
         /\ \A i \in 1..n : SubSeq(ch, 1, n)[i] = ch[i]
         /\ Range(SubSeq(ch, 1, n)) \subseteq Range(ch)
  <1>1. Len(ch) \in Nat /\ \A i \in 1..n : ch[i] \in S
    BY LenProperties, ElementOfSeq
  <1>2. /\ SubSeq(ch, 1, n) \in Seq(S)
        /\ Len(SubSeq(ch, 1, n)) = n
        /\ \A i \in 1..n : SubSeq(ch, 1, n)[i] = ch[i]
    BY <1>1, SubSeqProperties
  <1>3. Range(SubSeq(ch, 1, n)) = {SubSeq(ch, 1, n)[i] : i \in 1..n}
    BY <1>2, RangeEquality
  <1>4. Range(ch) = {ch[i] : i \in 1..Len(ch)}
    BY RangeEquality
  <1>5. Range(SubSeq(ch, 1, n)) \subseteq Range(ch)
    BY <1>1, <1>2, <1>3, <1>4
  <1>. QED BY <1>2, <1>5

\* An empty pipe carries nothing.
LEMMA NoMessages ==
  ASSUME NEW S
  PROVE  <<>> \in Seq(S) /\ Len(<<>>) = 0 /\ Range(<<>>) = {}
  <1>1. <<>> \in Seq(S) /\ Len(<<>>) = 0
    BY EmptySeq
  <1>2. Range(<<>>) = {<<>>[i] : i \in 1..Len(<<>>)}
    BY <1>1, RangeEquality
  <1>. QED BY <1>1, <1>2

\* Saying one or two messages is appending them (send of the child).
LEMMA SaidMessages ==
  ASSUME NEW S, NEW ch \in Seq(S), NEW m \in S, NEW n \in S
  PROVE  /\ ch \o <<>> = ch
         /\ ch \o <<m>> = Append(ch, m)
         /\ ch \o <<m, n>> = Append(Append(ch, m), n)
  <1>1. ch \o <<>> = ch
    BY ConcatEmptySeq
  <1>2. ch \o <<m>> = Append(ch, m)
    BY AppendIsConcat
  <1>8. <<m>> \in Seq(S) /\ <<n>> \in Seq(S) /\ <<m, n>> \in Seq(S)
    OBVIOUS
  <1>9. <<m>> \o <<n>> = <<m, n>>
    <2>1. /\ <<m>> \o <<n>> \in Seq(S)
          /\ Len(<<m>> \o <<n>>) = Len(<<m>>) + Len(<<n>>)
          /\ \A i \in 1..Len(<<m>>) + Len(<<n>>) :
                (<<m>> \o <<n>>)[i] = IF i <= Len(<<m>>) THEN <<m>>[i] ELSE <<n>>[i - Len(<<m>>)]
      BY <1>8, ConcatProperties
    <2>2. Len(<<m>>) = 1 /\ Len(<<n>>) = 1 /\ Len(<<m, n>>) = 2
      OBVIOUS
    <2>3. (<<m>> \o <<n>>)[1] = m /\ (<<m>> \o <<n>>)[2] = n
      BY <2>1, <2>2
    <2>4. Len(<<m>> \o <<n>>) = 2
      BY <2>1, <2>2
    <2>5. \A i \in 1..Len(<<m>> \o <<n>>) : (<<m>> \o <<n>>)[i] = <<m, n>>[i]
      BY <2>3, <2>4
    <2>6. Len(<<m>> \o <<n>>) = Len(<<m, n>>)
      BY <2>2, <2>4
    <2>7. <<m>> \o <<n>> \in Seq(S)
      BY <2>1
    <2>. QED BY <1>8, <2>5, <2>6, <2>7, SeqEqual, Zenon
  <1>3. <<m>> \in Seq(S) /\ <<n>> \in Seq(S) /\ <<m, n>> = <<m>> \o <<n>>
    BY <1>8, <1>9
  <1>6. Append(ch, m) \in Seq(S)
    BY AppendProperties
  <1>7. Append(Append(ch, m), n) = Append(ch, m) \o <<n>>
    BY <1>6, AppendIsConcat
  <1>4. Append(Append(ch, m), n) = (ch \o <<m>>) \o <<n>>
    BY <1>2, <1>7
  <1>5. (ch \o <<m>>) \o <<n>> = ch \o (<<m>> \o <<n>>)
    BY <1>3, ConcatAssociative
  <1>. QED BY <1>1, <1>2, <1>3, <1>4, <1>5

\* Whatever is in a typed pipe is a message.
LEMMA MessagesTyped ==
  ASSUME NEW S, NEW ch \in Seq(S)
  PROVE  /\ Range(ch) \subseteq S
         /\ Range(ch) = {ch[i] : i \in 1..Len(ch)}
         /\ Len(ch) \in Nat
  BY RangeOfSeq, RangeEquality, LenProperties

-----------------------------------------------------------------------------
(* Typing *)

\* The type invariant, by who keeps the state.
ParentTyped ==
  /\ call \in {"pending", "settled", "crashed"}
  /\ phase \in Phase /\ outcome \in Outcome
  /\ primary \in Reason \cup Refusal \cup {"none"} /\ closeFailed \in BOOLEAN
  /\ ready \in BOOLEAN /\ requested \in BOOLEAN /\ permitted \in BOOLEAN
  /\ closing \in BOOLEAN /\ terminal \in BOOLEAN
  /\ childClosing \in SUBSET Observation
  /\ pendingSends \in Nat
  /\ exited \in BOOLEAN /\ disconnected \in BOOLEAN /\ late \in BOOLEAN
  /\ closeTimer \in {"off", "graceful", "final", "done"}
ToChildTyped == toChild \in Seq(ParentMessage)
ToParentTyped == toParent \in Seq(ChildMessage)
ChildTyped ==
  /\ child \in {"booting", "running", "exited", "killed", "failed", "unspawned"}
  /\ cpc \in EnginePc \cup ClosingPc \cup {"idle", "failed"}
  /\ stopReason \in Reason \cup {"none"}
  /\ allocated \in BOOLEAN /\ closeReceived \in BOOLEAN /\ childLate \in BOOLEAN
  /\ condemned \in BOOLEAN
  /\ observation \in Observation
  /\ session \in {"unused", "open", "broken", "disposed", "stuck"}
EnvTyped == connected \in BOOLEAN /\ dropped \in BOOLEAN /\ faults \in Nat /\ outside \in Nat

\* The groups are the whole of the type invariant.
LEMMA Typing ==
  /\ TypeOK <=> PgTypeOK /\ ParentTyped /\ ToChildTyped /\ ToParentTyped /\ ChildTyped /\ EnvTyped
  /\ TypeOK' <=> PgTypeOK' /\ ParentTyped' /\ ToChildTyped' /\ ToParentTyped' /\ ChildTyped' /\ EnvTyped'
  BY DEF TypeOK, ParentTyped, ToChildTyped, ToParentTyped, ChildTyped, EnvTyped

\* The administration session of the recovery is one of the server's sessions.
LEMMA AdminSession == Admin \in Session /\ Admin # NoSession /\ OwnerOf(Admin) = Recoverer
  BY RecoveryAssumption, AbsentAssumption DEF Admin, Session, OwnerOf

\* What a step does not touch keeps its type.
LEMMA TypedFrame ==
  /\ PgTypeOK /\ UNCHANGED pgVars => PgTypeOK'
  /\ ParentTyped /\ UNCHANGED parentVars => ParentTyped'
  /\ ToChildTyped /\ UNCHANGED toChild => ToChildTyped'
  /\ ToParentTyped /\ UNCHANGED toParent => ToParentTyped'
  /\ ChildTyped /\ UNCHANGED childVars => ChildTyped'
  /\ EnvTyped /\ UNCHANGED <<connected, envVars>> => EnvTyped'
  <1>1. PgTypeOK /\ UNCHANGED pgVars => PgTypeOK'
    BY DEF PgTypeOK
  <1>2. ParentTyped /\ UNCHANGED parentVars => ParentTyped'
    BY DEF ParentTyped
  <1>3. ToChildTyped /\ UNCHANGED toChild => ToChildTyped'
    BY DEF ToChildTyped
  <1>4. ToParentTyped /\ UNCHANGED toParent => ToParentTyped'
    BY DEF ToParentTyped
  <1>5. ChildTyped /\ UNCHANGED childVars => ChildTyped'
    BY DEF ChildTyped
  <1>6. EnvTyped /\ UNCHANGED <<connected, envVars>> => EnvTyped'
    BY DEF EnvTyped
  <1>. QED BY <1>1, <1>2, <1>3, <1>4, <1>5, <1>6

\* A message of the parent is in the pipe, or lost with the channel (child.send).
LEMMA DeliverTyped ==
  ASSUME ToChildTyped, NEW m \in ParentMessage, Deliver(m)
  PROVE  ToChildTyped'
  <1>. HIDE DEF ParentMessage
  <1>. QED BY AppendedMessages DEF ToChildTyped, Deliver

\* Another send may or may not settle at once (child.send).
LEMMA PendingTyped ==
  ASSUME NEW n \in Nat, Pending(n)
  PROVE  pendingSends' \in Nat
  BY BudgetAssumption DEF Pending

\* The failures the parent keeps (recordFailure).
LEMMA AddFailureTyped ==
  ASSUME ParentTyped, NEW code \in Reason \cup Refusal \cup {"none"}, AddFailure(code)
  PROVE  primary' \in Reason \cup Refusal \cup {"none"}
         /\ (code # "none" => primary' # "none") /\ (primary # "none" => primary' = primary)
  BY DEF ParentTyped, AddFailure

\* The close begins once (beginClose).
LEMMA BeginCloseTyped ==
  ASSUME ParentTyped, BeginClose
  PROVE  closing' = TRUE /\ closeTimer' \in {"off", "graceful", "final", "done"}
  BY DEF ParentTyped, BeginClose

\* Sending outside stop (sendToChild).
LEMMA SendToChildTyped ==
  ASSUME ParentTyped, ToChildTyped, NEW m \in ParentMessage, SendToChild(m)
  PROVE  ToChildTyped' /\ pendingSends' \in Nat
  <1>. HIDE DEF ParentMessage
  <1>1. CASE disconnected
    BY <1>1 DEF SendToChild, ToChildTyped, ParentTyped
  <1>2. CASE ~disconnected
    BY <1>2, DeliverTyped, PendingTyped DEF SendToChild, ParentTyped
  <1>. QED BY <1>1, <1>2

\* Stopping (stop of the parent).
LEMMA StopTyped ==
  ASSUME ParentTyped, ToChildTyped, NEW code \in Reason, NEW n \in Nat, Stop(code, n)
  PROVE  /\ primary' \in Reason \cup Refusal \cup {"none"} /\ primary' # "none"
         /\ (primary # "none" => primary' = primary)
         /\ closeFailed' = closeFailed /\ closing' = TRUE
         /\ closeTimer' \in {"off", "graceful", "final", "done"}
         /\ ToChildTyped' /\ pendingSends' \in Nat
  <1>1. AddFailure(code) /\ code \in Reason \cup Refusal \cup {"none"} /\ code # "none"
    BY DEF Stop, Reason
  <1>2. BeginClose /\ closeFailed' = closeFailed
    BY DEF Stop, BeginClose
  <1>3. [type |-> "cancel", reason |-> code] \in ParentMessage
    BY DEF ParentMessage
  <1>4. CASE ~disconnected /\ (NoFailure \/ ~closing)
    <2>1. Deliver([type |-> "cancel", reason |-> code]) /\ Pending(n)
      BY <1>4 DEF Stop
    <2>. QED BY <1>1, <1>2, <1>3, <2>1, DeliverTyped, PendingTyped, AddFailureTyped, BeginCloseTyped
  <1>5. CASE ~(~disconnected /\ (NoFailure \/ ~closing))
    <2>1. UNCHANGED toChild /\ pendingSends' = n
      BY <1>5 DEF Stop
    <2>. QED BY <1>1, <1>2, <2>1, TypedFrame, AddFailureTyped, BeginCloseTyped
  <1>. QED BY <1>4, <1>5

\* What a message of the child carries (the parse of the parent's onMessage).
LEMMA ChildMessageShape ==
  ASSUME NEW m \in ChildMessage
  PROVE  /\ m.type \in {"ready", "request-drop", "phase", "closing", "result"}
         /\ m.type = "phase" => m.phase \in Phase
         /\ m.type \in {"closing", "result"} => m.obs \in Observation
  BY DEF ChildMessage

\* What a message of the parent carries (the parse of the child's onMessage).
LEMMA ParentMessageShape ==
  ASSUME NEW m \in ParentMessage
  PROVE  /\ m.type \in {"start", "permit-drop", "close", "finish", "cancel"}
         /\ m.type = "cancel" => m.reason \in Reason
  BY DEF ParentMessage

\* The messages there are.
LEMMA MessageTypes ==
  /\ \A t \in {"start", "permit-drop", "close", "finish"} : [type |-> t] \in ParentMessage
  /\ \A r \in Reason : [type |-> "cancel", reason |-> r] \in ParentMessage
  /\ \A t \in {"ready", "request-drop"} : [type |-> t] \in ChildMessage
  /\ \A p \in Phase : PhaseMessage(p) \in ChildMessage
  /\ \A t \in {"closing", "result"}, o \in Observation : [type |-> t, obs |-> o] \in ChildMessage
  BY DEF ParentMessage, ChildMessage, PhaseMessage

\* What a report of the child carries (TestDatabaseRecoveryObservation).
LEMMA ObservationShape ==
  /\ \A o \in Observation : /\ o.outcome \in Outcome /\ o.at \in Phase /\ o.closeFailed \in BOOLEAN
                            /\ o.primary \in Reason \cup Refusal \cup {"none"}
  /\ NotAttempted \in Observation
  /\ \A x \in Outcome, p \in Reason \cup Refusal \cup {"none"}, a \in Phase, b \in BOOLEAN :
       [outcome |-> x, primary |-> p, at |-> a, closeFailed |-> b] \in Observation
  BY DEF Observation, NotAttempted, Outcome, Phase

\* The end of the session is added to the report (reportResult).
LEMMA ClosedObservation ==
  ASSUME NEW o \in Observation, NEW b \in BOOLEAN
  PROVE  /\ [o EXCEPT !.closeFailed = b] \in Observation
         /\ [o EXCEPT !.closeFailed = b].outcome = o.outcome
         /\ [o EXCEPT !.closeFailed = b].primary = o.primary
         /\ [o EXCEPT !.closeFailed = b].at = o.at
         /\ [o EXCEPT !.closeFailed = b].closeFailed = b
  BY Zenon DEF Observation

\* What the parent takes from a report (acceptObservation).
LEMMA AcceptTyped ==
  ASSUME ParentTyped, NEW o \in Observation, Accept(o)
  PROVE  /\ outcome' \in Outcome /\ primary' \in Reason \cup Refusal \cup {"none"}
         /\ closeFailed' \in BOOLEAN
         /\ (primary # "none" => primary' = primary)
  <1>1. o.primary \in Reason \cup Refusal \cup {"none"} /\ o.outcome \in Outcome /\ o.closeFailed \in BOOLEAN
    BY ObservationShape
  <1>2. AddFailure(o.primary)
    BY DEF Accept
  <1>3. closeFailed' \in BOOLEAN
    BY <1>1 DEF Accept, ParentTyped
  <1>. QED BY <1>1, <1>2, <1>3, AddFailureTyped DEF Accept, ParentTyped

\* A handler of a message of the child leaves the parent typed (onMessage).
LEMMA OnMessageTyped ==
  ASSUME TypeOK, OnMessage
  PROVE  TypeOK'
  <1>. USE Typing
  <1>. HIDE DEF ChildMessage, ParentMessage, Observation
  <1>1. toParent \in Seq(ChildMessage) /\ toParent # <<>> /\ toParent' = Tail(toParent)
    BY DEF OnMessage, ToParentTyped
  <1>. DEFINE m == Head(toParent)
  <1>2. m \in ChildMessage /\ ToParentTyped'
    BY <1>1, ReadMessages DEF ToParentTyped
  <1>3. PgTypeOK' /\ ChildTyped' /\ EnvTyped' /\ UNCHANGED <<call, exited, disconnected, late>>
    BY TypedFrame DEF OnMessage
  <1>. HIDE DEF m
  <1>. SUFFICES ParentTyped' /\ ToChildTyped'
    BY <1>2, <1>3
  <1>. USE <1>3
  <1>4. pendingSends \in Nat /\ "DEADLINE_EXCEEDED" \in Reason /\ "DATABASE_FAILURE" \in Reason
    BY DEF ParentTyped, Reason
  <1>5. CASE Stop("DATABASE_FAILURE", pendingSends) /\ UNCHANGED <<protocolVars, outcome>>
    BY <1>4, <1>5, StopTyped DEF ParentTyped
  <1>6. CASE m.type = "ready" /\ OnReady
    <2>0. ready' \in BOOLEAN /\ UNCHANGED <<phase, requested, permitted, terminal, childClosing, outcome>>
      BY <1>6 DEF OnReady, ParentTyped
    <2>1. CASE UNCHANGED <<failureVars, closeVars, toChild, pendingSends>>
      BY <2>0, <2>1, TypedFrame DEF ParentTyped
    <2>2. CASE Stop("DEADLINE_EXCEEDED", pendingSends)
      BY <2>0, <2>2, <1>4, StopTyped DEF ParentTyped
    <2>3. CASE SendToChild([type |-> "start"]) /\ UNCHANGED <<failureVars, closeVars>>
      BY <2>0, <2>3, SendToChildTyped, MessageTypes DEF ParentTyped
    <2>. QED BY <1>6, <2>1, <2>2, <2>3 DEF OnReady
  <1>7. CASE m.type = "phase" /\ OnPhase(m)
    <2>1. phase' \in Phase
      BY <1>2, <1>7, ChildMessageShape DEF OnPhase
    <2>. QED BY <1>7, <2>1, TypedFrame DEF OnPhase, ParentTyped
  <1>8. CASE m.type = "request-drop" /\ OnRequestDrop
    <2>0. /\ requested' \in BOOLEAN /\ permitted' \in BOOLEAN /\ outcome' \in Outcome
          /\ UNCHANGED <<phase, ready, terminal, childClosing>>
      BY <1>8 DEF OnRequestDrop, ParentTyped, Outcome
    <2>1. CASE UNCHANGED <<failureVars, closeVars, toChild, pendingSends>>
      BY <2>0, <2>1, TypedFrame DEF ParentTyped
    <2>2. CASE Stop("DEADLINE_EXCEEDED", pendingSends)
      BY <2>0, <2>2, <1>4, StopTyped DEF ParentTyped
    <2>3. CASE SendToChild([type |-> "permit-drop"]) /\ UNCHANGED <<failureVars, closeVars>>
      BY <2>0, <2>3, SendToChildTyped, MessageTypes DEF ParentTyped
    <2>. QED BY <1>8, <2>1, <2>2, <2>3 DEF OnRequestDrop
  <1>9. CASE m.type = "closing" /\ OnClosing(m.obs)
    <2>1. m.obs \in Observation
      BY <1>2, <1>9, ChildMessageShape
    <2>2. Accept(m.obs) /\ BeginClose /\ SendToChild([type |-> "close"]) /\ childClosing' = {m.obs}
          /\ UNCHANGED <<phase, ready, requested, permitted, terminal>>
      BY <1>9 DEF OnClosing
    <2>3. ToChildTyped' /\ pendingSends' \in Nat
      BY <2>2, SendToChildTyped, MessageTypes
    <2>. QED BY <2>1, <2>2, <2>3, AcceptTyped, BeginCloseTyped DEF ParentTyped
  <1>10. CASE m.type = "result" /\ OnResult(m.obs)
    <2>1. m.obs \in Observation
      BY <1>2, <1>10, ChildMessageShape
    <2>2. Accept(m.obs) /\ BeginClose /\ SendToChild([type |-> "finish"]) /\ terminal' = TRUE
          /\ UNCHANGED <<phase, ready, requested, permitted, childClosing>>
      BY <1>10 DEF OnResult
    <2>3. ToChildTyped' /\ pendingSends' \in Nat
      BY <2>2, SendToChildTyped, MessageTypes
    <2>. QED BY <2>1, <2>2, <2>3, AcceptTyped, BeginCloseTyped DEF ParentTyped
  <1>. QED BY <1>5, <1>6, <1>7, <1>8, <1>9, <1>10 DEF OnMessage, m

\* The fault budget stays a number.
LEMMA FaultTyped ==
  ASSUME EnvTyped, Fault \/ NoFault
  PROVE  faults' \in Nat
  BY DEF EnvTyped, Fault, NoFault

\* The other handlers of the parent leave everything typed (stop, onExit,
\* onDisconnect, onClose, the timers and the callback of child.send).
LEMMA ParentTypedStep ==
  ASSUME TypeOK, ParentStep \/ ParentEvent
  PROVE  TypeOK'
  <1>. USE Typing
  <1>. HIDE DEF ChildMessage, ParentMessage, Observation
  <1>0. /\ pendingSends \in Nat /\ {"CANCELLED", "DEADLINE_EXCEEDED", "DATABASE_FAILURE"} \subseteq Reason
        /\ "DATABASE_FAILURE" \in Reason \cup Refusal \cup {"none"}
        /\ call \in {"pending", "settled", "crashed"}
    BY DEF ParentTyped, Reason
  <1>1. CASE OnMessage
    BY <1>1, OnMessageTyped
  <1>2. CASE WorkTimer \/ Abort
    <2>1. PICK code \in Reason : Stop(code, pendingSends)
      BY <1>0, <1>2 DEF WorkTimer, Abort, StopOnly
    <2>2. UNCHANGED <<pgVars, childVars, envVars, connected, toParent, protocolVars, outcome, disposalVars, late>>
      BY <1>2 DEF WorkTimer, Abort, StopOnly
    <2>3. ParentTyped' /\ ToChildTyped'
      BY <1>0, <2>1, <2>2, StopTyped DEF ParentTyped
    <2>. QED BY <2>2, <2>3, TypedFrame
  <1>3. CASE DeadlinePasses
    <2>1. ParentTyped'
      BY <1>3 DEF DeadlinePasses, ParentTyped
    <2>. QED BY <1>3, <2>1, TypedFrame DEF DeadlinePasses
  <1>4. CASE SendSettles
    <2>0. UNCHANGED <<pgVars, protocolVars, outcome, exited, disconnected, late, toParent, connected,
                      childVars, dropped, outside>>
          /\ call' \in {"pending", "settled", "crashed"} /\ faults' \in Nat
      BY <1>0, <1>4, FaultTyped DEF SendSettles, Conclude
    <2>1. CASE pendingSends' = pendingSends - 1 /\ UNCHANGED <<failureVars, closeVars, toChild>>
      <3>1. pendingSends' \in Nat
        BY <1>0, <1>4, <2>1 DEF SendSettles
      <3>2. ParentTyped'
        BY <2>0, <2>1, <3>1 DEF ParentTyped
      <3>3. EnvTyped'
        BY <2>0 DEF EnvTyped
      <3>. QED BY <2>0, <2>1, <3>2, <3>3, TypedFrame
    <2>2. CASE Stop("DATABASE_FAILURE", pendingSends - 1)
      <3>0. pendingSends - 1 \in Nat
        BY <1>0, <1>4 DEF SendSettles
      <3>1. ParentTyped' /\ ToChildTyped'
        BY <1>0, <2>0, <2>2, <3>0, StopTyped DEF ParentTyped
      <3>2. EnvTyped'
        BY <2>0 DEF EnvTyped
      <3>. QED BY <2>0, <3>1, <3>2, TypedFrame
    <2>. QED BY <1>4, <2>1, <2>2 DEF SendSettles
  <1>5. CASE ForceTimer \/ FinalTimer
    <2>2. condemned' \in BOOLEAN /\ closeFailed' \in BOOLEAN
      <3>0. condemned \in BOOLEAN /\ closeFailed \in BOOLEAN
        BY DEF ParentTyped, ChildTyped
      <3>1. CASE ForceTimer
        <4>1. CASE exited \/ SpawnFailed
          <5>1. UNCHANGED <<closeFailed, condemned>>
            BY <3>1, <4>1 DEF ForceTimer, ForceChild
          <5>. QED BY <3>0, <5>1
        <4>2. CASE ~(exited \/ SpawnFailed)
          BY <3>1, <4>2 DEF ForceTimer, ForceChild
        <4>. QED BY <4>1, <4>2
      <3>2. CASE FinalTimer
        BY <3>0, <3>2 DEF FinalTimer
      <3>. QED BY <1>5, <3>1, <3>2
    <2>1. ParentTyped'
      BY <1>5, <2>2 DEF ForceTimer, FinalTimer, ParentTyped
    <2>3. ChildTyped'
      BY <1>5, <2>2 DEF ForceTimer, FinalTimer, ChildTyped
    <2>. QED BY <1>5, <2>1, <2>3, TypedFrame DEF ForceTimer, FinalTimer
  <1>6. CASE OnExit
    <2>1. primary' \in Reason \cup Refusal \cup {"none"}
      BY <1>0, <1>6, AddFailureTyped DEF OnExit, ParentTyped
    <2>2. closeFailed' \in BOOLEAN
      BY <1>6 DEF OnExit, ParentTyped
    <2>3. call' \in {"pending", "settled", "crashed"}
      BY <1>0, <1>6 DEF OnExit, Conclude
    <2>4. BeginClose
      BY <1>6 DEF OnExit
    <2>5. ParentTyped'
      BY <1>6, <2>1, <2>2, <2>3, <2>4, BeginCloseTyped DEF OnExit, ParentTyped
    <2>. QED BY <1>6, <2>5, TypedFrame DEF OnExit
  <1>7. CASE OnDisconnect
    <2>1. primary' \in Reason \cup Refusal \cup {"none"}
      BY <1>0, <1>7, AddFailureTyped DEF OnDisconnect, ParentTyped
    <2>2. closeFailed' \in BOOLEAN
      BY <1>7 DEF OnDisconnect, ParentTyped
    <2>3. call' \in {"pending", "settled", "crashed"}
      BY <1>0, <1>7 DEF OnDisconnect, Conclude
    <2>4. closing' \in BOOLEAN /\ closeTimer' \in {"off", "graceful", "final", "done"}
      BY <1>7, BeginCloseTyped DEF OnDisconnect, ParentTyped
    <2>5. ParentTyped'
      BY <1>7, <2>1, <2>2, <2>3, <2>4 DEF OnDisconnect, ParentTyped
    <2>. QED BY <1>7, <2>5, TypedFrame DEF OnDisconnect
  <1>8. CASE OnClose
    <2>1. call' \in {"pending", "settled", "crashed"}
      BY <1>0, <1>8 DEF OnClose, Conclude
    <2>2. ParentTyped' /\ ChildTyped'
      BY <1>8, <2>1 DEF OnClose, ParentTyped, ChildTyped
    <2>. QED BY <1>8, <2>2, TypedFrame DEF OnClose
  <1>9. CASE SpawnFails
    <2>1. Stop("DATABASE_FAILURE", pendingSends) /\ faults' \in Nat
      BY <1>9, FaultTyped DEF SpawnFails
    <2>2. ParentTyped' /\ ToChildTyped'
      BY <1>0, <1>9, <2>1, StopTyped DEF SpawnFails, ParentTyped
    <2>3. ChildTyped' /\ EnvTyped'
      BY <1>9, <2>1 DEF SpawnFails, ChildTyped, EnvTyped
    <2>. QED BY <1>9, <2>2, <2>3, TypedFrame DEF SpawnFails
  <1>10. CASE ParentCrash
    <2>1. faults' \in Nat
      BY <1>10, FaultTyped DEF ParentCrash
    <2>2. ParentTyped'
      BY <1>10 DEF ParentCrash, ParentTyped
    <2>3. EnvTyped'
      BY <1>10, <2>1 DEF ParentCrash, EnvTyped
    <2>. QED BY <1>10, <2>2, <2>3, TypedFrame DEF ParentCrash
  <1>. QED BY <1>1, <1>2, <1>3, <1>4, <1>5, <1>6, <1>7, <1>8, <1>9, <1>10 DEF ParentStep, ParentEvent

\* Dispatching a statement keeps its records typed (TestDatabaseSession.query).
LEMMA SendTyped ==
  ASSUME PgTypeOK, NEW s \in Session, NEW kind \in StmtKind, NEW n \in Name, NEW o \in Oid \cup {NoOid},
         Send(s, kind, n, o)
  PROVE  stmt' \in [Session -> Statement] /\ rows' \in [Session -> SUBSET Row]
         /\ answer' \in [Session -> {"none", "pending", "ok", "refused", "error"}]
  BY DEF PgTypeOK, Send, Statement

\* The server's part of the types when the client only sends.
LEMMA SentTyped ==
  ASSUME PgTypeOK, UNCHANGED <<serverVars, conn>>,
         \/ UNCHANGED stmtVars
         \/ \E kind \in StmtKind, o \in Oid \cup {NoOid} : Send(Admin, kind, Target, o)
  PROVE  PgTypeOK'
  <1>1. CASE UNCHANGED stmtVars
    BY <1>1, TypedFrame
  <1>2. ASSUME NEW kind \in StmtKind, NEW o \in Oid \cup {NoOid}, Send(Admin, kind, Target, o)
        PROVE  PgTypeOK'
    <2>1. stmt' \in [Session -> Statement] /\ rows' \in [Session -> SUBSET Row]
          /\ answer' \in [Session -> {"none", "pending", "ok", "refused", "error"}]
      BY <1>2, SendTyped, AdminSession, RecoveryAssumption
    <2>. QED BY <2>1 DEF PgTypeOK
  <1>. QED BY <1>1, <1>2

\* What the child says is a sequence of its messages (send of the child).
LEMMA ChildSaysTyped ==
  ASSUME ToParentTyped, NEW msgs \in Seq(ChildMessage), ChildSays(msgs)
  PROVE  ToParentTyped'
  <1>. HIDE DEF ChildMessage
  <1>. QED BY ConcatProperties DEF ToParentTyped, ChildSays

\* Stopping the child's work (stop, emergency).
LEMMA ChildStopTyped ==
  ASSUME ChildTyped, NEW reason \in Reason, ChildStop(reason)
  PROVE  /\ stopReason' \in Reason /\ stopReason' \in {reason, stopReason}
         /\ session' \in {"unused", "open", "broken", "disposed", "stuck"}
  BY DEF ChildTyped, ChildStop

\* Reporting the end of the work (finishWork).
LEMMA FinishWorkTyped ==
  ASSUME ToParentTyped, NEW o \in Observation, FinishWork(o)
  PROVE  ToParentTyped' /\ observation' \in Observation /\ cpc' = "allocation"
  <1>. HIDE DEF ChildMessage, Observation
  <1>1. [type |-> "closing", obs |-> o] \in ChildMessage
    BY MessageTypes
  <1>2. <<[type |-> "closing", obs |-> o]>> \in Seq(ChildMessage)
    BY <1>1
  <1>. QED BY <1>2, ChildSaysTyped DEF FinishWork

\* The phase of a failure is one of the engine's phases.
LEMMA PhaseAtTyped == PhaseAt \in Phase
  BY DEF PhaseAt, Phase

\* A successful end of the work (executeRecovery).
LEMMA EndsTyped ==
  ASSUME ToParentTyped, NEW o \in Outcome, Ends(o)
  PROVE  ToParentTyped' /\ observation' \in Observation /\ cpc' = "allocation"
         /\ observation' = [outcome |-> o, primary |-> "none", at |-> PhaseAt, closeFailed |-> FALSE]
  <1>1. [outcome |-> o, primary |-> "none", at |-> PhaseAt, closeFailed |-> FALSE] \in Observation
    BY PhaseAtTyped, ObservationShape
  <1>. QED BY <1>1, FinishWorkTyped DEF Ends, FinishWork

\* What a failed work reports.
Failure(code) ==
  [outcome |-> IF cpc \in {"drop", "verify"} THEN "unknown" ELSE "not-attempted",
   primary |-> IF stopReason = "none" THEN code ELSE stopReason,
   at |-> PhaseAt, closeFailed |-> FALSE]

\* A failed end of the work (the catch of executeRecovery).
LEMMA FailsTyped ==
  ASSUME ToParentTyped, ChildTyped, NEW code \in Reason \cup Refusal, Fails(code)
  PROVE  /\ ToParentTyped' /\ observation' \in Observation /\ cpc' = "allocation"
         /\ observation' = Failure(code) /\ FinishWork(Failure(code))
         /\ Failure(code).primary # "none"
  <1>1. (IF cpc \in {"drop", "verify"} THEN "unknown" ELSE "not-attempted") \in Outcome
    BY DEF Outcome
  <1>2. /\ (IF stopReason = "none" THEN code ELSE stopReason) \in Reason \cup Refusal \cup {"none"}
        /\ (IF stopReason = "none" THEN code ELSE stopReason) # "none"
    BY DEF ChildTyped, Reason, Refusal
  <1>3. Failure(code) \in Observation /\ Failure(code).primary # "none"
    BY <1>1, <1>2, PhaseAtTyped, ObservationShape DEF Failure
  <1>4. FinishWork(Failure(code))
    BY DEF Fails, Failure
  <1>. QED BY <1>3, <1>4, FinishWorkTyped DEF FinishWork

\* The next statement of the engine (the awaits of executeRecovery).
LEMMA AsksTyped ==
  ASSUME PgTypeOK, ToParentTyped, ChildTyped, UNCHANGED <<serverVars, conn>>,
         NEW p \in QueryPc, NEW kind \in StmtKind, NEW msgs \in Seq(ChildMessage), Asks(p, kind, msgs)
  PROVE  /\ PgTypeOK' /\ ToParentTyped' /\ observation' \in Observation
         /\ cpc' \in EnginePc /\ session' = session
  <1>1. (IF kind = "inspect" THEN Acquired ELSE NoOid) \in Oid \cup {NoOid}
    BY RecoveryAssumption
  <1>2. PgTypeOK'
    BY <1>1, SentTyped DEF Asks
  <1>3. ToParentTyped'
    BY ChildSaysTyped DEF Asks
  <1>. QED BY <1>2, <1>3 DEF Asks, ChildTyped, EnginePc

\* The sequences of messages the engine says on the way to a statement.
LEMMA PhaseMessagesTyped ==
  /\ <<>> \in Seq(ChildMessage)
  /\ \A p \in Phase : <<PhaseMessage(p)>> \in Seq(ChildMessage)
  /\ <<PhaseMessage("drop"), [type |-> "request-drop"]>> \in Seq(ChildMessage)
  /\ \A p \in Phase, o \in Observation :
       <<PhaseMessage(p), [type |-> "closing", obs |-> o]>> \in Seq(ChildMessage)
  <1>. HIDE DEF ChildMessage, Observation
  <1>1. /\ \A p \in Phase : PhaseMessage(p) \in ChildMessage
        /\ [type |-> "request-drop"] \in ChildMessage
        /\ \A o \in Observation : [type |-> "closing", obs |-> o] \in ChildMessage
        /\ "drop" \in Phase
    BY MessageTypes DEF Phase
  <1>. HIDE DEF Phase, PhaseMessage
  <1>. QED BY <1>1

\* The state a step of the engine sets itself, apart from its frame.
EngineTyped ==
  /\ PgTypeOK /\ ToParentTyped
  /\ observation \in Observation
  /\ cpc \in EnginePc \cup ClosingPc \cup {"idle", "failed"}
  /\ session \in {"unused", "open", "broken", "disposed", "stuck"}
  /\ faults \in Nat

\* Refusing to go on (the errors executeRecovery throws itself).
LEMMA RefusesTyped ==
  ASSUME TypeOK, NEW code \in Reason \cup Refusal, Refuses(code), UNCHANGED <<serverVars, conn>>, Fault \/ NoFault
  PROVE  EngineTyped'
  <1>1. ToParentTyped' /\ observation' \in Observation /\ cpc' = "allocation"
    BY FailsTyped, Typing DEF Refuses
  <1>2. faults' \in Nat
    BY FaultTyped, Typing
  <1>3. PgTypeOK'
    BY SentTyped, Typing DEF Refuses
  <1>. QED BY <1>1, <1>2, <1>3, Typing DEF Refuses, EngineTyped, ChildTyped, ClosingPc

\* Going on with a statement (executeRecovery).
LEMMA AskingTyped ==
  ASSUME TypeOK, UNCHANGED <<serverVars, conn>>, Fault \/ NoFault,
         NEW p \in QueryPc, NEW kind \in StmtKind, NEW msgs \in Seq(ChildMessage), Asks(p, kind, msgs)
  PROVE  EngineTyped'
  <1>1. PgTypeOK' /\ ToParentTyped' /\ observation' \in Observation /\ cpc' \in EnginePc /\ session' = session
    BY AsksTyped, Typing
  <1>2. faults' \in Nat
    BY FaultTyped, Typing
  <1>. QED BY <1>1, <1>2, Typing DEF EngineTyped, ChildTyped

\* Ending without another statement (executeRecovery).
LEMMA EndingTyped ==
  ASSUME TypeOK, UNCHANGED <<serverVars, conn, stmtVars>>, Fault \/ NoFault,
         NEW o \in Observation, FinishWork(o),
         session' \in {"unused", "open", "broken", "disposed", "stuck"}
  PROVE  EngineTyped'
  <1>1. ToParentTyped' /\ observation' \in Observation /\ cpc' = "allocation"
    BY FinishWorkTyped, Typing
  <1>2. faults' \in Nat
    BY FaultTyped, Typing
  <1>3. PgTypeOK'
    BY SentTyped, Typing
  <1>. QED BY <1>1, <1>2, <1>3 DEF EngineTyped, ClosingPc

\* A step of the engine and its frame.
LEMMA EngineFrameTyped ==
  ASSUME TypeOK, EngineTyped', EngineFrame
  PROVE  TypeOK'
  <1>1. ParentTyped' /\ ToChildTyped'
    BY TypedFrame, Typing DEF EngineFrame
  <1>2. ChildTyped' /\ EnvTyped'
    BY Typing DEF EngineFrame, ChildTyped, EnvTyped, EngineTyped
  <1>. QED BY <1>1, <1>2, Typing DEF EngineTyped

\* The steps of the engine between two awaits (executeRecovery).
LEMMA EngineTypedStep ==
  ASSUME TypeOK, EngineStep
  PROVE  TypeOK'
  <1>. HIDE DEF ChildMessage, Observation
  <1>1. CASE ImportFails
    <2>1. Emergency /\ Fault /\ cpc' = "failed" /\ stopReason' \in Reason /\ "DATABASE_FAILURE" \in Reason
          /\ session' \in {"unused", "open", "broken", "disposed", "stuck"}
      BY <1>1, ChildStopTyped, Typing DEF ImportFails, Emergency, Reason
    <2>2. ChildTyped' /\ EnvTyped'
      BY <1>1, <2>1, Typing, FaultTyped DEF ImportFails, Emergency, ChildTyped, EnvTyped
    <2>. QED BY <1>1, <2>2, TypedFrame, Typing DEF ImportFails
  <1>2. CASE SessionCreated
    <2>1. PgTypeOK'
      BY <1>2, SentTyped, Typing DEF SessionCreated, EngineFrame, StmtKind
    <2>2. EngineTyped'
      BY <1>2, <2>1, TypedFrame, Typing
         DEF SessionCreated, EngineTyped, EnvTyped, ChildTyped, EnginePc, QueryPc
    <2>. QED BY <1>2, <2>2, EngineFrameTyped DEF SessionCreated
  <1>3. CASE IdentityRead
    <2>1. <<PhaseMessage("lock")>> \in Seq(ChildMessage)
      BY PhaseMessagesTyped DEF Phase
    <2>2. CASE Asks("lock", "lock", <<PhaseMessage("lock")>>) /\ NoFault
      BY <1>3, <2>1, <2>2, AskingTyped, EngineFrameTyped DEF IdentityRead, EngineFrame, QueryPc, StmtKind
    <2>3. CASE Refuses("IDENTITY_MISMATCH") /\ Fault
      BY <1>3, <2>3, RefusesTyped, EngineFrameTyped DEF IdentityRead, EngineFrame, Refusal
    <2>. QED BY <1>3, <2>2, <2>3 DEF IdentityRead
  <1>4. CASE LockGranted
    <2>1. <<PhaseMessage("inspect")>> \in Seq(ChildMessage)
      BY PhaseMessagesTyped DEF Phase
    <2>. QED BY <1>4, <2>1, AskingTyped, EngineFrameTyped DEF LockGranted, EngineFrame, QueryPc, StmtKind
  <1>5. CASE LockBusy
    BY <1>5, RefusesTyped, EngineFrameTyped DEF LockBusy, EngineFrame, Refusal
  <1>6. CASE Inspected
    <2>1. CASE Ends("already-absent") /\ UNCHANGED <<stmtVars, session>> /\ NoFault
      <3>1. ToParentTyped' /\ observation' \in Observation /\ cpc' = "allocation" /\ faults' \in Nat
        BY <2>1, EndsTyped, FaultTyped, Typing DEF Outcome
      <3>2. PgTypeOK'
        BY <1>6, <2>1, TypedFrame, Typing DEF Inspected, EngineFrame
      <3>3. EngineTyped'
        BY <2>1, <3>1, <3>2, Typing DEF EngineTyped, ChildTyped, ClosingPc
      <3>. QED BY <1>6, <3>3, EngineFrameTyped DEF Inspected
    <2>2. CASE Asks("recheck", "inspect", <<>>) /\ NoFault
      BY <1>6, <2>2, PhaseMessagesTyped, AskingTyped, EngineFrameTyped
         DEF Inspected, EngineFrame, QueryPc, StmtKind
    <2>3. CASE Refuses("OWNERSHIP_MISMATCH") /\ Fault
      BY <1>6, <2>3, RefusesTyped, EngineFrameTyped DEF Inspected, EngineFrame, Refusal
    <2>4. CASE Refuses("IDENTITY_MISMATCH") /\ NoFault
      BY <1>6, <2>4, RefusesTyped, EngineFrameTyped DEF Inspected, EngineFrame, Refusal
    <2>. QED BY <1>6, <2>1, <2>2, <2>3, <2>4 DEF Inspected
  <1>7. CASE Rechecked
    <2>0. UNCHANGED <<stmtVars, session>> /\ faults' \in Nat /\ PgTypeOK'
      BY <1>7, FaultTyped, Typing, TypedFrame DEF Rechecked, EngineFrame
    <2>1. CASE /\ cpc' = "permit"
               /\ ChildSays(<<PhaseMessage("drop"), [type |-> "request-drop"]>>)
               /\ UNCHANGED observation
      <3>1. ToParentTyped'
        BY <2>1, ChildSaysTyped, PhaseMessagesTyped, Typing
      <3>2. EngineTyped'
        BY <2>0, <2>1, <3>1, Typing DEF EngineTyped, ChildTyped, EnginePc
      <3>. QED BY <1>7, <3>2, EngineFrameTyped DEF Rechecked
    <2>2. CASE LET o == [NotAttempted EXCEPT !.primary = "DATABASE_FAILURE", !.at = "drop"] IN
                 /\ observation' = o /\ cpc' = "allocation"
                 /\ ChildSays(<<PhaseMessage("drop"), [type |-> "closing", obs |-> o]>>)
      <3>. DEFINE o == [NotAttempted EXCEPT !.primary = "DATABASE_FAILURE", !.at = "drop"]
      <3>1. o \in Observation
        BY DEF Observation, NotAttempted, Outcome, Phase, Reason
      <3>2. observation' = o /\ cpc' = "allocation"
            /\ ChildSays(<<PhaseMessage("drop"), [type |-> "closing", obs |-> o]>>)
        BY <2>2
      <3>. HIDE DEF o
      <3>3. ToParentTyped'
        BY <3>1, <3>2, ChildSaysTyped, PhaseMessagesTyped, Typing DEF Phase
      <3>4. EngineTyped'
        BY <2>0, <3>1, <3>2, <3>3, Typing DEF EngineTyped, ChildTyped, ClosingPc
      <3>. QED BY <1>7, <3>4, EngineFrameTyped DEF Rechecked
    <2>3. CASE Fails("IDENTITY_MISMATCH")
      BY <1>7, <2>3, RefusesTyped, EngineFrameTyped DEF Rechecked, Refuses, EngineFrame, Refusal
    <2>. QED BY <1>7, <2>1, <2>2, <2>3 DEF Rechecked
  <1>8. CASE Confirmed
    <2>1. CASE Asks("drop", "drop", <<>>)
      BY <1>8, <2>1, PhaseMessagesTyped, AskingTyped, EngineFrameTyped
         DEF Confirmed, EngineFrame, QueryPc, StmtKind
    <2>2. CASE Refuses("IDENTITY_MISMATCH")
      BY <1>8, <2>2, RefusesTyped, EngineFrameTyped DEF Confirmed, EngineFrame, Refusal
    <2>3. CASE /\ FinishWork([outcome |-> "unknown", primary |-> "DEADLINE_EXCEEDED", at |-> "drop",
                              closeFailed |-> FALSE])
               /\ session' = "broken" /\ UNCHANGED stmtVars
      <3>1. [outcome |-> "unknown", primary |-> "DEADLINE_EXCEEDED", at |-> "drop",
             closeFailed |-> FALSE] \in Observation
        BY ObservationShape DEF Outcome, Reason, Phase
      <3>2. EngineTyped'
        BY <1>8, <2>3, <3>1, EndingTyped DEF Confirmed, EngineFrame
      <3>. QED BY <1>8, <3>2, EngineFrameTyped DEF Confirmed
    <2>. QED BY <1>8, <2>1, <2>2, <2>3 DEF Confirmed
  <1>9. CASE Dropped
    <2>1. <<PhaseMessage("verify")>> \in Seq(ChildMessage)
      BY PhaseMessagesTyped DEF Phase
    <2>. QED BY <1>9, <2>1, AskingTyped, EngineFrameTyped DEF Dropped, EngineFrame, QueryPc, StmtKind
  <1>10. CASE Verified
    <2>1. CASE Ends("removed") /\ UNCHANGED <<stmtVars, session>>
      <3>1. ToParentTyped' /\ observation' \in Observation /\ cpc' = "allocation" /\ faults' \in Nat
        BY <1>10, <2>1, EndsTyped, FaultTyped, Typing DEF Outcome, Verified
      <3>2. PgTypeOK'
        BY <1>10, <2>1, TypedFrame, Typing DEF Verified, EngineFrame
      <3>3. EngineTyped'
        BY <2>1, <3>1, <3>2, Typing DEF EngineTyped, ChildTyped, ClosingPc
      <3>. QED BY <1>10, <3>3, EngineFrameTyped DEF Verified
    <2>2. CASE Refuses("IDENTITY_MISMATCH")
      BY <1>10, <2>2, RefusesTyped, EngineFrameTyped DEF Verified, EngineFrame, Refusal
    <2>. QED BY <1>10, <2>1, <2>2 DEF Verified
  <1>11. CASE EngineFails \/ Interrupted
    <2>1. PICK code \in Reason : Fails(code)
      BY <1>11 DEF EngineFails, Interrupted, Reason
    <2>2. ToParentTyped' /\ observation' \in Observation /\ cpc' = "allocation"
      BY <2>1, FailsTyped, Typing
    <2>3. session' \in {"unused", "open", "broken", "disposed", "stuck"} /\ UNCHANGED stmtVars /\ EngineFrame
      BY <1>11, Typing DEF EngineFails, Interrupted, ChildTyped
    <2>4. faults' \in Nat
      BY <1>11, FaultTyped, Typing DEF EngineFails, Interrupted, EnvTyped
    <2>5. PgTypeOK'
      BY <2>3, TypedFrame, Typing DEF EngineFrame
    <2>6. EngineTyped'
      BY <2>2, <2>3, <2>4, <2>5 DEF EngineTyped, ClosingPc
    <2>. QED BY <2>3, <2>6, EngineFrameTyped
  <1>12. CASE SessionClosed
    <2>1. PICK end \in {"closed", "failed", "unconfirmed"} :
            /\ session' = IF session = "unused" THEN "unused"
                          ELSE IF end = "unconfirmed" THEN "stuck" ELSE "disposed"
            /\ IF end = "closed" THEN NoFault ELSE Fault
            /\ observation' = [observation EXCEPT !.closeFailed = end # "closed"]
            /\ ChildSays(<<[type |-> "result", obs |-> observation']>>)
      BY <1>12 DEF SessionClosed
    <2>2. observation' \in Observation
      BY <2>1, ClosedObservation, Typing DEF ChildTyped
    <2>3. <<[type |-> "result", obs |-> observation']>> \in Seq(ChildMessage)
      BY <2>2, MessageTypes
    <2>4. ToParentTyped' /\ faults' \in Nat
      BY <2>1, <2>3, ChildSaysTyped, FaultTyped, Typing
    <2>5. ChildTyped' /\ EnvTyped'
      BY <1>12, <2>1, <2>2, <2>4, Typing DEF SessionClosed, ChildTyped, EnvTyped, ClosingPc
    <2>. QED BY <1>12, <2>4, <2>5, TypedFrame, Typing DEF SessionClosed
  <1>. QED BY <1>1, <1>2, <1>3, <1>4, <1>5, <1>6, <1>7, <1>8, <1>9, <1>10, <1>11, <1>12 DEF EngineStep

\* The handlers of the child and what happens to it (onMessage, onDisconnect,
\* the work timer, the exit and the kill).
LEMMA ChildTypedStep ==
  ASSUME TypeOK, ChildHandler \/ ChildEvent
  PROVE  TypeOK'
  <1>. HIDE DEF ChildMessage, ParentMessage, Observation
  <1>. USE Typing
  <1>0. "DATABASE_FAILURE" \in Reason /\ "DEADLINE_EXCEEDED" \in Reason
    BY DEF Reason
  <1>1. CASE ChildBoots
    <2>1. ToParentTyped'
      <3>1. <<[type |-> "ready"]>> \in Seq(ChildMessage)
        BY MessageTypes
      <3>. QED BY <1>1, <3>1, ChildSaysTyped DEF ChildBoots
    <2>2. ChildTyped'
      <3>1. CASE UNCHANGED stopVars
        BY <1>1, <3>1 DEF ChildBoots, ChildTyped
      <3>2. CASE Emergency
        BY <1>0, <1>1, <3>2, ChildStopTyped DEF ChildBoots, Emergency, ChildTyped
      <3>. QED BY <1>1, <3>1, <3>2 DEF ChildBoots
    <2>. QED BY <1>1, <2>1, <2>2, TypedFrame DEF ChildBoots
  <1>2. CASE ChildReads
    <2>. DEFINE m == Head(toChild)
    <2>1. m \in ParentMessage /\ ToChildTyped'
      BY <1>2, ReadMessages, NoMessages DEF ChildReads, ToChildTyped
    <2>2. UNCHANGED <<parentVars, child, childLate, envVars>>
      BY <1>2 DEF ChildReads
    <2>3. /\ (m.type = "start" /\ OnStart) \/ (m.type = "permit-drop" /\ OnPermit)
             \/ (m.type = "cancel" /\ OnCancel(m.reason)) \/ (m.type = "close" /\ OnCloseMessage)
             \/ (m.type = "finish" /\ OnFinish)
      BY <1>2 DEF ChildReads
    <2>. HIDE DEF m
    <2>4. CASE OnStart
      <3>1. ChildTyped'
        BY <1>0, <2>2, <2>4, ChildStopTyped DEF OnStart, Emergency, ChildTyped, EnginePc
      <3>. QED BY <2>1, <2>2, <2>4, <3>1, TypedFrame DEF OnStart
    <2>5. CASE OnPermit
      <3>1. PgTypeOK'
        BY <2>5, SentTyped, RecoveryAssumption DEF OnPermit, StmtKind
      <3>2. ChildTyped'
        BY <1>0, <2>2, <2>5, ChildStopTyped DEF OnPermit, Emergency, ChildTyped, EnginePc, QueryPc
      <3>. QED BY <2>1, <2>2, <2>5, <3>1, <3>2, TypedFrame DEF OnPermit
    <2>6. CASE m.type = "cancel" /\ OnCancel(m.reason)
      <3>1. m.reason \in Reason
        BY <2>1, <2>6, ParentMessageShape
      <3>2. ChildStop(m.reason) /\ allocated' = TRUE /\ UNCHANGED <<pgVars, connected, condemned, closeReceived>>
        BY <2>6 DEF OnCancel
      <3>3. ToParentTyped' /\ observation' \in Observation
            /\ cpc' \in EnginePc \cup ClosingPc \cup {"idle", "failed"}
        <4>1. CASE FinishWork(NotAttempted)
          BY <4>1, FinishWorkTyped, ObservationShape DEF ClosingPc
        <4>2. CASE UNCHANGED <<engineVars, toParent>>
          BY <4>2, TypedFrame DEF ChildTyped
        <4>. QED BY <2>6, <4>1, <4>2 DEF OnCancel
      <3>4. ChildTyped'
        BY <2>2, <3>1, <3>2, <3>3, ChildStopTyped DEF ChildTyped
      <3>. QED BY <2>1, <2>2, <3>2, <3>3, <3>4, TypedFrame
    <2>7. CASE OnCloseMessage
      <3>1. ChildTyped'
        BY <1>0, <2>2, <2>7, ChildStopTyped DEF OnCloseMessage, Emergency, ChildTyped
      <3>. QED BY <2>1, <2>2, <2>7, <3>1, TypedFrame DEF OnCloseMessage
    <2>8. CASE OnFinish
      <3>1. ChildTyped'
        BY <1>0, <2>2, <2>8, ChildStopTyped DEF OnFinish, Emergency, ChildTyped, ClosingPc
      <3>2. EnvTyped'
        BY <2>2, <2>8 DEF OnFinish, EnvTyped
      <3>. QED BY <2>1, <2>2, <2>8, <3>1, <3>2, TypedFrame DEF OnFinish
    <2>. QED BY <2>3, <2>4, <2>5, <2>6, <2>7, <2>8
  <1>3. CASE ChildDisconnects \/ ChildWorkTimer
    <2>1. PICK reason \in Reason : ChildStop(reason)
      BY <1>0, <1>3 DEF ChildDisconnects, ChildWorkTimer, Emergency
    <2>2. ChildTyped'
      BY <1>3, <2>1, ChildStopTyped DEF ChildDisconnects, ChildWorkTimer, Emergency, ChildTyped
    <2>. QED BY <1>3, <2>2, TypedFrame DEF ChildDisconnects, ChildWorkTimer
  <1>4. CASE ChildExits \/ ChildDeadlinePasses \/ SessionLost
    <2>1. ChildTyped'
      BY <1>4 DEF ChildExits, ChildDeadlinePasses, SessionLost, ChildTyped
    <2>2. EnvTyped'
      BY <1>4, FaultTyped DEF ChildExits, ChildDeadlinePasses, SessionLost, EnvTyped
    <2>. QED BY <1>4, <2>1, <2>2, TypedFrame DEF ChildExits, ChildDeadlinePasses, SessionLost
  <1>5. CASE ChildKilled
    <2>1. ToChildTyped' /\ ToParentTyped'
      BY <1>5, NoMessages, KeptMessages DEF ChildKilled, ToChildTyped, ToParentTyped
    <2>2. ChildTyped'
      BY <1>5, ObservationShape DEF ChildKilled, ChildTyped
    <2>3. EnvTyped'
      BY <1>5, FaultTyped DEF ChildKilled, EnvTyped
    <2>. QED BY <1>5, <2>1, <2>2, <2>3, TypedFrame DEF ChildKilled
  <1>. QED BY <1>1, <1>2, <1>3, <1>4, <1>5 DEF ChildHandler, ChildEvent

\* What the server and the others do.
LEMMA ServerTypedStep ==
  ASSUME TypeOK, ServerExecutes \/ ServerEnds \/ OthersAct
  PROVE  TypeOK'
  <1>. USE Typing
  <1>1. CASE ServerExecutes
    <2>0. Admin \in Session /\ stmt[Admin] \in Statement
      BY AdminSession DEF PgTypeOK
    <2>. DEFINE s == Admin
    <2>1. PgTypeOK'
      <3>. HIDE DEF s
      <3>0. s \in Session /\ Execute(s)
        BY <1>1, <2>0 DEF ServerExecutes, s
      <3>1. CASE ExecConnect(s)
        BY <3>0, <3>1 DEF ExecConnect, Answer, PgTypeOK
      <3>2. CASE ExecIdentity(s)
        BY <3>0, <3>2 DEF ExecIdentity, Answer, PgTypeOK
      <3>3. CASE ExecLock(s)
        BY <3>0, <3>3 DEF ExecLock, Answer, PgTypeOK
      <3>4. CASE ExecCreate(s)
        <4>1. OwnerOf(s) \in Actor
          BY <3>0 DEF Session, OwnerOf
        <4>2. answer' \in [Session -> {"none", "pending", "ok", "refused", "error"}]
          BY <3>0, <3>4 DEF ExecCreate, Answer, PgTypeOK
        <4>3. catalog' \in [Name -> Oid \cup {NoOid}] /\ creator' \in [Oid -> Actor \cup {Nobody, Outsider}]
          BY <3>0, <3>4, <4>1 DEF ExecCreate, PgTypeOK
        <4>. QED BY <3>4, <4>2, <4>3 DEF ExecCreate, PgTypeOK
      <3>5. CASE ExecSelect(s)
        BY <3>0, <3>5 DEF ExecSelect, Answer, PgTypeOK, RowsOf
      <3>6. CASE ExecDrop(s)
        BY <3>0, <3>6 DEF ExecDrop, Answer, PgTypeOK
      <3>. QED BY <3>0, <3>1, <3>2, <3>3, <3>4, <3>5, <3>6 DEF Execute
    <2>2. dropped' \in BOOLEAN
      BY <1>1 DEF ServerExecutes, EnvTyped
    <2>3. EnvTyped'
      BY <1>1, <2>2 DEF ServerExecutes, EnvTyped
    <2>. QED BY <1>1, <2>1, <2>3, TypedFrame DEF ServerExecutes
  <1>2. CASE ServerEnds
    <2>1. PgTypeOK'
      BY <1>2, AdminSession DEF ServerEnds, EndBackend, PgTypeOK
    <2>2. EnvTyped'
      BY <1>2, FaultTyped DEF ServerEnds, EnvTyped
    <2>. QED BY <1>2, <2>1, <2>2, TypedFrame DEF ServerEnds
  <1>3. CASE OthersAct
    <2>1. EnvTyped'
      BY <1>3 DEF OthersAct, EnvTyped
    <2>2. PgTypeOK'
      <3>1. CASE OutsideDDL
        BY <3>1 DEF OutsideDDL, PgTypeOK
      <3>2. CASE PeerActs
        <4>1. PICK s \in Session \ {Admin} :
                 \/ /\ \/ lock[Target] = NoSession /\ lock' = [lock EXCEPT ![Target] = s]
                       \/ lock[Target] = s /\ lock' = [lock EXCEPT ![Target] = NoSession]
                    /\ UNCHANGED <<catalog, creator>>
                 \/ /\ lock[Target] = s /\ catalog[Target] # NoOid
                    /\ catalog' = [catalog EXCEPT ![Target] = NoOid]
                    /\ UNCHANGED <<creator, lock>>
                 \/ /\ lock[Target] = s /\ catalog[Target] = NoOid
                    /\ \E o \in Oid :
                         /\ creator[o] = Nobody
                         /\ creator' = [creator EXCEPT ![o] = OwnerOf(s)]
                         /\ catalog' = [catalog EXCEPT ![Target] = o]
                    /\ UNCHANGED lock
          BY <3>2 DEF PeerActs
        <4>2. OwnerOf(s) \in Actor
          BY DEF Session, OwnerOf
        <4>3. catalog' \in [Name -> Oid \cup {NoOid}] /\ creator' \in [Oid -> Actor \cup {Nobody, Outsider}]
              /\ lock' \in [Name -> Session \cup {NoSession}]
          BY <4>1, <4>2, RecoveryAssumption DEF PgTypeOK
        <4>. QED BY <3>2, <4>3 DEF PeerActs, PgTypeOK
      <3>3. CASE PeerDisconnects
        BY <3>3 DEF PeerDisconnects, Detach, PgTypeOK
      <3>. QED BY <1>3, <3>1, <3>2, <3>3 DEF OthersAct
    <2>. QED BY <1>3, <2>1, <2>2, TypedFrame DEF OthersAct
  <1>. QED BY <1>1, <1>2, <1>3

\* Every step keeps the types.
LEMMA TypeStep ==
  ASSUME TypeOK, [Next]_vars
  PROVE  TypeOK'
  <1>1. CASE UNCHANGED vars
    BY <1>1, TypedFrame, Typing
  <1>2. CASE Next
    BY <1>2, ParentTypedStep, ChildTypedStep, EngineTypedStep, ServerTypedStep DEF Next
  <1>. QED BY <1>1, <1>2

-----------------------------------------------------------------------------
(* The fence *)

\* The parent never touches the database or the engine: it only talks, waits
\* and kills (superviseRecovery).
LEMMA ParentFrame ==
  ASSUME ParentStep \/ ParentEvent
  PROVE  UNCHANGED <<pgVars, engineVars, stopReason, session, allocated, closeReceived, childLate,
                     dropped, outside>>
  <1>1. CASE OnMessage \/ WorkTimer \/ Abort
    BY <1>1 DEF OnMessage, WorkTimer, Abort, StopOnly
  <1>2. CASE SendSettles \/ ForceTimer \/ FinalTimer \/ OnExit
    BY <1>2 DEF SendSettles, ForceTimer, FinalTimer, OnExit
  <1>3. CASE OnDisconnect \/ OnClose
    BY <1>3 DEF OnDisconnect, OnClose
  <1>4. CASE DeadlinePasses \/ SpawnFails \/ ParentCrash
    BY <1>4 DEF DeadlinePasses, SpawnFails, ParentCrash
  <1>. QED BY <1>1, <1>2, <1>3, <1>4 DEF ParentStep, ParentEvent

\* Nothing was asked of the server, and the engine is not moved to a statement.
LEMMA FenceFrame ==
  ASSUME Fence, UNCHANGED pgVars, cpc' = cpc \/ cpc' \notin QueryPc \cup {"permit"}
  PROVE  Fence'
  BY DEF Fence, AskedAt, Asked, ShowsTarget, Gone

\* A statement was sent: under the lock from the inspection on, and a DROP only
\* where an inspection showed the target.
LEMMA FenceSends ==
  ASSUME TypeOK, Fence, UNCHANGED serverVars,
         NEW kind \in {"connect", "lock", "inspect", "drop"},
         Send(Admin, kind, Target, IF kind = "inspect" THEN Acquired ELSE NoOid),
         cpc' \in QueryPc \cup {"permit"} => Asked(kind) = AskedAt(cpc'),
         backend[Admin] = "open" /\ kind \in {"inspect", "drop"} => lock[Target] = Admin,
         backend[Admin] = "open" /\ kind = "drop" => catalog[Target] = Acquired
  PROVE  Fence'
  <1>1. stmt'[Admin] = Asked(kind) /\ answer'[Admin] = "pending"
    BY AdminSession DEF TypeOK, PgTypeOK, Send, Asked
  <1>2. Asked(kind).kind = kind
    BY DEF Asked
  <1>. QED BY <1>1, <1>2 DEF Fence, AskedAt

\* The kinds of the statements of the engine.
LEMMA AskedKinds ==
  /\ \A kind \in StmtKind : Asked(kind).kind = kind /\ Asked(kind).name = Target
  /\ NoStmt.kind = "none"
  /\ AskedAt("connect") = Asked("connect") /\ AskedAt("lock") = Asked("lock") /\ AskedAt("drop") = Asked("drop")
  /\ \A p \in {"inspect", "recheck", "permit", "confirm", "verify"} : AskedAt(p) = Asked("inspect")
  BY DEF Asked, AskedAt, NoStmt

\* What the engine knows when an answer arrived at await p.
LEMMA FenceAt ==
  ASSUME Fence, NEW p \in QueryPc \cup {"permit"}, cpc = p
  PROVE  /\ stmt[Admin] = AskedAt(p)
         /\ p = "lock" /\ answer[Admin] = "ok" /\ backend[Admin] = "open" => lock[Target] = Admin
         /\ p \in {"inspect", "recheck", "permit", "confirm", "drop", "verify"} /\ backend[Admin] = "open"
              => lock[Target] = Admin
         /\ p \in {"inspect", "recheck", "confirm", "verify"} /\ answer[Admin] = "ok"
              => /\ rows[Admin] = {} => Gone
                 /\ backend[Admin] = "open" /\ ShowsTarget => catalog[Target] = Acquired
  <1>1. stmt[Admin] = AskedAt(p)
    BY DEF Fence
  <1>2. p \in {"inspect", "recheck", "permit", "confirm", "verify"} => stmt[Admin].kind = "inspect"
    BY <1>1, AskedKinds DEF StmtKind
  <1>3. (p = "lock" => stmt[Admin].kind = "lock") /\ (p = "drop" => stmt[Admin].kind = "drop")
    BY <1>1, AskedKinds DEF StmtKind
  <1>. QED BY <1>1, <1>2, <1>3 DEF Fence

\* The steps of the engine keep the fence (executeRecovery).
LEMMA FenceEngine ==
  ASSUME TypeOK, Fence, EngineStep
  PROVE  Fence'
  <1>1. CASE ImportFails
    BY <1>1, FenceFrame DEF ImportFails, QueryPc
  <1>2. CASE SessionCreated
    <2>1. Asked("connect") = AskedAt(cpc')
      BY <1>2, AskedKinds DEF SessionCreated
    <2>2. Send(Admin, "connect", Target, NoOid) /\ UNCHANGED serverVars
      BY <1>2 DEF SessionCreated, EngineFrame
    <2>. QED BY <2>1, <2>2, FenceSends
  <1>3. CASE LockBusy \/ EngineFails \/ Interrupted
    <2>1. cpc' = "allocation" /\ UNCHANGED pgVars
      BY <1>3 DEF LockBusy, EngineFails, Interrupted, Refuses, Fails, FinishWork, EngineFrame
    <2>. QED BY <2>1, FenceFrame DEF QueryPc
  <1>4. CASE SessionClosed
    BY <1>4, FenceFrame DEF SessionClosed, QueryPc
  <1>5. CASE IdentityRead
    <2>1. CASE Asks("lock", "lock", <<PhaseMessage("lock")>>)
      <3>1. Send(Admin, "lock", Target, NoOid) /\ cpc' = "lock" /\ UNCHANGED serverVars
        BY <1>5, <2>1 DEF Asks, IdentityRead, EngineFrame
      <3>2. Asked("lock") = AskedAt(cpc')
        BY <3>1, AskedKinds
      <3>. QED BY <3>1, <3>2, FenceSends
    <2>2. CASE Refuses("IDENTITY_MISMATCH")
      <3>1. cpc' = "allocation" /\ UNCHANGED pgVars
        BY <1>5, <2>2 DEF IdentityRead, Refuses, Fails, FinishWork, EngineFrame
      <3>. QED BY <3>1, FenceFrame DEF QueryPc
    <2>. QED BY <1>5, <2>1, <2>2 DEF IdentityRead
  <1>6. CASE LockGranted \/ Dropped
    <2>1. Send(Admin, "inspect", Target, Acquired) /\ cpc' \in {"inspect", "verify"} /\ UNCHANGED serverVars
      BY <1>6 DEF Asks, LockGranted, Dropped, EngineFrame
    <2>2. Asked("inspect") = AskedAt(cpc')
      BY <2>1, AskedKinds
    <2>3. cpc \in {"lock", "drop"} /\ answer[Admin] = "ok"
      BY <1>6 DEF LockGranted, Dropped, Replied, Proceeds
    <2>4. backend[Admin] = "open" => lock[Target] = Admin
      BY <2>3, FenceAt DEF QueryPc
    <2>. QED BY <2>1, <2>2, <2>4, FenceSends
  <1>7. CASE Inspected
    <2>0. cpc = "inspect" /\ UNCHANGED <<serverVars, conn>>
      BY <1>7 DEF Inspected, Replied, Proceeds, EngineFrame
    <2>1. CASE Asks("recheck", "inspect", <<>>)
      <3>1. Send(Admin, "inspect", Target, Acquired) /\ cpc' = "recheck"
        BY <2>1 DEF Asks
      <3>2. Asked("inspect") = AskedAt(cpc')
        BY <3>1, AskedKinds
      <3>3. backend[Admin] = "open" => lock[Target] = Admin
        BY <2>0, FenceAt DEF QueryPc
      <3>. QED BY <2>0, <3>1, <3>2, <3>3, FenceSends
    <2>2. CASE cpc' = "allocation" /\ UNCHANGED stmtVars
      BY <2>0, <2>2, FenceFrame DEF QueryPc
    <2>. QED BY <1>7, <2>1, <2>2 DEF Inspected, Refuses, Fails, Ends, FinishWork
  <1>8. CASE Rechecked
    <2>0. cpc = "recheck" /\ UNCHANGED pgVars
      BY <1>8 DEF Rechecked, Replied, Proceeds, EngineFrame
    <2>1. CASE cpc' = "permit"
      <3>1. stmt[Admin] = AskedAt(cpc')
        BY <2>0, <2>1, FenceAt, AskedKinds DEF QueryPc
      <3>. QED BY <2>0, <3>1 DEF Fence, AskedAt, Asked, ShowsTarget, Gone
    <2>2. CASE cpc' = "allocation"
      BY <2>0, <2>2, FenceFrame DEF QueryPc
    <2>. QED BY <1>8, <2>1, <2>2 DEF Rechecked, Fails, FinishWork
  <1>9. CASE Confirmed
    <2>0. cpc = "confirm" /\ answer[Admin] = "ok" /\ UNCHANGED <<serverVars, conn>>
      BY <1>9 DEF Confirmed, Replied, Proceeds, EngineFrame
    <2>1. CASE ShowsTarget /\ Asks("drop", "drop", <<>>)
      <3>1. Send(Admin, "drop", Target, NoOid) /\ cpc' = "drop"
        BY <2>1 DEF Asks
      <3>2. Asked("drop") = AskedAt(cpc')
        BY <3>1, AskedKinds
      <3>3. backend[Admin] = "open" => lock[Target] = Admin /\ catalog[Target] = Acquired
        BY <2>0, <2>1, FenceAt DEF QueryPc
      <3>. QED BY <2>0, <3>1, <3>2, <3>3, FenceSends
    <2>2. CASE cpc' = "allocation" /\ UNCHANGED stmtVars
      BY <2>0, <2>2, FenceFrame DEF QueryPc
    <2>. QED BY <1>9, <2>1, <2>2 DEF Confirmed, Refuses, Fails, FinishWork
  <1>10. CASE Verified
    <2>1. cpc' = "allocation" /\ UNCHANGED pgVars
      BY <1>10 DEF Verified, Refuses, Fails, Ends, FinishWork, EngineFrame
    <2>. QED BY <2>1, FenceFrame DEF QueryPc
  <1>. QED BY <1>1, <1>2, <1>3, <1>4, <1>5, <1>6, <1>7, <1>8, <1>9, <1>10 DEF EngineStep

\* The handlers of the child keep the fence: only a permission leads to a
\* statement, an inspection under the lock (onMessage of the child).
LEMMA FenceChild ==
  ASSUME TypeOK, Fence, ChildHandler \/ ChildEvent
  PROVE  Fence'
  <1>1. CASE ChildBoots \/ ChildDisconnects \/ ChildWorkTimer \/ ChildExits \/ ChildDeadlinePasses \/ SessionLost
    BY <1>1, FenceFrame DEF ChildBoots, ChildDisconnects, ChildWorkTimer, ChildExits, ChildDeadlinePasses, SessionLost
  <1>2. CASE ChildKilled
    BY <1>2, FenceFrame DEF ChildKilled, QueryPc
  <1>3. CASE ChildReads
    <2>1. CASE OnPermit
      <3>1. CASE Send(Admin, "inspect", Target, Acquired) /\ cpc' = "confirm" /\ cpc = "permit"
        <4>1. Asked("inspect") = AskedAt(cpc')
          BY <3>1, AskedKinds
        <4>2. backend[Admin] = "open" => lock[Target] = Admin
          BY <3>1, FenceAt
        <4>. QED BY <2>1, <3>1, <4>1, <4>2, FenceSends DEF OnPermit
      <3>2. CASE UNCHANGED <<stmtVars, cpc>>
        BY <2>1, <3>2, FenceFrame DEF OnPermit
      <3>. QED BY <2>1, <3>1, <3>2 DEF OnPermit
    <2>2. CASE OnStart \/ OnCloseMessage \/ OnFinish
      BY <2>2, FenceFrame DEF OnStart, OnCloseMessage, OnFinish, QueryPc
    <2>3. ASSUME NEW r, OnCancel(r) PROVE Fence'
      BY <2>3, FenceFrame DEF OnCancel, FinishWork, QueryPc
    <2>. QED BY <1>3, <2>1, <2>2, <2>3 DEF ChildReads
  <1>. QED BY <1>1, <1>2, <1>3 DEF ChildHandler, ChildEvent

\* A statement the server can execute on the recovery's session.
LEMMA FenceStatement ==
  ASSUME TypeOK, Fence
  PROVE  /\ stmt[Admin] = NoStmt \/ stmt[Admin].name = Target
         /\ stmt[Admin].kind \in {"none", "connect", "lock", "inspect", "drop"}
         /\ stmt[Admin].kind = "inspect" => stmt[Admin].oid = Acquired
         /\ stmt[Admin].kind = "drop" => stmt[Admin].name = Target
  BY DEF Fence, NoStmt, Asked

\* An OID is given to one database: once the target is gone, it stays gone
\* (the CREATE of any participant or outsider).
LEMMA OnceGone ==
  ASSUME TypeOK, creator[Acquired] # Nobody, ServerExecutes \/ ServerEnds \/ OthersAct
  PROVE  creator'[Acquired] # Nobody /\ (Gone => Gone')
  <1>0. /\ Acquired \in Oid /\ Acquired # NoOid /\ Target \in Name
        /\ catalog \in [Name -> Oid \cup {NoOid}] /\ creator \in [Oid -> Actor \cup {Nobody, Outsider}]
        /\ Nobody # Outsider /\ \A s \in Session : OwnerOf(s) # Nobody
    BY RecoveryAssumption, AbsentAssumption, ActorAssumption DEF TypeOK, PgTypeOK, Session, OwnerOf
  <1>1. CASE ServerExecutes
    <2>. DEFINE s == Admin
    <2>0. s \in Session /\ Execute(s)
      BY <1>1, AdminSession DEF ServerExecutes
    <2>. HIDE DEF s
    <2>1. CASE ExecCreate(s)
      <3>1. CASE UNCHANGED <<catalog, creator>>
        BY <1>0, <3>1 DEF Gone
      <3>2. ASSUME NEW o \in Oid, creator[o] = Nobody,
                   catalog' = [catalog EXCEPT ![stmt[s].name] = o],
                   creator' = [creator EXCEPT ![o] = OwnerOf(s)]
            PROVE  creator'[Acquired] # Nobody /\ (Gone => Gone')
        <4>1. o # Acquired
          BY <3>2
        <4>. QED BY <1>0, <3>2, <4>1 DEF Gone
      <3>. QED BY <2>1, <3>1, <3>2 DEF ExecCreate
    <2>2. CASE ExecDrop(s)
      <3>1. catalog' = catalog \/ catalog' = [catalog EXCEPT ![stmt[s].name] = NoOid]
        BY <2>2 DEF ExecDrop
      <3>. QED BY <1>0, <2>2, <3>1 DEF ExecDrop, Gone
    <2>3. CASE ExecConnect(s) \/ ExecIdentity(s) \/ ExecLock(s) \/ ExecSelect(s)
      BY <1>0, <2>3 DEF ExecConnect, ExecIdentity, ExecLock, ExecSelect, Gone
    <2>. QED BY <2>0, <2>1, <2>2, <2>3 DEF Execute
  <1>2. CASE ServerEnds
    BY <1>2 DEF ServerEnds, EndBackend, Gone
  <1>3. CASE OthersAct
    <2>1. CASE OutsideDDL
      <3>1. PICK n \in Name :
               \/ catalog' = [catalog EXCEPT ![n] = NoOid] /\ UNCHANGED creator
               \/ \E o \in Oid :
                    /\ creator[o] = Nobody
                    /\ catalog' = [catalog EXCEPT ![n] = o]
                    /\ creator' = [creator EXCEPT ![o] = Outsider]
               \/ \E m \in Name \ {n} :
                    /\ catalog' = [catalog EXCEPT ![n] = NoOid, ![m] = catalog[n]]
                    /\ UNCHANGED creator
        BY <2>1 DEF OutsideDDL
      <3>2. CASE catalog' = [catalog EXCEPT ![n] = NoOid] /\ UNCHANGED creator
        BY <1>0, <3>2 DEF Gone
      <3>3. ASSUME NEW o \in Oid, creator[o] = Nobody, catalog' = [catalog EXCEPT ![n] = o],
                   creator' = [creator EXCEPT ![o] = Outsider]
            PROVE  creator'[Acquired] # Nobody /\ (Gone => Gone')
        <4>1. o # Acquired
          BY <3>3
        <4>. QED BY <1>0, <3>3, <4>1 DEF Gone
      <3>4. ASSUME NEW m \in Name \ {n}, catalog' = [catalog EXCEPT ![n] = NoOid, ![m] = catalog[n]],
                   UNCHANGED creator
            PROVE  creator'[Acquired] # Nobody /\ (Gone => Gone')
        BY <1>0, <3>4 DEF Gone
      <3>. QED BY <3>1, <3>2, <3>3, <3>4
    <2>2. CASE PeerActs
      <3>1. PICK s \in Session \ {Admin} :
               \/ UNCHANGED <<catalog, creator>>
               \/ catalog' = [catalog EXCEPT ![Target] = NoOid] /\ UNCHANGED creator
               \/ \E o \in Oid :
                    /\ creator[o] = Nobody
                    /\ creator' = [creator EXCEPT ![o] = OwnerOf(s)]
                    /\ catalog' = [catalog EXCEPT ![Target] = o]
        BY <2>2 DEF PeerActs
      <3>2. CASE UNCHANGED <<catalog, creator>>
        BY <3>2 DEF Gone
      <3>3. CASE catalog' = [catalog EXCEPT ![Target] = NoOid] /\ UNCHANGED creator
        BY <1>0, <3>3 DEF Gone
      <3>4. ASSUME NEW o \in Oid, creator[o] = Nobody, creator' = [creator EXCEPT ![o] = OwnerOf(s)],
                   catalog' = [catalog EXCEPT ![Target] = o]
            PROVE  creator'[Acquired] # Nobody /\ (Gone => Gone')
        <4>1. o # Acquired
          BY <3>4
        <4>. QED BY <1>0, <3>4, <4>1 DEF Gone
      <3>. QED BY <3>1, <3>2, <3>3, <3>4
    <2>3. CASE PeerDisconnects
      BY <2>3 DEF PeerDisconnects, Gone
    <2>. QED BY <1>3, <2>1, <2>2, <2>3 DEF OthersAct
  <1>. QED BY <1>1, <1>2, <1>3

\* Nobody else changes what the name stands for while the recovery has the lock
\* (acquireLock; the peers keep to the protocol, the outsiders to free targets).
LEMMA LockProtects ==
  ASSUME TypeOK, OthersAct, lock[Target] = Admin
  PROVE  lock'[Target] = Admin /\ catalog'[Target] = catalog[Target]
  <1>0. Target \in Name /\ Admin # NoSession
    BY RecoveryAssumption, AdminSession
  <1>1. CASE OutsideDDL
    <2>1. PICK n \in Name :
             /\ lock[n] = NoSession
             /\ \/ catalog' = [catalog EXCEPT ![n] = NoOid]
                \/ \E o \in Oid : catalog' = [catalog EXCEPT ![n] = o]
                \/ \E m \in Name \ {n} : lock[m] = NoSession /\ catalog' = [catalog EXCEPT ![n] = NoOid, ![m] = catalog[n]]
      BY <1>1 DEF OutsideDDL
    <2>2. n # Target
      BY <1>0, <2>1
    <2>3. UNCHANGED lock
      BY <1>1 DEF OutsideDDL
    <2>4. ASSUME NEW m \in Name \ {n}, lock[m] = NoSession, catalog' = [catalog EXCEPT ![n] = NoOid, ![m] = catalog[n]]
          PROVE  catalog'[Target] = catalog[Target]
      <3>1. m # Target
        BY <1>0, <2>4
      <3>. QED BY <1>0, <2>2, <2>4, <3>1 DEF TypeOK, PgTypeOK
    <2>. QED BY <1>0, <2>1, <2>2, <2>3, <2>4 DEF TypeOK, PgTypeOK
  <1>2. CASE PeerActs
    <2>1. \A s \in Session \ {Admin} : lock[Target] # s /\ lock[Target] # NoSession
      BY <1>0
    <2>. QED BY <1>2, <2>1 DEF PeerActs
  <1>3. CASE PeerDisconnects
    BY <1>3 DEF PeerDisconnects
  <1>. QED BY <1>1, <1>2, <1>3 DEF OthersAct

\* The server, the peers and the outsiders keep the fence.
LEMMA FenceServer ==
  ASSUME TypeOK, Fence, ServerExecutes \/ ServerEnds \/ OthersAct
  PROVE  Fence'
  <1>0. /\ Admin \in Session /\ Admin # NoSession /\ Target \in Name /\ Acquired \in Oid
        /\ backend \in [Session -> {"absent", "open", "closed"}] /\ lock \in [Name -> Session \cup {NoSession}]
        /\ catalog \in [Name -> Oid \cup {NoOid}]
        /\ answer \in [Session -> {"none", "pending", "ok", "refused", "error"}]
        /\ rows \in [Session -> SUBSET Row]
    BY AdminSession, RecoveryAssumption DEF TypeOK, PgTypeOK
  <1>1. creator'[Acquired] # Nobody /\ (Gone => Gone')
    BY OnceGone DEF Fence
  <1>2. CASE ServerExecutes
    <2>0. UNCHANGED <<cpc, stmt>>
      BY <1>2 DEF ServerExecutes, Execute, ExecConnect, ExecIdentity, ExecLock, ExecCreate, ExecSelect, ExecDrop
    <2>1. stmt[Admin].kind \in {"none", "connect", "lock", "inspect", "drop"}
      BY FenceStatement
    <2>2. CASE ExecConnect(Admin)
      <3>1. stmt[Admin].kind = "connect"
        BY <2>2 DEF ExecConnect
      <3>. QED BY <1>1, <2>0, <3>1 DEF Fence, AskedAt, Asked
    <2>3. CASE ExecLock(Admin)
      <3>1. stmt[Admin].kind = "lock" /\ stmt[Admin].name = Target
        BY <2>3, FenceStatement DEF ExecLock, Running, NoStmt
      <3>2. answer'[Admin] = "ok" => lock'[Target] = Admin
        BY <1>0, <2>3, <3>1 DEF ExecLock, Answer
      <3>. QED BY <1>1, <2>0, <3>1, <3>2 DEF Fence, AskedAt, Asked
    <2>4. CASE ExecSelect(Admin)
      <3>1. stmt[Admin].kind = "inspect" /\ stmt[Admin].name = Target /\ stmt[Admin].oid = Acquired
        BY <2>1, <2>4, FenceStatement DEF ExecSelect, Running, NoStmt
      <3>2. rows'[Admin] = RowsOf(Target, Acquired) /\ UNCHANGED <<catalog, lock, backend>>
        BY <1>0, <2>4, <3>1 DEF ExecSelect
      <3>3. rows'[Admin] = {<<Target, Acquired>>} => catalog[Target] = Acquired
        <4>1. ASSUME rows'[Admin] = {<<Target, Acquired>>} PROVE catalog[Target] = Acquired
          <5>1. <<Target, Acquired>> \in RowsOf(Target, Acquired)
            BY <3>2, <4>1
          <5>. QED BY <5>1 DEF RowsOf
        <4>. QED BY <4>1
      <3>4. rows'[Admin] = {} => Gone
        <4>1. ASSUME NEW n \in Name, catalog[n] = Acquired PROVE rows'[Admin] # {}
          <5>1. <<n, Acquired>> \in RowsOf(Target, Acquired)
            BY <1>0, <4>1 DEF RowsOf, Row
          <5>. QED BY <3>2, <5>1
        <4>. QED BY <4>1 DEF Gone
      <3>. QED BY <1>1, <2>0, <3>1, <3>2, <3>3, <3>4 DEF Fence, AskedAt, Asked, ShowsTarget
    <2>5. CASE ExecDrop(Admin)
      <3>1. stmt[Admin].kind = "drop" /\ answer'[Admin] \in {"ok", "error"} /\ UNCHANGED <<lock, backend, rows>>
        BY <1>0, <2>5 DEF ExecDrop, Running, Answer
      <3>. QED BY <1>1, <2>0, <3>1 DEF Fence, AskedAt, Asked
    <2>6. ~ExecIdentity(Admin) /\ ~ExecCreate(Admin)
      BY <2>1 DEF ExecIdentity, ExecCreate, Running
    <2>. QED BY <1>2, <2>2, <2>3, <2>4, <2>5, <2>6 DEF ServerExecutes, Execute
  <1>3. CASE ServerEnds
    <2>1. backend'[Admin] = "closed" /\ UNCHANGED <<cpc, stmt, answer, rows>>
      BY <1>0, <1>3 DEF ServerEnds, EndBackend
    <2>. QED BY <1>1, <2>1 DEF Fence, AskedAt, Asked
  <1>4. CASE OthersAct
    <2>1. UNCHANGED <<cpc, stmt, answer, rows, backend>>
      BY <1>4 DEF OthersAct, OutsideDDL, PeerActs, PeerDisconnects
    <2>2. lock[Target] = Admin => lock'[Target] = Admin /\ catalog'[Target] = catalog[Target]
      BY <1>4, LockProtects
    <2>. QED BY <1>1, <2>1, <2>2 DEF Fence, AskedAt, Asked, ShowsTarget
  <1>. QED BY <1>2, <1>3, <1>4

\* Every step keeps the fence.
LEMMA FenceStep ==
  ASSUME TypeOK, Fence, [Next]_vars
  PROVE  Fence'
  <1>1. CASE UNCHANGED vars
    BY <1>1, FenceFrame
  <1>2. CASE ParentStep \/ ParentEvent
    BY <1>2, ParentFrame, FenceFrame
  <1>. QED BY <1>1, <1>2, FenceEngine, FenceChild, FenceServer DEF Next

\* A DROP that the server may still execute finds the target, locked
\* (dispatchDrop): what the runs check as DropsOnlyTarget.
LEMMA FenceGuards == Fence => DropsOnlyTarget
  BY DEF Fence, DropsOnlyTarget, Running

-----------------------------------------------------------------------------
(* Agreement, as a state predicate *)

\* Where the parent is in the conversation tells its flags (the state of
\* superviseRecovery).
LEMMA PositionMeans ==
  ASSUME TypeOK, Order
  PROVE  /\ ParentPosition \in {"connect", "ready", "lock", "inspect", "drop", "request-drop", "verify",
                                "closing", "result"}
         /\ ParentPosition \notin {"closing", "result"} =>
              ~terminal /\ childClosing = {} /\ PhaseIn(ParentPosition) = phase
         /\ ParentPosition = "connect" => ~ready /\ phase = "connect" /\ ~requested
         /\ ParentPosition = "ready" => ready /\ phase = "connect" /\ ~requested
         /\ ParentPosition = "lock" => phase = "lock" /\ ~requested
         /\ ParentPosition = "inspect" => phase = "inspect" /\ ~requested
         /\ ParentPosition = "drop" => phase = "drop" /\ ~requested
         /\ ParentPosition = "request-drop" => phase = "drop" /\ requested
         /\ ParentPosition = "verify" => phase = "verify"
         /\ ParentPosition = "closing" => ~terminal /\ childClosing # {}
         /\ ParentPosition = "result" => terminal
  <1>1. /\ phase \in {"connect", "lock", "inspect", "drop", "verify"}
        /\ ready \in BOOLEAN /\ requested \in BOOLEAN /\ terminal \in BOOLEAN
    BY DEF TypeOK, Phase
  <1>2. CASE terminal
    BY <1>2 DEF ParentPosition
  <1>3. CASE ~terminal /\ childClosing # {}
    BY <1>3 DEF ParentPosition
  <1>4. CASE ~terminal /\ childClosing = {} /\ requested /\ phase = "drop"
    BY <1>4 DEF ParentPosition, PhaseIn
  <1>5. CASE ~terminal /\ childClosing = {} /\ ~(requested /\ phase = "drop")
    <2>1. requested => phase = "verify"
      BY <1>5 DEF Order
    <2>2. CASE phase = "connect" /\ ready
      BY <1>5, <2>1, <2>2 DEF ParentPosition, PhaseIn
    <2>3. CASE phase = "connect" /\ ~ready
      BY <1>5, <2>1, <2>3 DEF ParentPosition, PhaseIn
    <2>4. CASE phase # "connect"
      <3>1. ParentPosition = phase
        BY <1>5, <2>4 DEF ParentPosition
      <3>. QED BY <1>1, <1>5, <2>1, <2>4, <3>1 DEF PhaseIn
    <2>. QED BY <2>2, <2>3, <2>4
  <1>. QED BY <1>2, <1>3, <1>4, <1>5

\* The next unread message is one the parent accepts (onMessage of the parent).
LEMMA HeadAcceptable ==
  ASSUME TypeOK, Permission, Agreement, toParent # <<>>
  PROVE  Acceptable(Head(toParent)) /\ MayFollow(ParentPosition, Head(toParent))
         /\ Head(toParent) \in ChildMessage /\ Head(toParent) \in Range(toParent)
  <1>. HIDE DEF ChildMessage
  <1>. DEFINE m == Head(toParent)
  <1>1. m \in ChildMessage /\ m \in Range(toParent) /\ m = toParent[1] /\ 1 \in 1..Len(toParent)
    BY ReadMessages DEF TypeOK
  <1>2. MayFollow(ParentPosition, m)
    BY <1>1 DEF Agreement, Conversation, Continues
  <1>3. /\ m.type \in {"ready", "request-drop", "phase", "closing", "result"}
        /\ m.type \in {"closing", "result"} => m.obs \in Observation
    BY <1>1, ChildMessageShape
  <1>4. /\ m.type \in {"phase", "request-drop"} => ready
        /\ m.type = "phase" /\ m.phase = "verify" => permitted
        /\ m.type = "ready" => ~ready
    BY <1>1 DEF Agreement, Order
  <1>5. Order /\ Reporting
    BY DEF Agreement
  <1>6. m.type \in {"closing", "result"} => m.obs \in Reports
    BY <1>1 DEF Reports, Told
  <1>. SUFFICES Acceptable(m)
    BY <1>1, <1>2
  <1>. HIDE DEF m
  <1>7. CASE m.type = "ready"
    BY <1>4, <1>7 DEF Acceptable
  <1>8. CASE m.type = "phase"
    <2>1. <<ParentPosition, m.phase>> \in Course
      BY <1>2, <1>8 DEF MayFollow
    <2>2. m.phase = NextPhase(phase)
      BY <1>5, <2>1, PositionMeans DEF Course, NextPhase
    <2>. QED BY <1>4, <1>8, <2>2 DEF Acceptable
  <1>9. CASE m.type = "request-drop"
    <2>1. ParentPosition = "drop"
      BY <1>2, <1>9 DEF MayFollow
    <2>2. phase = "drop" /\ ~requested /\ ~terminal
      BY <1>5, <2>1, PositionMeans
    <2>. QED BY <1>4, <1>9, <2>2 DEF Acceptable
  <1>10. CASE m.type = "closing"
    <2>. DEFINE o == m.obs
    <2>1. /\ ParentPosition \notin {"closing", "result"}
          /\ o.primary # "none" => o.at = PhaseIn(ParentPosition)
          /\ o.outcome = "removed" => ParentPosition = "verify"
          /\ o.outcome = "already-absent" => ParentPosition = "inspect"
      BY <1>2, <1>10 DEF MayFollow
    <2>2. childClosing = {} /\ ~terminal /\ PhaseIn(ParentPosition) = phase
          /\ (ParentPosition = "verify" => phase = "verify")
          /\ (ParentPosition = "inspect" => phase = "inspect")
      BY <1>5, <2>1, PositionMeans
    <2>3. Truthful(o)
      BY <1>5, <1>6, <1>10 DEF Reporting
    <2>4. (dropped => permitted) /\ (permitted => requested)
      BY DEF Permission
    <2>. HIDE DEF o
    <2>5. Believable(o)
      BY <2>1, <2>2, <2>3, <2>4 DEF Believable, Truthful, Successful
    <2>. QED BY <1>10, <2>2, <2>5 DEF Acceptable, o
  <1>11. CASE m.type = "result"
    <2>1. ParentPosition = "closing"
      BY <1>2, <1>11 DEF MayFollow
    <2>2. ~terminal /\ childClosing # {}
      BY <1>5, <2>1, PositionMeans
    <2>3. PICK o \in childClosing : TRUE
      BY <2>2
    <2>4. o \in Reports /\ m.obs \in Reports /\ Believable(o) /\ o \in Observation /\ m.obs \in Observation
      BY <1>3, <1>5, <1>6, <1>11, <2>3 DEF Reporting, Reports, TypeOK
    <2>5. m.obs = [o EXCEPT !.closeFailed = m.obs.closeFailed]
      BY <1>5, <2>4 DEF Reporting
    <2>6. m.obs.primary = o.primary /\ m.obs.at = o.at /\ m.obs.outcome = o.outcome
      <3>1. m.obs.closeFailed \in BOOLEAN
        BY <2>4, ObservationShape
      <3>2. PICK b \in BOOLEAN : m.obs = [o EXCEPT !.closeFailed = b]
        BY <2>5, <3>1
      <3>3. /\ [o EXCEPT !.closeFailed = b].outcome = o.outcome
            /\ [o EXCEPT !.closeFailed = b].primary = o.primary
            /\ [o EXCEPT !.closeFailed = b].at = o.at
        BY <2>4, ClosedObservation
      <3>. QED BY <3>2, <3>3, Zenon
    <2>7. Believable(m.obs)
      BY <2>4, <2>6 DEF Believable
    <2>. QED BY <1>11, <2>2, <2>3, <2>5, <2>7 DEF Acceptable
  <1>. QED BY <1>3, <1>7, <1>8, <1>9, <1>10, <1>11

\* The next unread message is one the child waits for (onMessage of the child).
LEMMA HeadExpected ==
  ASSUME TypeOK, Agreement, child = "running", toChild # <<>>
  PROVE  Expected(Head(toChild))
  <1>. HIDE DEF ParentMessage
  <1>. DEFINE m == Head(toChild)
  <1>1. m \in ParentMessage /\ m \in Range(toChild)
    BY ReadMessages DEF TypeOK
  <1>2. m.type \in {"start", "permit-drop", "close", "finish", "cancel"}
    BY <1>1, ParentMessageShape
  <1>3. Says(toChild, m.type) /\ Alive
    BY <1>1 DEF Says, Alive
  <1>4. Inbox /\ Reporting
    BY DEF Agreement
  <1>. SUFFICES Expected(m)
    OBVIOUS
  <1>. HIDE DEF m
  <1>5. CASE m.type = "start"
    BY <1>3, <1>4, <1>5 DEF Inbox, Expected
  <1>6. CASE m.type = "permit-drop"
    BY <1>3, <1>4, <1>6 DEF Inbox, Expected
  <1>7. CASE m.type = "close"
    <2>1. childClosing # {} /\ ~closeReceived
      BY <1>3, <1>4, <1>7 DEF Inbox
    <2>2. Reports # {}
      BY <2>1 DEF Reports
    <2>3. cpc \in ClosingPc
      BY <1>3, <1>4, <2>2 DEF Reporting
    <2>. QED BY <1>7, <2>1, <2>3 DEF Expected
  <1>8. CASE m.type = "finish"
    BY <1>3, <1>4, <1>8 DEF Inbox, Expected
  <1>9. CASE m.type = "cancel"
    BY <1>9 DEF Expected
  <1>. QED BY <1>2, <1>5, <1>6, <1>7, <1>8, <1>9

\* Parent and child accept each other's messages: what the runs check as PeersAgree.
LEMMA AgreementAgrees == IInv => PeersAgree
  BY HeadAcceptable, HeadExpected DEF IInv, PeersAgree

-----------------------------------------------------------------------------
(* What a step of the parent says *)

\* m was sent, or lost with the channel.
Sent(m) == toChild' = toChild \/ (connected /\ toChild' = Append(toChild, m))
Cancel(r) == [type |-> "cancel", reason |-> r]

\* A message more in a pipe (child.send).
LEMMA SaysAppended ==
  ASSUME NEW S, NEW ch \in Seq(S), NEW m \in S, NEW t
  PROVE  Says(Append(ch, m), t) <=> Says(ch, t) \/ m.type = t
  <1>1. Range(Append(ch, m)) = Range(ch) \cup {m}
    BY AppendedMessages
  <1>. QED BY <1>1 DEF Says

\* Less in a pipe (onMessage, the kill).
LEMMA SaysLess ==
  ASSUME NEW ch, NEW rest, Range(rest) \subseteq Range(ch), NEW t, Says(rest, t)
  PROVE  Says(ch, t)
  BY DEF Says

\* Stopping sends a cancellation at most (stop of the parent).
LEMMA StopSends ==
  ASSUME TypeOK, NEW code \in Reason, NEW n \in Nat, Stop(code, n)
  PROVE  /\ Sent(Cancel(code)) /\ Cancel(code) \in ParentMessage
         /\ closing' = TRUE /\ primary' # "none" /\ closeFailed' = closeFailed
         /\ (primary # "none" => primary' = primary)
  <1>1. closing' = TRUE /\ primary' # "none" /\ closeFailed' = closeFailed /\ (primary # "none" => primary' = primary)
    BY StopTyped, Typing
  <1>2. Cancel(code) \in ParentMessage
    BY MessageTypes DEF Cancel
  <1>. QED BY <1>1, <1>2 DEF Stop, Deliver, Sent, Cancel

\* What every handler of the parent does, except that of a message.
Quiet ==
  /\ UNCHANGED <<protocolVars, outcome, toParent>>
  /\ closing => closing'
  /\ primary # "none" => primary' = primary
  /\ closeFailed => closeFailed'
  /\ toChild' = toChild \/ (closing' /\ primary' # "none" /\ \E r \in Reason : Sent(Cancel(r)))
  /\ connected' => connected
  /\ \/ UNCHANGED child
     \/ child = "booting" /\ child' = "failed" /\ ~connected' /\ primary' # "none"
     \/ child = "failed" /\ child' = "unspawned" /\ UNCHANGED primary

\* The timers, callbacks and events of the parent are quiet.
LEMMA QuietSteps ==
  ASSUME TypeOK, ParentStep \/ ParentEvent, ~OnMessage
  PROVE  Quiet
  <1>0. /\ pendingSends \in Nat
        /\ "CANCELLED" \in Reason /\ "DEADLINE_EXCEEDED" \in Reason /\ "DATABASE_FAILURE" \in Reason
    BY DEF TypeOK, Reason
  <1>1. CASE WorkTimer \/ Abort
    <2>1. PICK code \in Reason : Stop(code, pendingSends)
      BY <1>0, <1>1 DEF WorkTimer, Abort, StopOnly
    <2>2. /\ Sent(Cancel(code)) /\ closing' = TRUE /\ primary' # "none" /\ closeFailed' = closeFailed
          /\ (primary # "none" => primary' = primary)
      BY <1>0, <2>1, StopSends
    <2>3. UNCHANGED <<protocolVars, outcome, toParent, connected, child>>
      BY <1>1 DEF WorkTimer, Abort, StopOnly
    <2>. QED BY <2>2, <2>3 DEF Quiet
  <1>2. CASE SendSettles
    <2>1. CASE UNCHANGED <<failureVars, closeVars, toChild>>
      BY <1>2, <2>1 DEF SendSettles, Quiet
    <2>2. CASE Stop("DATABASE_FAILURE", pendingSends - 1)
      <3>1. pendingSends - 1 \in Nat
        BY <1>0, <1>2 DEF SendSettles
      <3>. QED BY <1>0, <1>2, <2>2, <3>1, StopSends DEF SendSettles, Quiet
    <2>. QED BY <1>2, <2>1, <2>2 DEF SendSettles
  <1>3. CASE DeadlinePasses \/ OnClose \/ ParentCrash
    BY <1>3 DEF DeadlinePasses, OnClose, ParentCrash, Quiet
  <1>4. CASE ForceTimer \/ FinalTimer
    <2>1. closeFailed => closeFailed'
      BY <1>4 DEF ForceTimer, FinalTimer, ForceChild
    <2>. QED BY <1>4, <2>1 DEF ForceTimer, FinalTimer, Quiet
  <1>5. CASE OnExit
    <2>1. closeFailed => closeFailed'
      BY <1>5 DEF OnExit
    <2>2. primary # "none" => primary' = primary
      BY <1>5 DEF OnExit, NoFailure
    <2>. QED BY <1>5, <2>1, <2>2 DEF OnExit, BeginClose, Quiet
  <1>6. CASE OnDisconnect
    <2>1. closeFailed => closeFailed'
      BY <1>6 DEF OnDisconnect
    <2>2. (primary # "none" => primary' = primary) /\ (closing => closing')
      BY <1>6 DEF OnDisconnect, AddFailure, BeginClose
    <2>. QED BY <1>6, <2>1, <2>2 DEF OnDisconnect, Quiet
  <1>7. CASE SpawnFails
    BY <1>0, <1>7, StopSends DEF SpawnFails, Quiet
  <1>. QED BY <1>1, <1>2, <1>3, <1>4, <1>5, <1>6, <1>7 DEF ParentStep, ParentEvent

\* A message is read, accepted and handled by one of the five handlers (onMessage).
LEMMA Handles ==
  ASSUME IInv, OnMessage
  PROVE  /\ toParent # <<>> /\ toParent' = Tail(toParent) /\ call = "pending"
         /\ Acceptable(Head(toParent)) /\ MayFollow(ParentPosition, Head(toParent))
         /\ Head(toParent) \in ChildMessage /\ Head(toParent) \in Range(toParent)
         /\ Range(toParent') \subseteq Range(toParent)
         /\ UNCHANGED <<pgVars, disposalVars, late, connected, childVars, envVars>>
         /\ LET m == Head(toParent) IN
              \/ m.type = "ready" /\ OnReady
              \/ m.type = "phase" /\ OnPhase(m)
              \/ m.type = "request-drop" /\ OnRequestDrop
              \/ m.type = "closing" /\ OnClosing(m.obs)
              \/ m.type = "result" /\ OnResult(m.obs)
  <1>1. toParent # <<>> /\ toParent' = Tail(toParent) /\ call = "pending"
        /\ UNCHANGED <<pgVars, disposalVars, late, connected, childVars, envVars>>
    BY DEF OnMessage
  <1>2. /\ Acceptable(Head(toParent)) /\ MayFollow(ParentPosition, Head(toParent))
        /\ Head(toParent) \in ChildMessage /\ Head(toParent) \in Range(toParent)
    BY <1>1, HeadAcceptable DEF IInv
  <1>3. Range(toParent') \subseteq Range(toParent)
    BY <1>1, ReadMessages DEF IInv, TypeOK
  <1>. QED BY <1>1, <1>2, <1>3 DEF OnMessage

\* What the handlers of messages send and record (onMessage of the parent).
LEMMA HandlerForms ==
  ASSUME TypeOK
  PROVE  /\ OnReady => \/ closing /\ UNCHANGED <<ready, failureVars, closeVars, toChild>>
                       \/ /\ ready' = TRUE /\ closing' = TRUE /\ primary' # "none" /\ ~closing
                          /\ (primary # "none" => primary' = primary)
                          /\ Sent(Cancel("DEADLINE_EXCEEDED"))
                       \/ /\ ready' = TRUE /\ UNCHANGED <<failureVars, closeVars>> /\ ~closing
                          /\ Sent([type |-> "start"])
         /\ OnRequestDrop => \/ UNCHANGED <<permitted, outcome>> /\ closing /\ UNCHANGED <<failureVars, closeVars, toChild>>
                             \/ /\ UNCHANGED <<permitted, outcome>>
                                /\ closing' = TRUE /\ primary' # "none" /\ ~closing
                                /\ (primary # "none" => primary' = primary)
                                /\ Sent(Cancel("DEADLINE_EXCEEDED"))
                             \/ /\ permitted' = TRUE /\ outcome' = "unknown" /\ ~closing
                                /\ UNCHANGED <<failureVars, closeVars>> /\ Sent([type |-> "permit-drop"])
         /\ \A o : OnClosing(o) => Sent([type |-> "close"]) /\ closing' = TRUE
         /\ \A o : OnResult(o) => Sent([type |-> "finish"]) /\ closing' = TRUE
  <1>0. pendingSends \in Nat /\ "DEADLINE_EXCEEDED" \in Reason
    BY DEF TypeOK, Reason
  <1>1. \A m : SendToChild(m) => Sent(m)
    BY DEF SendToChild, Deliver, Sent
  <1>2. Stop("DEADLINE_EXCEEDED", pendingSends) =>
          /\ closing' = TRUE /\ primary' # "none" /\ (primary # "none" => primary' = primary)
          /\ Sent(Cancel("DEADLINE_EXCEEDED"))
    BY <1>0, StopSends
  <1>3. ASSUME OnReady
        PROVE  \/ closing /\ UNCHANGED <<ready, failureVars, closeVars, toChild>>
               \/ /\ ready' = TRUE /\ closing' = TRUE /\ primary' # "none" /\ ~closing
                  /\ (primary # "none" => primary' = primary)
                  /\ Sent(Cancel("DEADLINE_EXCEEDED"))
               \/ /\ ready' = TRUE /\ UNCHANGED <<failureVars, closeVars>> /\ ~closing
                  /\ Sent([type |-> "start"])
    <2>1. CASE closing
      BY <1>3, <2>1 DEF OnReady
    <2>2. CASE ~closing /\ late
      BY <1>2, <1>3, <2>2 DEF OnReady
    <2>3. CASE ~closing /\ ~late
      BY <1>1, <1>3, <2>3 DEF OnReady
    <2>. QED BY <2>1, <2>2, <2>3
  <1>4. ASSUME OnRequestDrop
        PROVE  \/ UNCHANGED <<permitted, outcome>> /\ closing /\ UNCHANGED <<failureVars, closeVars, toChild>>
               \/ /\ UNCHANGED <<permitted, outcome>>
                  /\ closing' = TRUE /\ primary' # "none" /\ ~closing
                  /\ (primary # "none" => primary' = primary)
                  /\ Sent(Cancel("DEADLINE_EXCEEDED"))
               \/ /\ permitted' = TRUE /\ outcome' = "unknown" /\ ~closing
                  /\ UNCHANGED <<failureVars, closeVars>> /\ Sent([type |-> "permit-drop"])
    <2>1. CASE closing
      BY <1>4, <2>1 DEF OnRequestDrop
    <2>2. CASE ~closing /\ late
      BY <1>2, <1>4, <2>2 DEF OnRequestDrop
    <2>3. CASE ~closing /\ ~late
      BY <1>1, <1>4, <2>3 DEF OnRequestDrop
    <2>. QED BY <2>1, <2>2, <2>3
  <1>5. ASSUME NEW o, OnClosing(o) PROVE Sent([type |-> "close"]) /\ closing' = TRUE
    BY <1>1, <1>5 DEF OnClosing, BeginClose
  <1>6. ASSUME NEW o, OnResult(o) PROVE Sent([type |-> "finish"]) /\ closing' = TRUE
    BY <1>1, <1>6 DEF OnResult, BeginClose
  <1>. QED BY <1>3, <1>4, <1>5, <1>6

-----------------------------------------------------------------------------
(* What a step of the engine does *)

EngineRest ==
  /\ child = "running"
  /\ UNCHANGED <<serverVars, conn, parentVars, toChild, connected, child, allocated, closeReceived,
                 childLate, dropped>>

\* To the next statement, and what is said on the way.
StatementMoves == {<<"create", "connect">>, <<"connect", "lock">>, <<"lock", "inspect">>,
                   <<"inspect", "recheck">>, <<"confirm", "drop">>, <<"drop", "verify">>}
OnTheWay(p) == IF p \in {"lock", "inspect", "verify"} THEN <<PhaseMessage(p)>> ELSE <<>>
Asking ==
  /\ <<cpc, cpc'>> \in StatementMoves
  /\ stmt'[Admin] = AskedAt(cpc') /\ answer'[Admin] = "pending"
  /\ cpc = "drop" => answer[Admin] = "ok"
  /\ ChildSays(OnTheWay(cpc'))
  /\ session' # "unused" /\ UNCHANGED <<observation, stopReason, condemned>>

\* To the permission.
Requesting ==
  /\ cpc = "recheck" /\ cpc' = "permit"
  /\ ChildSays(<<PhaseMessage("drop"), [type |-> "request-drop"]>>)
  /\ UNCHANGED <<stmtVars, observation, stopReason, condemned, session>>

\* To the report: why it may say what it says.
Finishing ==
  /\ cpc \in EnginePc /\ cpc' = "allocation" /\ observation' \in Observation
  /\ UNCHANGED <<stmtVars, stopReason, condemned>>
  /\ session' = session \/ (session = "open" /\ session' = "broken")
  /\ cpc = "permit" => stopReason # "none"
  /\ observation'.outcome = "unknown" => observation'.primary # "none" /\ cpc \in {"confirm", "drop", "verify"}
  /\ observation'.outcome = "removed" => cpc = "verify"
  /\ observation'.outcome = "already-absent" => cpc = "inspect"
  /\ Successful(observation') =>
       observation'.primary = "none" /\ rows[Admin] = {} /\ answer[Admin] = "ok" /\ session = "open"
  /\ \/ /\ ChildSays(<<[type |-> "closing", obs |-> observation']>>)
        /\ observation'.primary # "none" => observation'.at = PhaseIn(ChildPosition)
     \/ /\ cpc = "recheck" /\ observation'.at = "drop" /\ observation'.outcome = "not-attempted"
        /\ ChildSays(<<PhaseMessage("drop"), [type |-> "closing", obs |-> observation']>>)

\* The phase of a failure is the one the engine has announced.
LEMMA PhaseAnnounced ==
  ASSUME child = "running", cpc \in EnginePc
  PROVE  PhaseAt = PhaseIn(ChildPosition)
  <1>1. CASE cpc \in {"create", "connect"}
    BY <1>1 DEF PhaseAt, PhaseIn, ChildPosition
  <1>2. CASE cpc = "lock"
    BY <1>2 DEF PhaseAt, PhaseIn, ChildPosition
  <1>3. CASE cpc \in {"inspect", "recheck"}
    BY <1>3 DEF PhaseAt, PhaseIn, ChildPosition
  <1>4. CASE cpc \in {"permit", "confirm", "drop"}
    BY <1>4 DEF PhaseAt, PhaseIn, ChildPosition
  <1>5. CASE cpc = "verify"
    BY <1>5 DEF PhaseAt, PhaseIn, ChildPosition
  <1>. QED BY <1>1, <1>2, <1>3, <1>4, <1>5 DEF EnginePc, QueryPc

\* A failed work reports a failure of its phase, and nothing of the target
\* before the DROP was dispatched (the catch of executeRecovery).
LEMMA FailingFinishes ==
  ASSUME TypeOK, child = "running", cpc \in EnginePc, cpc = "permit" => stopReason # "none",
         NEW code \in Reason \cup Refusal, Fails(code), UNCHANGED <<stmtVars, stopReason, condemned>>,
         session' = session \/ (session = "open" /\ session' = "broken")
  PROVE  Finishing
  <1>1. /\ observation' \in Observation /\ cpc' = "allocation" /\ observation' = Failure(code)
        /\ FinishWork(Failure(code)) /\ Failure(code).primary # "none"
    BY FailsTyped, Typing
  <1>2. ChildSays(<<[type |-> "closing", obs |-> observation']>>)
    BY <1>1 DEF FinishWork
  <1>3. /\ observation'.outcome = IF cpc \in {"drop", "verify"} THEN "unknown" ELSE "not-attempted"
        /\ observation'.at = PhaseIn(ChildPosition)
    BY <1>1, PhaseAnnounced DEF Failure
  <1>4. observation'.primary # "none"
    BY <1>1
  <1>. QED BY <1>1, <1>2, <1>3, <1>4 DEF Finishing, Successful

\* A successful work reports what the answer showed (executeRecovery).
LEMMA EndingFinishes ==
  ASSUME TypeOK, child = "running", UNCHANGED <<stmtVars, stopReason, condemned, session>>,
         \/ cpc = "verify" /\ Ends("removed")
         \/ cpc = "inspect" /\ Ends("already-absent"),
         answer[Admin] = "ok", Absent, session = "open"
  PROVE  Finishing
  <1>1. PICK x \in {"removed", "already-absent"} : Ends(x) /\ cpc = (IF x = "removed" THEN "verify" ELSE "inspect")
    OBVIOUS
  <1>2. /\ observation' \in Observation /\ cpc' = "allocation"
        /\ observation' = [outcome |-> x, primary |-> "none", at |-> PhaseAt, closeFailed |-> FALSE]
    BY <1>1, EndsTyped, Typing DEF Outcome
  <1>3. ChildSays(<<[type |-> "closing", obs |-> observation']>>)
    BY <1>1, <1>2 DEF Ends, FinishWork
  <1>4. observation'.outcome = x /\ observation'.primary = "none"
    BY <1>2
  <1>5. cpc \in EnginePc /\ rows[Admin] = {}
    BY <1>1 DEF EnginePc, QueryPc, Absent
  <1>. QED BY <1>1, <1>2, <1>3, <1>4, <1>5 DEF Finishing, Successful

\* A statement sent leaves itself as the statement of the session.
LEMMA AsksForms ==
  ASSUME TypeOK, NEW p \in QueryPc, NEW kind \in {"connect", "lock", "inspect", "drop"}, NEW msgs,
         Asks(p, kind, msgs), Asked(kind) = AskedAt(p)
  PROVE  /\ stmt'[Admin] = AskedAt(cpc') /\ answer'[Admin] = "pending" /\ cpc' = p
         /\ ChildSays(msgs) /\ UNCHANGED <<observation, session>>
  BY AdminSession DEF TypeOK, PgTypeOK, Asks, Send, Asked

\* The steps of the engine are of these forms (executeRecovery).
LEMMA EngineForms ==
  ASSUME TypeOK, EngineStep
  PROVE  \/ EngineRest /\ Asking
         \/ EngineRest /\ Requesting
         \/ EngineRest /\ Finishing
         \/ ImportFails
         \/ SessionClosed
  <1>0. {"IDENTITY_MISMATCH", "OWNERSHIP_MISMATCH", "BUSY"} \subseteq Reason \cup Refusal
        /\ {"DATABASE_FAILURE", "DEADLINE_EXCEEDED"} \subseteq Reason \cup Refusal
        /\ \A p \in QueryPc : p \in EnginePc
    BY DEF Reason, Refusal, EnginePc
  <1>1. CASE SessionCreated
    <2>1. /\ stmt'[Admin] = Asked("connect") /\ answer'[Admin] = "pending"
      BY <1>1, AdminSession DEF SessionCreated, TypeOK, PgTypeOK, Send, Asked
    <2>2. cpc = "create" /\ cpc' = "connect" /\ session' = "open" /\ child = "running"
          /\ UNCHANGED <<toParent, observation>> /\ EngineFrame
      BY <1>1 DEF SessionCreated, Proceeds
    <2>3. ChildSays(OnTheWay("connect"))
      <3>1. OnTheWay("connect") = <<>>
        BY DEF OnTheWay
      <3>2. toParent \o <<>> = toParent
        BY ConcatEmptySeq DEF TypeOK
      <3>. QED BY <2>2, <3>1, <3>2 DEF ChildSays
    <2>4. EngineRest
      BY <2>2 DEF EngineRest, EngineFrame
    <2>5. Asking
      BY <2>1, <2>2, <2>3, AskedKinds DEF Asking, StatementMoves, EngineFrame
    <2>. QED BY <2>4, <2>5
  <1>2. ASSUME NEW p, NEW a, Replied(p, a), EngineFrame, NEW q \in QueryPc, <<p, q>> \in StatementMoves,
               p = "drop" => a = "ok",
               NEW kind \in {"connect", "lock", "inspect", "drop"}, Asked(kind) = AskedAt(q),
               Asks(q, kind, OnTheWay(q))
        PROVE  EngineRest /\ Asking
    <2>1. cpc = p /\ child = "running" /\ session = "open" /\ answer[Admin] = a
      BY <1>2 DEF Replied, Proceeds
    <2>2. /\ stmt'[Admin] = AskedAt(cpc') /\ answer'[Admin] = "pending" /\ cpc' = q
          /\ ChildSays(OnTheWay(q)) /\ UNCHANGED <<observation, session>>
      BY <1>2, AsksForms
    <2>. QED BY <1>2, <2>1, <2>2 DEF EngineRest, EngineFrame, Asking
  <1>3. ASSUME NEW p \in QueryPc, NEW a, Replied(p, a), EngineFrame, NEW code \in Reason \cup Refusal, Refuses(code)
        PROVE  EngineRest /\ Finishing
    <2>1. cpc = p /\ child = "running" /\ p # "permit"
      BY <1>3 DEF Replied, Proceeds, QueryPc
    <2>2. Fails(code) /\ UNCHANGED <<stmtVars, stopReason, condemned, session>>
      BY <1>3 DEF Refuses, EngineFrame
    <2>3. Finishing
      BY <1>0, <2>1, <2>2, FailingFinishes
    <2>. QED BY <1>3, <2>1, <2>3 DEF EngineRest, EngineFrame
  <1>4. CASE IdentityRead
    <2>1. OnTheWay("lock") = <<PhaseMessage("lock")>>
      BY DEF OnTheWay
    <2>. QED BY <1>0, <1>2, <1>3, <1>4, <2>1, AskedKinds DEF IdentityRead, StatementMoves, QueryPc
  <1>5. CASE LockGranted
    <2>1. OnTheWay("inspect") = <<PhaseMessage("inspect")>>
      BY DEF OnTheWay
    <2>. QED BY <1>2, <1>5, <2>1, AskedKinds DEF LockGranted, StatementMoves, QueryPc
  <1>6. CASE LockBusy
    BY <1>0, <1>3, <1>6 DEF LockBusy, QueryPc
  <1>7. CASE Inspected
    <2>0. Replied("inspect", "ok") /\ EngineFrame /\ "inspect" \in QueryPc
      BY <1>7 DEF Inspected, QueryPc
    <2>1. CASE Absent /\ Ends("already-absent") /\ UNCHANGED <<stmtVars, session>>
      <3>1. child = "running" /\ cpc = "inspect" /\ answer[Admin] = "ok" /\ session = "open"
        BY <2>0 DEF Replied, Proceeds
      <3>2. UNCHANGED <<stopReason, condemned>>
        BY <2>0 DEF EngineFrame
      <3>3. Finishing
        BY <2>1, <3>1, <3>2, EndingFinishes
      <3>. QED BY <2>0, <3>1, <3>3 DEF EngineRest, EngineFrame
    <2>2. CASE Asks("recheck", "inspect", <<>>)
      <3>1. OnTheWay("recheck") = <<>> /\ Asked("inspect") = AskedAt("recheck")
        BY AskedKinds DEF OnTheWay
      <3>. QED BY <1>2, <2>0, <2>2, <3>1 DEF StatementMoves, QueryPc
    <2>3. CASE Refuses("OWNERSHIP_MISMATCH") \/ Refuses("IDENTITY_MISMATCH")
      BY <1>0, <1>3, <2>0, <2>3
    <2>. QED BY <1>7, <2>1, <2>2, <2>3 DEF Inspected
  <1>8. CASE Rechecked
    <2>0. Replied("recheck", "ok") /\ EngineFrame /\ "recheck" \in QueryPc /\ UNCHANGED <<stmtVars, session>>
      BY <1>8 DEF Rechecked, QueryPc
    <2>1. child = "running" /\ cpc = "recheck"
      BY <2>0 DEF Replied, Proceeds
    <2>2. EngineRest /\ UNCHANGED <<stopReason, condemned>>
      BY <2>0, <2>1 DEF EngineRest, EngineFrame
    <2>3. CASE /\ cpc' = "permit"
               /\ ChildSays(<<PhaseMessage("drop"), [type |-> "request-drop"]>>)
               /\ UNCHANGED observation
      BY <2>0, <2>1, <2>2, <2>3 DEF Requesting
    <2>4. CASE LET o == [NotAttempted EXCEPT !.primary = "DATABASE_FAILURE", !.at = "drop"] IN
                 /\ observation' = o /\ cpc' = "allocation"
                 /\ ChildSays(<<PhaseMessage("drop"), [type |-> "closing", obs |-> o]>>)
      <3>. DEFINE o == [NotAttempted EXCEPT !.primary = "DATABASE_FAILURE", !.at = "drop"]
      <3>1. o \in Observation /\ o.at = "drop" /\ o.outcome = "not-attempted" /\ o.primary # "none"
        BY DEF Observation, NotAttempted, Outcome, Phase, Reason
      <3>2. observation' = o /\ cpc' = "allocation"
            /\ ChildSays(<<PhaseMessage("drop"), [type |-> "closing", obs |-> o]>>)
        BY <2>4
      <3>. HIDE DEF o
      <3>3. Finishing
        BY <2>0, <2>1, <2>2, <3>1, <3>2 DEF Finishing, Successful, EnginePc, QueryPc
      <3>. QED BY <2>2, <3>3
    <2>5. CASE Fails("IDENTITY_MISMATCH")
      BY <1>0, <1>3, <2>0, <2>5 DEF Refuses
    <2>. QED BY <1>8, <2>3, <2>4, <2>5 DEF Rechecked
  <1>9. CASE Confirmed
    <2>0. Replied("confirm", "ok") /\ EngineFrame /\ "confirm" \in QueryPc
      BY <1>9 DEF Confirmed, QueryPc
    <2>1. child = "running" /\ cpc = "confirm" /\ session = "open"
      BY <2>0 DEF Replied, Proceeds
    <2>2. CASE Asks("drop", "drop", <<>>)
      <3>1. OnTheWay("drop") = <<>> /\ Asked("drop") = AskedAt("drop")
        BY AskedKinds DEF OnTheWay
      <3>. QED BY <1>2, <2>0, <2>2, <3>1 DEF StatementMoves, QueryPc
    <2>3. CASE Refuses("IDENTITY_MISMATCH")
      BY <1>0, <1>3, <2>0, <2>3
    <2>4. CASE /\ FinishWork([outcome |-> "unknown", primary |-> "DEADLINE_EXCEEDED", at |-> "drop",
                              closeFailed |-> FALSE])
               /\ session' = "broken" /\ UNCHANGED stmtVars
      <3>. DEFINE o == [outcome |-> "unknown", primary |-> "DEADLINE_EXCEEDED", at |-> "drop",
                        closeFailed |-> FALSE]
      <3>1. o \in Observation /\ o.outcome = "unknown" /\ o.primary # "none" /\ o.at = "drop"
        BY ObservationShape DEF Outcome, Reason, Phase
      <3>2. observation' = o /\ cpc' = "allocation" /\ ChildSays(<<[type |-> "closing", obs |-> o]>>)
        BY <2>4 DEF FinishWork
      <3>3. PhaseIn(ChildPosition) = "drop"
        BY <2>1 DEF PhaseIn, ChildPosition
      <3>. HIDE DEF o
      <3>4. Finishing
        BY <2>0, <2>1, <2>4, <3>1, <3>2, <3>3 DEF Finishing, Successful, EnginePc, QueryPc, EngineFrame
      <3>. QED BY <2>0, <2>1, <3>4 DEF EngineRest, EngineFrame
    <2>. QED BY <1>9, <2>2, <2>3, <2>4 DEF Confirmed
  <1>10. CASE Dropped
    <2>1. OnTheWay("verify") = <<PhaseMessage("verify")>>
      BY DEF OnTheWay
    <2>. QED BY <1>2, <1>10, <2>1, AskedKinds DEF Dropped, StatementMoves, QueryPc
  <1>11. CASE Verified
    <2>0. Replied("verify", "ok") /\ EngineFrame /\ "verify" \in QueryPc
      BY <1>11 DEF Verified, QueryPc
    <2>1. CASE Absent /\ Ends("removed") /\ UNCHANGED <<stmtVars, session>>
      <3>1. child = "running" /\ cpc = "verify" /\ answer[Admin] = "ok" /\ session = "open"
        BY <2>0 DEF Replied, Proceeds
      <3>2. UNCHANGED <<stopReason, condemned>>
        BY <2>0 DEF EngineFrame
      <3>3. Finishing
        BY <2>1, <3>1, <3>2, EndingFinishes
      <3>. QED BY <2>0, <3>1, <3>3 DEF EngineRest, EngineFrame
    <2>2. CASE Refuses("IDENTITY_MISMATCH")
      BY <1>0, <1>3, <2>0, <2>2
    <2>. QED BY <1>11, <2>1, <2>2 DEF Verified
  <1>12. CASE EngineFails \/ Interrupted
    <2>1. PICK code \in Reason \cup Refusal : Fails(code)
      BY <1>0, <1>12 DEF EngineFails, Interrupted
    <2>2. /\ child = "running" /\ cpc \in EnginePc /\ (cpc = "permit" => stopReason # "none") /\ EngineFrame
          /\ UNCHANGED stmtVars /\ session' = IF session = "open" THEN "broken" ELSE session
      BY <1>12 DEF EngineFails, Interrupted, Proceeds, EnginePc, QueryPc
    <2>3. Finishing
      BY <2>1, <2>2, FailingFinishes DEF EngineFrame
    <2>. QED BY <2>2, <2>3 DEF EngineRest, EngineFrame
  <1>. QED BY <1>1, <1>4, <1>5, <1>6, <1>7, <1>8, <1>9, <1>10, <1>11, <1>12 DEF EngineStep

-----------------------------------------------------------------------------
(* What a step of the child does *)

\* Nothing but the will to go on, and the health of the session, is changed.
Weakens ==
  /\ child = "running"
  /\ UNCHANGED <<pgVars, parentVars, toParent, connected, child, engineVars, dropped>>
  /\ stopReason' = stopReason \/ (stopReason = "none" /\ stopReason' \in Reason)
  /\ session' = session \/ (session = "open" /\ session' = "broken")

\* What the child reads, and where it reads from.
Reads(m) ==
  /\ child = "running" /\ toChild # <<>> /\ m = Head(toChild)
  /\ m \in ParentMessage /\ m \in Range(toChild) /\ m = toChild[1]
  /\ Range(toChild') \subseteq Range(toChild)
  /\ toChild' = Tail(toChild) \/ toChild' = <<>>
  /\ UNCHANGED <<parentVars, serverVars, conn, child, dropped>>

\* The work starts.
Starts(m) ==
  /\ m.type = "start" /\ cpc = "idle" /\ cpc' = "create"
  /\ UNCHANGED <<stmtVars, toParent, connected, observation, closeReceived, stopReason, session>>
\* The awaited permission leads to one more inspection.
Goes(m) ==
  /\ m.type = "permit-drop" /\ cpc = "permit" /\ cpc' = "confirm"
  /\ stmt'[Admin] = Asked("inspect") /\ answer'[Admin] = "pending"
  /\ UNCHANGED <<toParent, connected, observation, closeReceived, stopReason, session>>
\* A late permission and a cancellation only weaken.
Minds(m) ==
  /\ m.type \in {"permit-drop", "cancel"} /\ Weakens /\ UNCHANGED closeReceived
  /\ m.type = "cancel" => cpc # "idle"
  /\ m.type = "cancel" => stopReason' # "none"
  /\ stopReason' = "CANCELLED" => stopReason = "CANCELLED" \/ (m.type = "cancel" /\ m.reason = "CANCELLED")
\* A cancellation before the start is the end of the work.
GivesUp(m) ==
  /\ m.type = "cancel" /\ cpc = "idle" /\ cpc' = "allocation" /\ observation' = NotAttempted
  /\ ChildSays(<<[type |-> "closing", obs |-> NotAttempted]>>)
  /\ UNCHANGED <<stmtVars, connected, closeReceived>>
  /\ stopReason' = stopReason \/ (stopReason = "none" /\ stopReason' = m.reason)
  /\ stopReason' # "none"
  /\ session' = session \/ (session = "open" /\ session' = "broken")
\* The budget of the close arrives.
IsAllocated(m) ==
  /\ m.type = "close" /\ cpc \in ClosingPc /\ ~closeReceived /\ closeReceived' = TRUE /\ Weakens
  /\ UNCHANGED stopReason
\* The end of the conversation.
HangsUp(m) ==
  /\ m.type = "finish" /\ cpc = "reported" /\ cpc' = "finished" /\ connected' = FALSE /\ toChild' = <<>>
  /\ UNCHANGED <<stmtVars, toParent, observation, closeReceived, stopReason, session>>

\* What the child does with a message (onMessage of the child).
LEMMA ReadForms ==
  ASSUME IInv, ChildReads
  PROVE  \E m \in ParentMessage :
           Reads(m) /\ (Starts(m) \/ Goes(m) \/ Minds(m) \/ GivesUp(m) \/ IsAllocated(m) \/ HangsUp(m))
  <1>. HIDE DEF ParentMessage
  <1>. DEFINE m == Head(toChild)
  <1>1. /\ child = "running" /\ toChild # <<>>
        /\ toChild' = IF m.type = "finish" THEN <<>> ELSE Tail(toChild)
        /\ UNCHANGED <<parentVars, child, childLate, envVars>>
    BY DEF ChildReads
  <1>2. m \in ParentMessage /\ m \in Range(toChild) /\ m = toChild[1] /\ Range(Tail(toChild)) \subseteq Range(toChild)
    BY <1>1, ReadMessages DEF IInv, TypeOK
  <1>3. /\ m.type \in {"start", "permit-drop", "close", "finish", "cancel"}
        /\ m.type = "cancel" => m.reason \in Reason
    BY <1>2, ParentMessageShape
  <1>4. Expected(m)
    BY <1>1, HeadExpected DEF IInv
  <1>5. Range(<<>>) = {}
    BY NoMessages
  <1>6. \/ m.type = "start" /\ OnStart
        \/ m.type = "permit-drop" /\ OnPermit
        \/ m.type = "cancel" /\ OnCancel(m.reason)
        \/ m.type = "close" /\ OnCloseMessage
        \/ m.type = "finish" /\ OnFinish
    BY DEF ChildReads
  <1>7. stopReason \in Reason \cup {"none"} /\ "DATABASE_FAILURE" \in Reason /\ "none" \notin Reason
        /\ "DATABASE_FAILURE" # "CANCELLED"
    BY DEF IInv, TypeOK, Reason
  <1>. SUFFICES Reads(m) /\ (Starts(m) \/ Goes(m) \/ Minds(m) \/ GivesUp(m) \/ IsAllocated(m) \/ HangsUp(m))
    BY <1>2
  <1>. HIDE DEF m
  <1>8. CASE m.type = "start"
    <2>1. OnStart /\ cpc = "idle"
      BY <1>4, <1>6, <1>8 DEF Expected
    <2>2. Reads(m)
      BY <1>1, <1>2, <1>8, <2>1 DEF Reads, OnStart, m
    <2>3. Starts(m)
      BY <1>8, <2>1 DEF Starts, OnStart
    <2>. QED BY <2>2, <2>3
  <1>9. CASE m.type = "permit-drop"
    <2>1. OnPermit
      BY <1>6, <1>9
    <2>2. Reads(m)
      BY <1>1, <1>2, <1>9, <2>1 DEF Reads, OnPermit, m
    <2>3. CASE cpc = "permit" /\ stopReason = "none" /\ ~childLate
      <3>1. stmt'[Admin] = Asked("inspect") /\ answer'[Admin] = "pending"
        BY <2>1, <2>3, AdminSession DEF OnPermit, Send, Asked, IInv, TypeOK, PgTypeOK
      <3>2. Goes(m)
        BY <1>9, <2>1, <2>3, <3>1 DEF Goes, OnPermit
      <3>. QED BY <2>2, <3>2
    <2>4. CASE ~(cpc = "permit" /\ stopReason = "none" /\ ~childLate)
      <3>1. Weakens
        BY <1>1, <1>7, <2>1, <2>4 DEF Weakens, OnPermit, Emergency, ChildStop
      <3>2. UNCHANGED closeReceived /\ (stopReason' = "CANCELLED" => stopReason = "CANCELLED")
        BY <1>7, <2>1, <2>4 DEF OnPermit, Emergency, ChildStop
      <3>3. Minds(m)
        BY <1>9, <3>1, <3>2 DEF Minds
      <3>. QED BY <2>2, <3>3
    <2>. QED BY <2>3, <2>4
  <1>10. CASE m.type = "cancel"
    <2>1. OnCancel(m.reason) /\ m.reason \in Reason
      BY <1>3, <1>6, <1>10
    <2>2. Reads(m)
      BY <1>1, <1>2, <1>10, <2>1 DEF Reads, OnCancel, m
    <2>3. CASE cpc = "idle"
      <3>1. GivesUp(m)
        BY <1>7, <1>10, <2>1, <2>3 DEF GivesUp, OnCancel, FinishWork, ChildStop
      <3>. QED BY <2>2, <3>1
    <2>4. CASE cpc # "idle"
      <3>1. Weakens
        BY <1>1, <1>7, <2>1, <2>4 DEF Weakens, OnCancel, ChildStop
      <3>2. Minds(m)
        BY <1>7, <1>10, <2>1, <2>4, <3>1 DEF Minds, OnCancel, ChildStop
      <3>. QED BY <2>2, <3>2
    <2>. QED BY <2>3, <2>4
  <1>11. CASE m.type = "close"
    <2>1. OnCloseMessage /\ cpc \in ClosingPc /\ ~closeReceived
      BY <1>4, <1>6, <1>11 DEF Expected
    <2>2. Reads(m)
      BY <1>1, <1>2, <1>11, <2>1 DEF Reads, OnCloseMessage, m
    <2>3. Weakens
      BY <1>1, <2>1 DEF Weakens, OnCloseMessage
    <2>4. IsAllocated(m)
      BY <1>11, <2>1, <2>3 DEF IsAllocated, OnCloseMessage
    <2>. QED BY <2>2, <2>4
  <1>12. CASE m.type = "finish"
    <2>1. OnFinish /\ cpc = "reported"
      BY <1>4, <1>6, <1>12 DEF Expected
    <2>2. Reads(m)
      BY <1>1, <1>2, <1>5, <1>12, <2>1 DEF Reads, OnFinish, m
    <2>3. HangsUp(m)
      BY <1>1, <1>12, <2>1 DEF HangsUp, OnFinish
    <2>. QED BY <2>2, <2>3
  <1>. QED BY <1>3, <1>8, <1>9, <1>10, <1>11, <1>12

\* The child's own timers and the loss of its channel or session weaken.
LEMMA WeakeningSteps ==
  ASSUME TypeOK, ChildDisconnects \/ ChildWorkTimer \/ ChildDeadlinePasses \/ SessionLost
  PROVE  Weakens /\ UNCHANGED <<toChild, closeReceived>> /\ (stopReason' = "CANCELLED" => stopReason = "CANCELLED")
  <1>1. "DATABASE_FAILURE" \in Reason /\ "DEADLINE_EXCEEDED" \in Reason
    BY DEF Reason
  <1>2. CASE ChildDisconnects
    BY <1>1, <1>2 DEF ChildDisconnects, Emergency, ChildStop, Weakens
  <1>3. CASE ChildWorkTimer
    BY <1>1, <1>3 DEF ChildWorkTimer, ChildStop, Weakens
  <1>4. CASE ChildDeadlinePasses \/ SessionLost
    BY <1>4 DEF ChildDeadlinePasses, SessionLost, Weakens
  <1>. QED BY <1>2, <1>3, <1>4

\* The server and the others touch neither process; a DROP that is answered was
\* executed, and a statement is answered once.
LEMMA ServerForms ==
  ASSUME TypeOK, Fence, ServerExecutes \/ ServerEnds \/ OthersAct
  PROVE  /\ UNCHANGED <<parentVars, toChild, toParent, connected, childVars, stmt>>
         /\ Gone => Gone'
         /\ dropped => dropped'
         /\ dropped' => dropped \/ stmt[Admin].kind = "drop"
         /\ answer'[Admin] = "pending" => answer[Admin] = "pending"
         /\ stmt[Admin].kind = "drop" /\ answer'[Admin] = "ok" => answer[Admin] = "ok" \/ dropped'
  <1>1. Gone => Gone'
    BY OnceGone DEF Fence
  <1>2. CASE ServerExecutes
    <2>1. /\ Admin \in Session /\ Target \in Name /\ answer \in [Session -> {"none", "pending", "ok", "refused", "error"}]
          /\ catalog \in [Name -> Oid \cup {NoOid}]
      BY AdminSession, RecoveryAssumption DEF TypeOK, PgTypeOK
    <2>2. /\ UNCHANGED <<parentVars, toChild, toParent, connected, childVars>> /\ (dropped => dropped')
          /\ dropped' = (dropped \/ (ExecDrop(Admin) /\ catalog' # catalog))
      BY <1>2 DEF ServerExecutes
    <2>3. CASE ExecDrop(Admin)
      <3>1. stmt[Admin].kind = "drop" /\ stmt[Admin].name = Target /\ UNCHANGED stmt
        BY <2>3, FenceStatement DEF ExecDrop, Running
      <3>2. CASE catalog[Target] = NoOid \/ \E k \in Client : conn[k] = catalog[Target]
        <4>1. answer'[Admin] = "error"
          BY <2>1, <2>3, <3>1, <3>2 DEF ExecDrop, Answer
        <4>. QED BY <1>1, <2>2, <3>1, <4>1
      <3>3. CASE ~(catalog[Target] = NoOid \/ \E k \in Client : conn[k] = catalog[Target])
        <4>1. catalog' = [catalog EXCEPT ![Target] = NoOid] /\ answer'[Admin] = "ok"
          BY <2>1, <2>3, <3>1, <3>3 DEF ExecDrop, Answer
        <4>2. catalog' # catalog
          BY <2>1, <3>3, <4>1
        <4>. QED BY <1>1, <2>2, <2>3, <3>1, <4>1, <4>2
      <3>. QED BY <3>2, <3>3
    <2>4. CASE ~ExecDrop(Admin)
      <3>1. stmt[Admin].kind # "drop" /\ UNCHANGED stmt /\ answer'[Admin] # "pending"
        <4>1. CASE ExecConnect(Admin) \/ ExecIdentity(Admin) \/ ExecCreate(Admin) \/ ExecSelect(Admin)
          BY <2>1, <4>1 DEF ExecConnect, ExecIdentity, ExecCreate, ExecSelect, Running, Answer
        <4>2. CASE ExecLock(Admin)
          BY <2>1, <4>2 DEF ExecLock, Running, Answer
        <4>. QED BY <1>2, <2>4, <4>1, <4>2 DEF ServerExecutes, Execute
      <3>. QED BY <1>1, <2>2, <2>4, <3>1
    <2>. QED BY <2>3, <2>4
  <1>3. CASE ServerEnds
    BY <1>1, <1>3 DEF ServerEnds, EndBackend
  <1>4. CASE OthersAct
    <2>1. UNCHANGED <<stmt, answer>>
      BY <1>4 DEF OthersAct, OutsideDDL, PeerActs, PeerDisconnects
    <2>. QED BY <1>1, <1>4, <2>1 DEF OthersAct
  <1>. QED BY <1>2, <1>3, <1>4

-----------------------------------------------------------------------------
(* The permission *)

\* Nothing is permitted, asked for or done.
LEMMA PermissionFrame ==
  ASSUME Permission, UNCHANGED <<permitted, requested, outcome, dropped>>,
         Says(toChild', "permit-drop") => Says(toChild, "permit-drop"),
         \/ cpc' \notin {"confirm", "drop", "verify"}
         \/ cpc' = cpc
         \/ cpc' = "confirm" /\ permitted
         \/ cpc' = "drop" /\ cpc = "confirm"
         \/ cpc' = "verify" /\ cpc = "drop" /\ dropped,
         \/ stmt'[Admin].kind # "drop"
         \/ stmt'[Admin].kind = "drop" /\ answer'[Admin] = "pending" /\ permitted
         \/ UNCHANGED <<stmt, answer>>
  PROVE  Permission'
  BY DEF Permission

\* A cancellation, a start, a close or a finish is no permission.
LEMMA NoPermit ==
  ASSUME TypeOK, NEW m \in ParentMessage, Sent(m)
  PROVE  \A t : Says(toChild', t) <=> Says(toChild, t) \/ (m.type = t /\ toChild' # toChild)
  <1>. HIDE DEF ParentMessage
  <1>1. CASE toChild' = toChild
    BY <1>1
  <1>2. CASE toChild' = Append(toChild, m) /\ toChild' # toChild
    BY <1>2, SaysAppended DEF TypeOK
  <1>. QED BY <1>1, <1>2 DEF Sent

\* Only the parent's handler of a request permits (superviseRecovery).
LEMMA PermissionParent ==
  ASSUME IInv, ParentStep \/ ParentEvent
  PROVE  Permission'
  <1>0. TypeOK /\ Permission
    BY DEF IInv
  <1>1. UNCHANGED <<pgVars, cpc, dropped>>
    BY ParentFrame
  <1>2. CASE ~OnMessage
    <2>1. Quiet
      BY <1>0, <1>2, QuietSteps
    <2>2. Says(toChild', "permit-drop") => Says(toChild, "permit-drop")
      <3>1. CASE toChild' = toChild
        BY <3>1
      <3>2. CASE \E r \in Reason : Sent(Cancel(r))
        <4>1. PICK r \in Reason : Sent(Cancel(r))
          BY <3>2
        <4>2. Cancel(r) \in ParentMessage /\ Cancel(r).type = "cancel"
          BY MessageTypes DEF Cancel
        <4>. QED BY <1>0, <4>1, <4>2, NoPermit
      <3>. QED BY <2>1, <3>1, <3>2 DEF Quiet
    <2>. QED BY <1>0, <1>1, <2>1, <2>2, PermissionFrame DEF Quiet
  <1>3. CASE OnMessage
    <2>. DEFINE m == Head(toParent)
    <2>1. /\ Acceptable(m)
          /\ \/ m.type = "ready" /\ OnReady
             \/ m.type = "phase" /\ OnPhase(m)
             \/ m.type = "request-drop" /\ OnRequestDrop
             \/ m.type = "closing" /\ OnClosing(m.obs)
             \/ m.type = "result" /\ OnResult(m.obs)
      BY <1>3, Handles
    <2>. HIDE DEF m
    <2>2. CASE OnReady
      <3>1. toChild' = toChild \/ \E n \in ParentMessage : Sent(n) /\ n.type # "permit-drop"
        <4>1. /\ Cancel("DEADLINE_EXCEEDED") \in ParentMessage /\ Cancel("DEADLINE_EXCEEDED").type = "cancel"
              /\ [type |-> "start"] \in ParentMessage /\ [type |-> "start"].type = "start"
          BY MessageTypes DEF Cancel, Reason
        <4>. QED BY <1>0, <2>2, <4>1, HandlerForms
      <3>2. Says(toChild', "permit-drop") => Says(toChild, "permit-drop")
        BY <1>0, <3>1, NoPermit
      <3>3. UNCHANGED <<permitted, requested, outcome>>
        BY <2>2 DEF OnReady
      <3>. QED BY <1>0, <1>1, <3>2, <3>3, PermissionFrame
    <2>3. CASE OnPhase(m)
      <3>1. UNCHANGED <<permitted, requested, outcome, toChild>>
        BY <2>3 DEF OnPhase
      <3>. QED BY <1>0, <1>1, <3>1, PermissionFrame
    <2>4. CASE OnRequestDrop
      <3>1. requested' = TRUE
        BY <2>4 DEF OnRequestDrop
      <3>2. CASE UNCHANGED <<permitted, outcome>> /\ (toChild' = toChild \/ Sent(Cancel("DEADLINE_EXCEEDED")))
        <4>1. Cancel("DEADLINE_EXCEEDED") \in ParentMessage /\ Cancel("DEADLINE_EXCEEDED").type = "cancel"
          BY MessageTypes DEF Cancel, Reason
        <4>2. Says(toChild', "permit-drop") => Says(toChild, "permit-drop")
          BY <1>0, <3>2, <4>1, NoPermit
        <4>. QED BY <1>0, <1>1, <3>1, <3>2, <4>2 DEF Permission
      <3>3. CASE permitted' = TRUE /\ outcome' = "unknown"
        BY <1>0, <1>1, <3>1, <3>3 DEF Permission
      <3>. QED BY <1>0, <2>4, <3>2, <3>3, HandlerForms
    <2>5. ASSUME NEW o, OnClosing(o) \/ OnResult(o), Believable(o)
          PROVE  Permission'
      <3>1. /\ UNCHANGED <<permitted, requested>>
            /\ outcome' = IF o.outcome \in {"removed", "already-absent"} THEN o.outcome ELSE outcome
        BY <2>5 DEF OnClosing, OnResult, Accept
      <3>2. PICK n \in ParentMessage : Sent(n) /\ n.type # "permit-drop"
        <4>1. /\ [type |-> "close"] \in ParentMessage /\ [type |-> "close"].type = "close"
              /\ [type |-> "finish"] \in ParentMessage /\ [type |-> "finish"].type = "finish"
          BY MessageTypes
        <4>. QED BY <1>0, <2>5, <4>1, HandlerForms
      <3>3. Says(toChild', "permit-drop") => Says(toChild, "permit-drop")
        BY <1>0, <3>2, NoPermit
      <3>4. CASE outcome' = outcome
        BY <1>0, <1>1, <3>1, <3>3, <3>4, PermissionFrame
      <3>5. CASE outcome' # outcome
        <4>1. \/ outcome' = "removed" /\ permitted
              \/ outcome' = "already-absent" /\ ~permitted
          BY <2>5, <3>1, <3>5 DEF Believable
        <4>. QED BY <1>0, <1>1, <3>1, <3>3, <4>1 DEF Permission
      <3>. QED BY <3>4, <3>5
    <2>6. m.type \in {"closing", "result"} => Believable(m.obs)
      BY <2>1 DEF Acceptable
    <2>. QED BY <2>1, <2>2, <2>3, <2>4, <2>5, <2>6
  <1>. QED BY <1>2, <1>3

\* The child asks for nothing that was not permitted (onMessage, executeRecovery).
LEMMA PermissionChild ==
  ASSUME IInv, ChildHandler \/ ChildEvent
  PROVE  Permission'
  <1>0. TypeOK /\ Permission /\ (cpc = "finished" => toChild = <<>>)
    BY DEF IInv, Agreement, Inbox
  <1>1. CASE ChildDisconnects \/ ChildWorkTimer \/ ChildDeadlinePasses \/ SessionLost
    <2>1. Weakens /\ UNCHANGED toChild
      BY <1>0, <1>1, WeakeningSteps
    <2>. QED BY <1>0, <2>1, PermissionFrame DEF Weakens
  <1>2. CASE ChildBoots \/ ChildExits
    BY <1>0, <1>2, PermissionFrame DEF ChildBoots, ChildExits
  <1>3. CASE ChildKilled
    <2>1. ~Says(<<>>, "permit-drop")
      BY NoMessages DEF Says
    <2>2. UNCHANGED <<permitted, requested, outcome, dropped, stmt, answer>> /\ toChild' = <<>> /\ cpc' = "idle"
      BY <1>3 DEF ChildKilled
    <2>. QED BY <1>0, <2>1, <2>2, PermissionFrame
  <1>4. CASE ChildReads
    <2>1. PICK m \in ParentMessage :
             Reads(m) /\ (Starts(m) \/ Goes(m) \/ Minds(m) \/ GivesUp(m) \/ IsAllocated(m) \/ HangsUp(m))
      BY <1>4, ReadForms
    <2>2. UNCHANGED <<permitted, requested, outcome, dropped>>
          /\ (Says(toChild', "permit-drop") => Says(toChild, "permit-drop"))
      BY <2>1, SaysLess DEF Reads
    <2>3. CASE Starts(m) \/ GivesUp(m) \/ HangsUp(m)
      <3>1. cpc' \notin {"confirm", "drop", "verify"} /\ UNCHANGED <<stmt, answer>>
        BY <2>3 DEF Starts, GivesUp, HangsUp
      <3>. QED BY <1>0, <2>2, <3>1, PermissionFrame
    <2>4. CASE Goes(m)
      <3>1. m.type = "permit-drop" /\ cpc' = "confirm" /\ stmt'[Admin] = Asked("inspect")
        BY <2>4 DEF Goes
      <3>2. Says(toChild, "permit-drop")
        BY <2>1, <3>1 DEF Says, Reads
      <3>3. permitted
        BY <1>0, <3>2 DEF Permission
      <3>4. stmt'[Admin].kind = "inspect"
        BY <3>1 DEF Asked
      <3>. QED BY <1>0, <2>2, <3>1, <3>3, <3>4, PermissionFrame
    <2>5. CASE Minds(m) \/ IsAllocated(m)
      <3>1. cpc' = cpc /\ UNCHANGED <<stmt, answer>>
        BY <2>5 DEF Minds, IsAllocated, Weakens
      <3>. QED BY <1>0, <2>2, <3>1, PermissionFrame
    <2>. QED BY <2>1, <2>3, <2>4, <2>5
  <1>. QED BY <1>1, <1>2, <1>3, <1>4 DEF ChildHandler, ChildEvent

\* The DROP is sent after the permission, and its success is the server's
\* (requestDrop, permitDrop and dispatchDrop of the engine).
LEMMA PermissionEngine ==
  ASSUME IInv, EngineStep
  PROVE  Permission'
  <1>0. TypeOK /\ Permission /\ Fence
    BY DEF IInv
  <1>1. CASE EngineRest /\ Asking
    <2>1. /\ UNCHANGED <<permitted, requested, outcome, dropped, toChild>>
          /\ <<cpc, cpc'>> \in StatementMoves /\ stmt'[Admin] = AskedAt(cpc') /\ answer'[Admin] = "pending"
          /\ (cpc = "drop" => answer[Admin] = "ok")
      BY <1>1 DEF EngineRest, Asking
    <2>2. CASE cpc = "confirm" /\ cpc' = "drop"
      <3>1. permitted
        BY <1>0, <2>2 DEF Permission
      <3>. QED BY <1>0, <2>1, <2>2, <3>1, PermissionFrame
    <2>3. CASE cpc = "drop" /\ cpc' = "verify"
      <3>1. stmt[Admin] = Asked("drop") /\ Asked("drop").kind = "drop"
        BY <1>0, <2>3, FenceAt, AskedKinds DEF QueryPc, StmtKind
      <3>2. dropped
        BY <1>0, <2>1, <2>3, <3>1 DEF Permission
      <3>3. stmt'[Admin].kind # "drop"
        BY <2>1, <2>3 DEF AskedAt, Asked
      <3>. QED BY <1>0, <2>1, <2>3, <3>2, <3>3, PermissionFrame
    <2>4. CASE cpc' \in {"connect", "lock", "inspect", "recheck"}
      <3>1. stmt'[Admin].kind # "drop"
        BY <2>1, <2>4 DEF AskedAt, Asked
      <3>. QED BY <1>0, <2>1, <2>4, <3>1, PermissionFrame
    <2>. QED BY <2>1, <2>2, <2>3, <2>4 DEF StatementMoves
  <1>2. CASE EngineRest /\ (Requesting \/ Finishing)
    <2>1. UNCHANGED <<permitted, requested, outcome, dropped, toChild, stmt, answer>> /\ cpc' \in {"permit", "allocation"}
      BY <1>2 DEF EngineRest, Requesting, Finishing
    <2>. QED BY <1>0, <2>1, PermissionFrame
  <1>3. CASE ImportFails
    BY <1>0, <1>3, PermissionFrame DEF ImportFails
  <1>4. CASE SessionClosed
    BY <1>0, <1>4, PermissionFrame DEF SessionClosed
  <1>. QED BY <1>0, <1>1, <1>2, <1>3, <1>4, EngineForms

\* A DROP comes after a permission, whoever is stopped or dead by then.
LEMMA PermissionStep ==
  ASSUME IInv, [Next]_vars
  PROVE  Permission'
  <1>0. TypeOK /\ Fence /\ Permission
    BY DEF IInv
  <1>1. CASE UNCHANGED vars
    BY <1>0, <1>1, PermissionFrame
  <1>2. CASE ServerExecutes \/ ServerEnds \/ OthersAct
    <2>1. /\ UNCHANGED <<permitted, requested, outcome, toChild, cpc, stmt>>
          /\ dropped => dropped'
          /\ dropped' => dropped \/ stmt[Admin].kind = "drop"
          /\ stmt[Admin].kind = "drop" /\ answer'[Admin] = "ok" => answer[Admin] = "ok" \/ dropped'
      BY <1>0, <1>2, ServerForms
    <2>. QED BY <1>0, <2>1 DEF Permission
  <1>. QED BY <1>1, <1>2, PermissionParent, PermissionChild, PermissionEngine DEF Next

-----------------------------------------------------------------------------
(* What the child says *)

\* One message (send of the child).
LEMMA SaysOne ==
  ASSUME TypeOK, NEW m \in ChildMessage, ChildSays(<<m>>)
  PROVE  /\ toParent' = toParent \/ (connected /\ toParent' = Append(toParent, m))
         /\ connected => toParent' = Append(toParent, m)
         /\ Range(toParent') \subseteq Range(toParent) \cup {m}
         /\ \A t : Says(toParent', t) => Says(toParent, t) \/ m.type = t
  <1>. HIDE DEF ChildMessage
  <1>0. toParent \in Seq(ChildMessage) /\ connected \in BOOLEAN
    BY DEF TypeOK
  <1>1. toParent' = IF connected THEN Append(toParent, m) ELSE toParent
    BY <1>0, SaidMessages DEF ChildSays
  <1>2. Range(Append(toParent, m)) = Range(toParent) \cup {m}
    BY <1>0, AppendedMessages
  <1>3. Range(toParent') \subseteq Range(toParent) \cup {m}
    BY <1>1, <1>2
  <1>. QED BY <1>0, <1>1, <1>3 DEF Says

\* Two messages in a row.
LEMMA SaysTwo ==
  ASSUME TypeOK, NEW m \in ChildMessage, NEW n \in ChildMessage, ChildSays(<<m, n>>)
  PROVE  /\ toParent' = toParent \/ (connected /\ toParent' = Append(Append(toParent, m), n))
         /\ connected => toParent' = Append(Append(toParent, m), n)
         /\ Range(toParent') \subseteq Range(toParent) \cup {m, n}
         /\ \A t : Says(toParent', t) => Says(toParent, t) \/ m.type = t \/ n.type = t
  <1>. HIDE DEF ChildMessage
  <1>0. toParent \in Seq(ChildMessage) /\ connected \in BOOLEAN
    BY DEF TypeOK
  <1>7. \A ch \in Seq(ChildMessage), x, y \in ChildMessage : ch \o <<x, y>> = Append(Append(ch, x), y)
    BY SaidMessages
  <1>5. toParent \o <<m, n>> = Append(Append(toParent, m), n)
    BY <1>0, <1>7
  <1>1. toParent' = IF connected THEN Append(Append(toParent, m), n) ELSE toParent
    BY <1>5 DEF ChildSays
  <1>2. Range(Append(toParent, m)) = Range(toParent) \cup {m} /\ Append(toParent, m) \in Seq(ChildMessage)
    BY <1>0, AppendedMessages
  <1>3. \A ch \in Seq(ChildMessage) : Range(Append(ch, n)) = Range(ch) \cup {n}
    BY AppendedMessages
  <1>6. Range(Append(Append(toParent, m), n)) = Range(Append(toParent, m)) \cup {n}
    BY <1>2, <1>3
  <1>4. Range(toParent') \subseteq Range(toParent) \cup {m, n}
    BY <1>1, <1>2, <1>6
  <1>. QED BY <1>0, <1>1, <1>4 DEF Says

\* The messages on the way to a statement are announcements of its phase.
LEMMA SaysOnTheWay ==
  ASSUME TypeOK, NEW p \in QueryPc, ChildSays(OnTheWay(p))
  PROVE  /\ p \in {"lock", "inspect", "verify"} =>
              PhaseMessage(p) \in ChildMessage /\ ChildSays(<<PhaseMessage(p)>>)
         /\ p \notin {"lock", "inspect", "verify"} => toParent' = toParent
         /\ \A m \in Range(toParent') : m \in Range(toParent) \/ (m = PhaseMessage(p) /\ p \in {"lock", "inspect", "verify"})
         /\ \A t : Says(toParent', t) => Says(toParent, t) \/ t = "phase"
  <1>0. toParent \in Seq(ChildMessage)
    BY DEF TypeOK
  <1>1. CASE p \in {"lock", "inspect", "verify"}
    <2>1. PhaseMessage(p) \in ChildMessage /\ PhaseMessage(p).type = "phase" /\ ChildSays(<<PhaseMessage(p)>>)
      BY <1>1 DEF PhaseMessage, ChildMessage, Phase, OnTheWay
    <2>. HIDE DEF ChildMessage
    <2>2. Range(toParent') \subseteq Range(toParent) \cup {PhaseMessage(p)}
      BY <2>1, SaysOne
    <2>. QED BY <1>1, <2>1, <2>2 DEF Says
  <1>2. CASE p \notin {"lock", "inspect", "verify"}
    <2>. HIDE DEF ChildMessage
    <2>1. toParent' = toParent
      BY <1>0, <1>2, ConcatEmptySeq DEF OnTheWay, ChildSays
    <2>. QED BY <1>2, <2>1 DEF Says
  <1>. QED BY <1>1, <1>2

-----------------------------------------------------------------------------
(* The reports *)

\* Where the reports are: in the channel, at the parent, and at the child.
LEMMA ReportsMean ==
  /\ \A o : o \in Reports <=> \/ \E m \in Range(toParent) : m.type \in {"closing", "result"} /\ o = m.obs
                              \/ o \in childClosing
                              \/ cpc \in ClosingPc /\ o = observation
  /\ \A o : o \in Reports' <=> \/ \E m \in Range(toParent') : m.type \in {"closing", "result"} /\ o = m.obs
                               \/ o \in childClosing'
                               \/ cpc' \in ClosingPc /\ o = observation'
  BY DEF Reports, Told

\* Reports are observations.
LEMMA ReportsTyped ==
  /\ TypeOK => \A o \in Reports : o \in Observation
  /\ TypeOK' => \A o \in Reports' : o \in Observation
  <1>. HIDE DEF Observation, ChildMessage
  <1>1. ASSUME TypeOK, NEW o \in Reports PROVE o \in Observation
    <2>1. Range(toParent) \subseteq ChildMessage
      BY <1>1, MessagesTyped DEF TypeOK
    <2>2. \A m \in ChildMessage : m.type \in {"closing", "result"} => m.obs \in Observation
      BY ChildMessageShape
    <2>. QED BY <1>1, <2>1, <2>2, ReportsMean DEF TypeOK
  <1>2. ASSUME TypeOK', NEW o \in Reports' PROVE o \in Observation
    <2>1. Range(toParent') \subseteq ChildMessage
      BY <1>2, MessagesTyped DEF TypeOK
    <2>2. \A m \in ChildMessage : m.type \in {"closing", "result"} => m.obs \in Observation
      BY ChildMessageShape
    <2>. QED BY <1>2, <2>1, <2>2, ReportsMean DEF TypeOK
  <1>. QED BY <1>1, <1>2

\* Two reports that differ in the close only.
LEMMA SameReport ==
  ASSUME NEW o \in Observation, NEW q \in Observation
  PROVE  q = [o EXCEPT !.closeFailed = q.closeFailed] <=>
           q.outcome = o.outcome /\ q.primary = o.primary /\ q.at = o.at
  BY DEF Observation

\* What was true stays true.
LEMMA TruthfulStays ==
  ASSUME NEW o, Truthful(o), permitted => permitted', dropped => dropped',
         requested' => requested \/ Says(toParent, "request-drop"),
         Says(toParent', "request-drop") => Says(toParent, "request-drop"),
         Gone => Gone', session' = "unused" => session = "unused",
         answer'[Admin] = "pending" => answer[Admin] = "pending"
  PROVE  Truthful(o)'
  BY DEF Truthful, Successful

\* No new report.
LEMMA ReportingFrame ==
  ASSUME Reporting, \A o : o \in Reports' => o \in Reports,
         UNCHANGED <<childClosing, terminal>>, permitted => permitted',
         outcome' = outcome \/ outcome' = "unknown",
         childClosing = {} \/ UNCHANGED <<phase, permitted>>,
         Reports # {} =>
            /\ dropped => dropped'
            /\ requested' => requested \/ Says(toParent, "request-drop")
            /\ Says(toParent', "request-drop") => Says(toParent, "request-drop")
            /\ Gone => Gone'
            /\ session' = "unused" => session = "unused"
            /\ answer'[Admin] = "pending" => answer[Admin] = "pending",
         Alive' => /\ Alive /\ (cpc \in ClosingPc => cpc' \in ClosingPc)
                   /\ cpc \in {"reported", "finished"} => cpc' \in {"reported", "finished"}
                   /\ Says(toParent', "result") => Says(toParent, "result")
  PROVE  Reporting'
  <1>1. \A o, q \in Reports' : q = [o EXCEPT !.closeFailed = q.closeFailed]
    BY DEF Reporting
  <1>2. (Alive /\ cpc \notin ClosingPc => Reports = {})'
    BY DEF Reporting
  <1>3. ASSUME NEW o \in Reports' PROVE Truthful(o)'
    <2>1. o \in Reports /\ Truthful(o)
      BY DEF Reporting
    <2>2. /\ dropped => dropped'
          /\ requested' => requested \/ Says(toParent, "request-drop")
          /\ Says(toParent', "request-drop") => Says(toParent, "request-drop")
          /\ Gone => Gone'
          /\ session' = "unused" => session = "unused"
          /\ answer'[Admin] = "pending" => answer[Admin] = "pending"
      BY <2>1
    <2>. QED BY <2>1, <2>2, TruthfulStays
  <1>4. (outcome \in {"removed", "already-absent"} => \E o \in childClosing : o.outcome = outcome)'
    BY DEF Reporting
  <1>5. \A o \in childClosing' : Believable(o)'
    BY DEF Reporting, Believable
  <1>6. (Alive /\ (terminal \/ Says(toParent, "result")) => cpc \in {"reported", "finished"})'
    BY DEF Reporting
  <1>. QED BY <1>1, <1>2, <1>3, <1>4, <1>5, <1>6 DEF Reporting

\* A report is a message or recorded, or what the child is about to say.
LEMMA NoNewReport ==
  ASSUME \A m \in Range(toParent') : m.type \in {"closing", "result"} => m \in Range(toParent),
         UNCHANGED childClosing,
         cpc' \in ClosingPc => cpc \in ClosingPc /\ observation' = observation
  PROVE  \A o : o \in Reports' => o \in Reports
  BY ReportsMean

\* The parent records the reports it reads (acceptObservation).
LEMMA ReportingParent ==
  ASSUME IInv, ParentStep \/ ParentEvent
  PROVE  Reporting'
  <1>. HIDE DEF ChildMessage, Observation
  <1>0. TypeOK /\ Order /\ Permission /\ Reporting
    BY DEF IInv, Agreement
  <1>1. UNCHANGED <<pgVars, cpc, observation, session, dropped>>
    BY ParentFrame
  <1>2. Gone => Gone'
    BY <1>1 DEF Gone
  <1>3. CASE ~OnMessage
    <2>1. Quiet
      BY <1>0, <1>3, QuietSteps
    <2>2. /\ UNCHANGED <<protocolVars, outcome, toParent>>
          /\ Alive' => Alive
      BY <2>1 DEF Quiet, Alive
    <2>3. \A o : o \in Reports' => o \in Reports
      BY <1>1, <2>2, NoNewReport
    <2>. QED BY <1>0, <1>1, <1>2, <2>2, <2>3, ReportingFrame
  <1>4. CASE OnMessage
    <2>. DEFINE m == Head(toParent)
    <2>1. /\ Acceptable(m) /\ MayFollow(ParentPosition, m)
          /\ m \in ChildMessage /\ m \in Range(toParent)
          /\ Range(toParent') \subseteq Range(toParent)
          /\ UNCHANGED child
          /\ \/ m.type = "ready" /\ OnReady
             \/ m.type = "phase" /\ OnPhase(m)
             \/ m.type = "request-drop" /\ OnRequestDrop
             \/ m.type = "closing" /\ OnClosing(m.obs)
             \/ m.type = "result" /\ OnResult(m.obs)
      BY <1>4, Handles
    <2>. HIDE DEF m
    <2>2. \A t : Says(toParent', t) => Says(toParent, t)
      BY <2>1, SaysLess
    <2>3. Alive' => Alive
      BY <2>1 DEF Alive
    <2>4. UNCHANGED childClosing => \A o : o \in Reports' => o \in Reports
      BY <1>1, <2>1, NoNewReport
    <2>5. CASE m.type = "ready" /\ OnReady
      <3>1. UNCHANGED <<phase, requested, permitted, terminal, childClosing, outcome>>
        BY <2>5 DEF OnReady
      <3>. QED BY <1>0, <1>1, <1>2, <2>2, <2>3, <2>4, <3>1, ReportingFrame
    <2>6. CASE m.type = "phase" /\ OnPhase(m)
      <3>1. UNCHANGED <<requested, permitted, terminal, childClosing, outcome>>
        BY <2>6 DEF OnPhase
      <3>2. childClosing = {}
        <4>1. ParentPosition \notin {"closing", "result"}
          BY <2>1, <2>6 DEF MayFollow, Course
        <4>. QED BY <1>0, <4>1, PositionMeans
      <3>. QED BY <1>0, <1>1, <1>2, <2>2, <2>3, <2>4, <3>1, <3>2, ReportingFrame
    <2>7. CASE m.type = "request-drop" /\ OnRequestDrop
      <3>1. /\ UNCHANGED <<phase, terminal, childClosing>>
            /\ permitted => permitted'
            /\ outcome' = outcome \/ outcome' = "unknown"
        BY <2>7 DEF OnRequestDrop
      <3>2. childClosing = {}
        <4>1. ParentPosition = "drop"
          BY <2>1, <2>7 DEF MayFollow
        <4>. QED BY <1>0, <4>1, PositionMeans
      <3>3. Says(toParent, "request-drop")
        BY <2>1, <2>7 DEF Says
      <3>. QED BY <1>0, <1>1, <1>2, <2>2, <2>3, <2>4, <3>1, <3>2, <3>3, ReportingFrame
    <2>8. m.type \in {"closing", "result"} => m.obs \in Reports /\ m.obs \in Observation /\ Believable(m.obs)
      BY <2>1, ReportsMean, ChildMessageShape DEF Acceptable
    <2>9. CASE m.type = "closing" /\ OnClosing(m.obs)
      <3>. DEFINE o == m.obs
      <3>1. /\ UNCHANGED <<phase, requested, permitted, terminal>>
            /\ outcome' = IF o.outcome \in {"removed", "already-absent"} THEN o.outcome ELSE outcome
            /\ childClosing' = {o}
        BY <2>9 DEF OnClosing, Accept
      <3>2. childClosing = {} /\ o \in Reports /\ Believable(o)
        BY <2>1, <2>8, <2>9 DEF Acceptable
      <3>. HIDE DEF o
      <3>3. \A q \in Reports' : q \in Reports
        BY <1>1, <2>1, <3>1, <3>2, ReportsMean
      <3>4. (\A q, r \in Reports : r = [q EXCEPT !.closeFailed = r.closeFailed])'
        BY <1>0, <3>3 DEF Reporting
      <3>5. (Alive /\ cpc \notin ClosingPc => Reports = {})'
        BY <1>0, <1>1, <2>3, <3>3 DEF Reporting
      <3>6. ASSUME NEW q \in Reports' PROVE Truthful(q)'
        <4>1. q \in Reports /\ Truthful(q)
          BY <1>0, <3>3 DEF Reporting
        <4>. QED BY <1>1, <1>2, <2>2, <3>1, <4>1, TruthfulStays
      <3>7. (outcome \in {"removed", "already-absent"} => \E q \in childClosing : q.outcome = outcome)'
        BY <1>0, <3>1, <3>2 DEF Reporting
      <3>8. (\A q \in childClosing : Believable(q))'
        BY <3>1, <3>2 DEF Believable
      <3>9. (Alive /\ (terminal \/ Says(toParent, "result")) => cpc \in {"reported", "finished"})'
        BY <1>0, <1>1, <2>2, <2>3, <3>1 DEF Reporting
      <3>. QED BY <3>4, <3>5, <3>6, <3>7, <3>8, <3>9 DEF Reporting
    <2>10. CASE m.type = "result" /\ OnResult(m.obs)
      <3>. DEFINE o == m.obs
      <3>1. /\ UNCHANGED <<phase, requested, permitted, childClosing>>
            /\ outcome' = IF o.outcome \in {"removed", "already-absent"} THEN o.outcome ELSE outcome
        BY <2>10 DEF OnResult, Accept
      <3>2. PICK c \in childClosing : o = [c EXCEPT !.closeFailed = o.closeFailed]
        BY <2>1, <2>10 DEF Acceptable
      <3>3. o.outcome = c.outcome
        <4>1. c \in Observation /\ o \in Observation
          BY <1>0, <2>8, <2>10 DEF TypeOK
        <4>. HIDE DEF o
        <4>. QED BY <3>2, <4>1, SameReport
      <3>. HIDE DEF o
      <3>4. \A q \in Reports' : q \in Reports
        BY <2>4, <3>1
      <3>5. (\A q, r \in Reports : r = [q EXCEPT !.closeFailed = r.closeFailed])'
        BY <1>0, <3>4 DEF Reporting
      <3>6. (Alive /\ cpc \notin ClosingPc => Reports = {})'
        BY <1>0, <1>1, <2>3, <3>4 DEF Reporting
      <3>7. ASSUME NEW q \in Reports' PROVE Truthful(q)'
        <4>1. q \in Reports /\ Truthful(q)
          BY <1>0, <3>4 DEF Reporting
        <4>. QED BY <1>1, <1>2, <2>2, <3>1, <4>1, TruthfulStays
      <3>8. (outcome \in {"removed", "already-absent"} => \E q \in childClosing : q.outcome = outcome)'
        BY <1>0, <3>1, <3>2, <3>3 DEF Reporting
      <3>9. (\A q \in childClosing : Believable(q))'
        BY <1>0, <3>1 DEF Reporting, Believable
      <3>10. (Alive /\ (terminal \/ Says(toParent, "result")) => cpc \in {"reported", "finished"})'
        <4>1. Says(toParent, "result")
          BY <2>1, <2>10 DEF Says
        <4>. QED BY <1>0, <1>1, <2>3, <4>1 DEF Reporting
      <3>. QED BY <3>5, <3>6, <3>7, <3>8, <3>9, <3>10 DEF Reporting
    <2>. QED BY <2>1, <2>5, <2>6, <2>7, <2>9, <2>10
  <1>. QED BY <1>3, <1>4

\* The work ends and is reported (finishWork of the child).
LEMMA ReportingEnds ==
  ASSUME Reporting, Alive, cpc \notin ClosingPc, cpc' \in ClosingPc,
         NEW o \in Observation, \A q \in Reports' : q = o, Truthful(o)',
         UNCHANGED <<outcome, childClosing, terminal>>,
         Says(toParent', "result") => Says(toParent, "result")
  PROVE  Reporting'
  <1>. HIDE DEF Observation
  <1>1. o = [o EXCEPT !.closeFailed = o.closeFailed]
    BY SameReport
  <1>2. Reports = {} /\ childClosing = {}
    BY ReportsMean DEF Reporting
  <1>3. (\A q, r \in Reports : r = [q EXCEPT !.closeFailed = r.closeFailed])'
    BY <1>1
  <1>4. (\A q \in Reports : Truthful(q))'
    <2>1. ASSUME NEW q \in Reports' PROVE Truthful(q)'
      <3>1. q = o
        OBVIOUS
      <3>. QED BY <3>1 DEF Truthful
    <2>. QED BY <2>1
  <1>5. (outcome \in {"removed", "already-absent"} => \E q \in childClosing : q.outcome = outcome)'
    BY <1>2 DEF Reporting
  <1>6. ~terminal /\ ~Says(toParent, "result")
    BY DEF Reporting, ClosingPc
  <1>. QED BY <1>2, <1>3, <1>4, <1>5, <1>6 DEF Reporting

\* The child says nothing of its work but at its end (onMessage of the child).
LEMMA ReportingChild ==
  ASSUME IInv, ChildHandler \/ ChildEvent
  PROVE  Reporting'
  <1>. HIDE DEF ChildMessage, Observation, ParentMessage
  <1>0. TypeOK /\ Reporting /\ Order /\ (child = "booting" => cpc = "idle" /\ toParent = <<>>)
    BY DEF IInv, Agreement, Conversation
  <1>1. CASE ChildDisconnects \/ ChildWorkTimer \/ ChildDeadlinePasses \/ SessionLost
    <2>1. Weakens
      BY <1>0, <1>1, WeakeningSteps
    <2>2. /\ UNCHANGED <<parentVars, toParent, dropped, catalog, answer, cpc, observation>> /\ Alive
          /\ session' = "unused" => session = "unused"
      BY <2>1 DEF Weakens, Alive
    <2>. QED BY <1>0, <2>2, NoNewReport, ReportingFrame DEF Gone
  <1>2. CASE ChildBoots
    <2>1. UNCHANGED <<parentVars, dropped, catalog, answer, cpc, observation>> /\ cpc = "idle" /\ Alive
          /\ ChildSays(<<[type |-> "ready"]>>)
      BY <1>0, <1>2 DEF ChildBoots, Alive
    <2>2. [type |-> "ready"] \in ChildMessage
      BY MessageTypes
    <2>3. /\ \A m \in Range(toParent') : m.type \in {"closing", "result"} => m \in Range(toParent)
          /\ \A t : Says(toParent', t) => Says(toParent, t) \/ t = "ready"
      <3>1. Range(toParent') \subseteq Range(toParent) \cup {[type |-> "ready"]}
        BY <1>0, <2>1, <2>2, SaysOne
      <3>. QED BY <3>1 DEF Says
    <2>4. Reports = {}
      BY <1>0, <2>1 DEF Reporting, ClosingPc
    <2>. QED BY <1>0, <2>1, <2>3, <2>4, NoNewReport, ReportingFrame
  <1>3. CASE ChildExits
    <2>1. UNCHANGED <<parentVars, toParent, dropped, catalog, answer, cpc, observation, session>> /\ Alive
      BY <1>3 DEF ChildExits, Alive
    <2>. QED BY <1>0, <2>1, NoNewReport, ReportingFrame DEF Gone
  <1>4. CASE ChildKilled
    <2>1. /\ UNCHANGED <<parentVars, dropped, catalog, answer>> /\ child' = "killed" /\ cpc' = "idle"
          /\ session' = "unused" => session = "unused"
      BY <1>4 DEF ChildKilled
    <2>2. Range(toParent') \subseteq Range(toParent)
      BY <1>0, <1>4, KeptMessages DEF TypeOK, ChildKilled
    <2>3. \A t : Says(toParent', t) => Says(toParent, t)
      BY <2>2, SaysLess
    <2>4. ~Alive' /\ cpc' \notin ClosingPc
      BY <2>1 DEF Alive, ClosingPc
    <2>5. \A o : o \in Reports' => o \in Reports
      BY <2>1, <2>2, <2>4, NoNewReport
    <2>. QED BY <1>0, <2>1, <2>3, <2>4, <2>5, ReportingFrame DEF Gone
  <1>5. CASE ChildReads
    <2>1. PICK m \in ParentMessage :
             Reads(m) /\ (Starts(m) \/ Goes(m) \/ Minds(m) \/ GivesUp(m) \/ IsAllocated(m) \/ HangsUp(m))
      BY <1>5, ReadForms
    <2>2. UNCHANGED <<parentVars, dropped, catalog>> /\ Alive
      BY <2>1 DEF Reads, Alive
    <2>3. CASE Starts(m)
      <3>1. UNCHANGED <<answer, toParent, observation, session>> /\ cpc = "idle" /\ cpc' = "create"
        BY <2>3 DEF Starts
      <3>2. cpc \notin ClosingPc /\ cpc' \notin ClosingPc /\ cpc \notin {"reported", "finished"}
        BY <3>1 DEF ClosingPc
      <3>. QED BY <1>0, <2>2, <3>1, <3>2, NoNewReport, ReportingFrame DEF Gone
    <2>4. CASE Goes(m)
      <3>1. UNCHANGED <<toParent, observation, session>> /\ cpc = "permit" /\ cpc' = "confirm"
        BY <2>4 DEF Goes
      <3>2. cpc \notin ClosingPc /\ cpc' \notin ClosingPc /\ cpc \notin {"reported", "finished"}
        BY <3>1 DEF ClosingPc
      <3>3. Reports = {}
        BY <1>0, <2>2, <3>2 DEF Reporting
      <3>. QED BY <1>0, <2>2, <3>1, <3>2, <3>3, NoNewReport, ReportingFrame
    <2>5. CASE Minds(m) \/ IsAllocated(m)
      <3>1. /\ UNCHANGED <<answer, toParent, observation, cpc>>
            /\ session' = "unused" => session = "unused"
        BY <2>5 DEF Minds, IsAllocated, Weakens
      <3>. QED BY <1>0, <2>2, <3>1, NoNewReport, ReportingFrame DEF Gone
    <2>6. CASE HangsUp(m)
      <3>1. UNCHANGED <<answer, toParent, observation, session>> /\ cpc = "reported" /\ cpc' = "finished"
        BY <2>6 DEF HangsUp
      <3>2. cpc \in ClosingPc /\ cpc' \in ClosingPc
        BY <3>1 DEF ClosingPc
      <3>. QED BY <1>0, <2>2, <3>1, <3>2, NoNewReport, ReportingFrame DEF Gone
    <2>7. CASE GivesUp(m)
      <3>1. /\ cpc = "idle" /\ cpc' = "allocation" /\ observation' = NotAttempted
            /\ ChildSays(<<[type |-> "closing", obs |-> NotAttempted]>>)
        BY <2>7 DEF GivesUp
      <3>2. cpc \notin ClosingPc /\ cpc' \in ClosingPc /\ NotAttempted \in Observation
        BY <3>1, ObservationShape DEF ClosingPc
      <3>3. /\ Range(toParent') \subseteq Range(toParent) \cup {[type |-> "closing", obs |-> NotAttempted]}
            /\ \A t : Says(toParent', t) => Says(toParent, t) \/ t = "closing"
        <4>1. [type |-> "closing", obs |-> NotAttempted] \in ChildMessage
          BY <3>2, MessageTypes
        <4>. QED BY <1>0, <3>1, <4>1, SaysOne
      <3>4. Reports = {}
        BY <1>0, <2>2, <3>2 DEF Reporting
      <3>5. \A q \in Reports' : q = NotAttempted
        BY <2>2, <3>1, <3>3, <3>4, ReportsMean
      <3>6. Truthful(NotAttempted)'
        BY DEF Truthful, Successful, NotAttempted
      <3>7. Says(toParent', "result") => Says(toParent, "result")
        BY <3>3
      <3>. QED BY <1>0, <2>2, <3>2, <3>5, <3>6, <3>7, ReportingEnds
    <2>. QED BY <2>1, <2>3, <2>4, <2>5, <2>6, <2>7
  <1>. QED BY <1>1, <1>2, <1>3, <1>4, <1>5 DEF ChildHandler, ChildEvent

\* What the end of the work says: the report, and the phase it may announce.
LEMMA FinishingSays ==
  ASSUME TypeOK, Finishing
  PROVE  /\ [type |-> "closing", obs |-> observation'] \in ChildMessage
         /\ PhaseMessage("drop") \in ChildMessage /\ PhaseMessage("drop").type = "phase"
         /\ \A m \in Range(toParent') : \/ m \in Range(toParent)
                                        \/ m = [type |-> "closing", obs |-> observation']
                                        \/ m = PhaseMessage("drop")
         /\ \A t : Says(toParent', t) => Says(toParent, t) \/ t \in {"closing", "phase"}
  <1>. HIDE DEF ChildMessage, Observation
  <1>. DEFINE c == [type |-> "closing", obs |-> observation']
  <1>1. c \in ChildMessage /\ PhaseMessage("drop") \in ChildMessage /\ PhaseMessage("drop").type = "phase"
    BY MessageTypes DEF Finishing, Phase, PhaseMessage
  <1>2. c.type = "closing"
    OBVIOUS
  <1>3. ChildSays(<<c>>) \/ ChildSays(<<PhaseMessage("drop"), c>>)
    BY DEF Finishing
  <1>. HIDE DEF c
  <1>4. Range(toParent') \subseteq Range(toParent) \cup {c, PhaseMessage("drop")}
    <2>1. CASE ChildSays(<<c>>)
      BY <1>1, <2>1, SaysOne
    <2>2. CASE ChildSays(<<PhaseMessage("drop"), c>>)
      BY <1>1, <2>2, SaysTwo
    <2>. QED BY <1>3, <2>1, <2>2
  <1>. QED BY <1>1, <1>2, <1>4 DEF Says, c

\* The report of the engine is true (executeRecovery).
LEMMA ReportingEngine ==
  ASSUME IInv, EngineStep
  PROVE  Reporting'
  <1>. HIDE DEF ChildMessage, Observation
  <1>0. TypeOK /\ Fence /\ Permission /\ Reporting /\ Order
    BY DEF IInv, Agreement
  <1>1. CASE EngineRest /\ Asking
    <2>1. /\ UNCHANGED <<parentVars, dropped, child>> /\ child = "running"
          /\ <<cpc, cpc'>> \in StatementMoves /\ ChildSays(OnTheWay(cpc'))
      BY <1>1 DEF EngineRest, Asking
    <2>2. cpc \notin ClosingPc /\ cpc' \notin ClosingPc /\ cpc' \in QueryPc
      BY <2>1 DEF StatementMoves, ClosingPc, QueryPc
    <2>3. Reports = {}
      BY <1>0, <2>1, <2>2 DEF Reporting, Alive
    <2>4. /\ \A m \in Range(toParent') : m.type \in {"closing", "result"} => m \in Range(toParent)
          /\ \A t : Says(toParent', t) => Says(toParent, t) \/ t = "phase"
      <3>1. /\ \A m \in Range(toParent') : m \in Range(toParent) \/ m = PhaseMessage(cpc')
            /\ \A t : Says(toParent', t) => Says(toParent, t) \/ t = "phase"
        BY <1>0, <2>1, <2>2, SaysOnTheWay
      <3>2. PhaseMessage(cpc').type = "phase"
        BY DEF PhaseMessage
      <3>. QED BY <3>1, <3>2
    <2>5. \A o : o \in Reports' => o \in Reports
      BY <2>1, <2>2, <2>4, NoNewReport
    <2>. QED BY <1>0, <2>1, <2>2, <2>3, <2>4, <2>5, ReportingFrame DEF Alive, ClosingPc
  <1>2. CASE EngineRest /\ Requesting
    <2>1. /\ UNCHANGED <<parentVars, dropped, child>> /\ child = "running" /\ cpc = "recheck" /\ cpc' = "permit"
          /\ ChildSays(<<PhaseMessage("drop"), [type |-> "request-drop"]>>)
      BY <1>2 DEF EngineRest, Requesting
    <2>2. cpc \notin ClosingPc /\ cpc' \notin ClosingPc
      BY <2>1 DEF ClosingPc
    <2>3. Reports = {}
      BY <1>0, <2>1, <2>2 DEF Reporting, Alive
    <2>4. /\ \A m \in Range(toParent') : m.type \in {"closing", "result"} => m \in Range(toParent)
          /\ Says(toParent', "result") => Says(toParent, "result")
      <3>1. PhaseMessage("drop") \in ChildMessage /\ [type |-> "request-drop"] \in ChildMessage
        BY MessageTypes DEF Phase
      <3>2. Range(toParent') \subseteq Range(toParent) \cup {PhaseMessage("drop"), [type |-> "request-drop"]}
        BY <1>0, <2>1, <3>1, SaysTwo
      <3>. QED BY <3>2 DEF PhaseMessage, Says
    <2>5. \A o : o \in Reports' => o \in Reports
      BY <2>1, <2>2, <2>4, NoNewReport
    <2>. QED BY <1>0, <2>1, <2>2, <2>3, <2>4, <2>5, ReportingFrame DEF Alive, ClosingPc
  <1>3. CASE EngineRest /\ Finishing
    <2>0. PICK o \in Observation : o = observation'
      BY <1>3 DEF Finishing
    <2>1. /\ UNCHANGED <<parentVars, dropped, catalog, child, answer>> /\ child = "running"
          /\ cpc \in EnginePc /\ cpc' = "allocation"
          /\ session' = session \/ (session = "open" /\ session' = "broken")
      BY <1>3 DEF EngineRest, Finishing
    <2>2. cpc \notin ClosingPc /\ cpc' \in ClosingPc /\ Alive
      BY <2>1 DEF ClosingPc, EnginePc, QueryPc, Alive
    <2>3. Reports = {}
      BY <1>0, <2>2 DEF Reporting
    <2>4. \A q \in Reports' : q = o
      <3>1. \A m \in Range(toParent') : m.type \in {"closing", "result"} => m \in Range(toParent) \/ m.obs = o
        BY <1>0, <1>3, <2>0, FinishingSays
      <3>. QED BY <2>0, <2>1, <2>3, <3>1, ReportsMean
    <2>5. /\ Says(toParent', "result") => Says(toParent, "result")
          /\ Says(toParent', "request-drop") => Says(toParent, "request-drop")
      BY <1>0, <1>3, FinishingSays
    <2>6. Truthful(o)'
      <3>1. o.outcome = "unknown" => permitted /\ o.primary # "none"
        BY <1>0, <1>3, <2>0 DEF Finishing, Permission
      <3>2. o.outcome = "removed" => dropped
        BY <1>0, <1>3, <2>0 DEF Finishing, Permission
      <3>3. o.outcome = "already-absent" => ~requested /\ ~Says(toParent, "request-drop")
        <4>1. o.outcome = "already-absent" => cpc = "inspect"
          BY <1>3, <2>0 DEF Finishing
        <4>. QED BY <1>0, <2>2, <4>1 DEF Order
      <3>4. Successful(o) => o.primary = "none" /\ Gone /\ session # "unused" /\ answer[Admin] # "pending"
        <4>1. ASSUME Successful(o)
              PROVE  o.primary = "none" /\ rows[Admin] = {} /\ answer[Admin] = "ok" /\ session = "open"
                     /\ cpc \in {"verify", "inspect"}
          BY <1>3, <2>0, <4>1 DEF Finishing, Successful
        <4>2. cpc \in {"verify", "inspect"} /\ rows[Admin] = {} /\ answer[Admin] = "ok" => Gone
          BY <1>0, FenceAt DEF QueryPc
        <4>. QED BY <4>1, <4>2
      <3>5. Truthful(o)
        BY <3>1, <3>2, <3>3, <3>4 DEF Truthful
      <3>6. Gone => Gone'
        BY <2>1 DEF Gone
      <3>. QED BY <2>1, <2>5, <3>5, <3>6, TruthfulStays
    <2>. QED BY <1>0, <2>1, <2>2, <2>4, <2>5, <2>6, ReportingEnds
  <1>4. CASE ImportFails
    <2>1. /\ UNCHANGED <<parentVars, toParent, dropped, catalog, answer, child, observation>> /\ cpc = "create" /\ cpc' = "failed"
          /\ child = "running"
          /\ session' = "unused" => session = "unused"
      BY <1>4 DEF ImportFails, Proceeds, Emergency, ChildStop
    <2>2. cpc \notin ClosingPc /\ cpc' \notin ClosingPc
      BY <2>1 DEF ClosingPc
    <2>3. \A q : q \in Reports' => q \in Reports
      BY <2>1, <2>2, NoNewReport
    <2>. QED BY <1>0, <2>1, <2>2, <2>3, ReportingFrame DEF Gone, Alive
  <1>5. CASE SessionClosed
    <2>1. /\ UNCHANGED <<parentVars, dropped, catalog, answer, child>> /\ child = "running"
          /\ cpc = "allocation" /\ cpc' = "reported"
          /\ session' = "unused" => session = "unused"
      BY <1>5 DEF SessionClosed
    <2>2. PICK b \in BOOLEAN : /\ observation' = [observation EXCEPT !.closeFailed = b]
                               /\ ChildSays(<<[type |-> "result", obs |-> observation']>>)
      BY <1>5 DEF SessionClosed
    <2>. DEFINE o == observation'
    <2>3. /\ observation \in Observation /\ o \in Observation
          /\ o.outcome = observation.outcome /\ o.primary = observation.primary /\ o.at = observation.at
      <3>1. observation \in Observation
        BY <1>0 DEF TypeOK
      <3>. QED BY <2>2, <3>1, ClosedObservation
    <2>4. cpc \in ClosingPc /\ cpc' \in ClosingPc
      BY <2>1 DEF ClosingPc
    <2>5. /\ Range(toParent') \subseteq Range(toParent) \cup {[type |-> "result", obs |-> o]}
          /\ \A t : Says(toParent', t) => Says(toParent, t) \/ t = "result"
      <3>1. [type |-> "result", obs |-> o] \in ChildMessage
        BY <2>3, MessageTypes
      <3>. QED BY <1>0, <2>2, <3>1, SaysOne
    <2>6. observation \in Reports
      BY <2>4, ReportsMean
    <2>7. \A q \in Reports' : q \in Reports \/ q = o
      <3>. HIDE DEF o
      <3>1. \A m \in Range(toParent') : m.type \in {"closing", "result"} => m \in Range(toParent) \/ m.obs = o
        BY <2>5
      <3>. QED BY <2>1, <3>1, ReportsMean DEF o
    <2>. HIDE DEF o
    <2>8. \A q \in Reports' : /\ q \in Observation /\ q.outcome = observation.outcome
                              /\ q.primary = observation.primary /\ q.at = observation.at
      <3>1. ASSUME NEW q \in Reports
            PROVE  /\ q \in Observation /\ q.outcome = observation.outcome
                   /\ q.primary = observation.primary /\ q.at = observation.at
        <4>1. q \in Observation
          BY <1>0, ReportsTyped
        <4>2. q = [observation EXCEPT !.closeFailed = q.closeFailed]
          BY <1>0, <2>6 DEF Reporting
        <4>. QED BY <2>3, <4>1, <4>2, SameReport
      <3>. QED BY <2>3, <2>7, <3>1
    <2>9. (\A q, r \in Reports : r = [q EXCEPT !.closeFailed = r.closeFailed])'
      <3>1. ASSUME NEW q \in Reports', NEW r \in Reports' PROVE r = [q EXCEPT !.closeFailed = r.closeFailed]
        BY <2>8, SameReport
      <3>. QED BY <3>1
    <2>10. (\A q \in Reports : Truthful(q))'
      <3>1. ASSUME NEW q \in Reports' PROVE Truthful(q)'
        <4>1. Truthful(observation)
          BY <1>0, <2>6 DEF Reporting
        <4>2. Truthful(q)
          BY <2>8, <4>1 DEF Truthful, Successful
        <4>3. Says(toParent', "request-drop") => Says(toParent, "request-drop")
          BY <2>5
        <4>4. Gone => Gone'
          BY <2>1 DEF Gone
        <4>. QED BY <2>1, <4>2, <4>3, <4>4, TruthfulStays
      <3>. QED BY <3>1
    <2>11. (outcome \in {"removed", "already-absent"} => \E q \in childClosing : q.outcome = outcome)'
      BY <1>0, <2>1 DEF Reporting
    <2>12. (\A q \in childClosing : Believable(q))'
      BY <1>0, <2>1 DEF Reporting, Believable
    <2>. QED BY <2>1, <2>4, <2>9, <2>10, <2>11, <2>12 DEF Reporting
  <1>. QED BY <1>0, <1>1, <1>2, <1>3, <1>4, <1>5, EngineForms

\* What is reported is true and stays so.
LEMMA ReportingStep ==
  ASSUME IInv, [Next]_vars
  PROVE  Reporting'
  <1>0. TypeOK /\ Fence /\ Reporting
    BY DEF IInv, Agreement
  <1>1. CASE UNCHANGED vars
    BY <1>0, <1>1, NoNewReport, ReportingFrame DEF Gone, Alive
  <1>2. CASE ServerExecutes \/ ServerEnds \/ OthersAct
    <2>1. /\ UNCHANGED <<parentVars, toParent, childVars>>
          /\ Gone => Gone'
          /\ dropped => dropped'
          /\ answer'[Admin] = "pending" => answer[Admin] = "pending"
      BY <1>0, <1>2, ServerForms
    <2>. QED BY <1>0, <2>1, NoNewReport, ReportingFrame DEF Alive
  <1>. QED BY <1>1, <1>2, ReportingParent, ReportingChild, ReportingEngine DEF Next

-----------------------------------------------------------------------------
(* The conversation *)

\* Nothing is said.
LEMMA NothingContinues ==
  ASSUME NEW p
  PROVE  Continues(p, <<>>) /\ EndOf(p, <<>>) = p
  <1>1. Len(<<>>) = 0
    BY NoMessages
  <1>. QED BY <1>1 DEF Continues, EndOf

\* One more message (send of the child).
LEMMA AppendedContinues ==
  ASSUME NEW p, NEW ch \in Seq(ChildMessage), NEW m \in ChildMessage,
         Continues(p, ch), MayFollow(EndOf(p, ch), m)
  PROVE  Continues(p, Append(ch, m)) /\ EndOf(p, Append(ch, m)) = PositionOf(m)
  <1>. HIDE DEF ChildMessage
  <1>1. /\ Len(Append(ch, m)) = Len(ch) + 1 /\ Append(ch, m)[Len(ch) + 1] = m
        /\ \A i \in 1..Len(ch) : Append(ch, m)[i] = ch[i]
        /\ Append(ch, m) \in Seq(ChildMessage)
    BY AppendedMessages
  <1>2. Len(ch) \in Nat /\ (ch = <<>> <=> Len(ch) = 0)
    BY LenProperties, EmptySeq
  <1>3. Append(ch, m) # <<>>
    BY <1>1, <1>2, EmptySeq
  <1>4. EndOf(p, Append(ch, m)) = PositionOf(m)
    BY <1>1, <1>3 DEF EndOf
  <1>5. ASSUME NEW i \in 1..(Len(ch) + 1)
        PROVE  MayFollow(IF i = 1 THEN p ELSE PositionOf(Append(ch, m)[i - 1]), Append(ch, m)[i])
    <2>1. CASE i = Len(ch) + 1
      <3>1. CASE Len(ch) = 0
        BY <1>1, <1>2, <2>1, <3>1 DEF EndOf
      <3>2. CASE Len(ch) # 0
        <4>1. i # 1 /\ i - 1 = Len(ch) /\ Append(ch, m)[i - 1] = ch[Len(ch)] /\ Append(ch, m)[i] = m
          BY <1>1, <1>2, <2>1, <3>2
        <4>2. EndOf(p, ch) = PositionOf(ch[Len(ch)])
          BY <1>2, <3>2 DEF EndOf
        <4>. QED BY <4>1, <4>2
      <3>. QED BY <3>1, <3>2
    <2>2. CASE i # Len(ch) + 1
      <3>1. i \in 1..Len(ch) /\ (i # 1 => i - 1 \in 1..Len(ch))
        BY <1>2, <2>2
      <3>2. Append(ch, m)[i] = ch[i] /\ (i # 1 => Append(ch, m)[i - 1] = ch[i - 1])
        BY <1>1, <3>1
      <3>3. MayFollow(IF i = 1 THEN p ELSE PositionOf(ch[i - 1]), ch[i])
        BY <3>1 DEF Continues
      <3>4. CASE i = 1
        BY <3>2, <3>3, <3>4
      <3>5. CASE i # 1
        BY <3>2, <3>3, <3>5
      <3>. QED BY <3>4, <3>5
    <2>. QED BY <2>1, <2>2
  <1>6. Continues(p, Append(ch, m))
    BY <1>1, <1>5 DEF Continues
  <1>. QED BY <1>4, <1>6

\* The first message is read (onMessage of the parent).
LEMMA ReadContinues ==
  ASSUME NEW p, NEW ch \in Seq(ChildMessage), ch # <<>>, Continues(p, ch)
  PROVE  /\ Continues(PositionOf(Head(ch)), Tail(ch))
         /\ EndOf(PositionOf(Head(ch)), Tail(ch)) = EndOf(p, ch)
  <1>. HIDE DEF ChildMessage
  <1>1. /\ Head(ch) = ch[1] /\ Tail(ch) \in Seq(ChildMessage)
        /\ Len(ch) \in Nat \ {0} /\ Len(Tail(ch)) = Len(ch) - 1
        /\ \A i \in 1..Len(Tail(ch)) : Tail(ch)[i] = ch[i + 1]
    BY ReadMessages
  <1>2. Tail(ch) = <<>> <=> Len(ch) = 1
    <2>1. \A s \in Seq(ChildMessage) : s = <<>> <=> Len(s) = 0
      BY EmptySeq
    <2>2. Tail(ch) = <<>> <=> Len(Tail(ch)) = 0
      BY <1>1, <2>1, Zenon
    <2>. QED BY <1>1, <2>2
  <1>3. ASSUME NEW i \in 1..Len(Tail(ch))
        PROVE  MayFollow(IF i = 1 THEN PositionOf(Head(ch)) ELSE PositionOf(Tail(ch)[i - 1]), Tail(ch)[i])
    <2>1. i + 1 \in 1..Len(ch) /\ i + 1 # 1 /\ (i + 1) - 1 = i
      BY <1>1
    <2>2. MayFollow(PositionOf(ch[i]), ch[i + 1])
      <3>1. MayFollow(IF i + 1 = 1 THEN p ELSE PositionOf(ch[(i + 1) - 1]), ch[i + 1])
        BY <2>1 DEF Continues
      <3>. QED BY <2>1, <3>1
    <2>3. CASE i = 1
      BY <1>1, <2>2, <2>3
    <2>4. CASE i # 1
      <3>1. i - 1 \in 1..Len(Tail(ch)) /\ (i - 1) + 1 = i
        BY <1>1, <2>4
      <3>2. Tail(ch)[i - 1] = ch[i]
        <4>1. Tail(ch)[i - 1] = ch[(i - 1) + 1]
          BY <1>1, <3>1
        <4>. QED BY <3>1, <4>1
      <3>. QED BY <1>1, <2>2, <2>4, <3>2
    <2>. QED BY <2>3, <2>4
  <1>4. EndOf(PositionOf(Head(ch)), Tail(ch)) = EndOf(p, ch)
    <2>1. EndOf(p, ch) = PositionOf(ch[Len(ch)])
      BY DEF EndOf
    <2>2. CASE Len(ch) = 1
      BY <1>1, <1>2, <2>1, <2>2 DEF EndOf
    <2>3. CASE Len(ch) # 1
      <3>1. Len(Tail(ch)) \in 1..Len(Tail(ch)) /\ Len(Tail(ch)) + 1 = Len(ch)
        BY <1>1, <2>3
      <3>2. Tail(ch)[Len(Tail(ch))] = ch[Len(ch)]
        BY <1>1, <3>1
      <3>. QED BY <1>2, <2>1, <2>3, <3>2 DEF EndOf
    <2>. QED BY <2>2, <2>3
  <1>. QED BY <1>3, <1>4 DEF Continues

\* What a killed child leaves in the pipe.
LEMMA KeptContinues ==
  ASSUME NEW p, NEW ch \in Seq(ChildMessage), NEW n \in 0..Len(ch), Continues(p, ch)
  PROVE  Continues(p, SubSeq(ch, 1, n))
  <1>. HIDE DEF ChildMessage
  <1>1. /\ Len(SubSeq(ch, 1, n)) = n /\ \A i \in 1..n : SubSeq(ch, 1, n)[i] = ch[i]
    BY KeptMessages
  <1>2. Len(ch) \in Nat
    BY LenProperties
  <1>3. ASSUME NEW i \in 1..n
        PROVE  MayFollow(IF i = 1 THEN p ELSE PositionOf(SubSeq(ch, 1, n)[i - 1]), SubSeq(ch, 1, n)[i])
    <2>1. i \in 1..Len(ch) /\ (i # 1 => i - 1 \in 1..n)
      BY <1>2
    <2>2. MayFollow(IF i = 1 THEN p ELSE PositionOf(ch[i - 1]), ch[i])
      BY <2>1 DEF Continues
    <2>3. CASE i = 1
      BY <1>1, <2>2, <2>3
    <2>4. CASE i # 1
      BY <1>1, <2>1, <2>2, <2>4
    <2>. QED BY <2>3, <2>4
  <1>. QED BY <1>1, <1>3 DEF Continues

\* "ready" is the first thing that is ever said.
LEMMA ReadyFirst ==
  ASSUME NEW p, NEW ch \in Seq(ChildMessage), Continues(p, ch), NEW i \in 1..Len(ch), ch[i].type = "ready"
  PROVE  i = 1 /\ p = "connect"
  <1>. HIDE DEF ChildMessage
  <1>0. Len(ch) \in Nat
    BY LenProperties
  <1>1. MayFollow(IF i = 1 THEN p ELSE PositionOf(ch[i - 1]), ch[i])
    BY DEF Continues
  <1>2. CASE i = 1
    BY <1>1, <1>2 DEF MayFollow
  <1>3. CASE i # 1
    <2>1. i - 1 \in 1..Len(ch)
      BY <1>0, <1>3
    <2>2. PositionOf(ch[i - 1]) = "connect"
      BY <1>1, <1>3 DEF MayFollow
    <2>3. ch[i - 1].type = "phase" /\ ch[i - 1].phase = "connect"
      <3>1. ch[i - 1] \in ChildMessage
        BY <2>1, ElementOfSeq
      <3>2. ch[i - 1].type \in {"ready", "request-drop", "phase", "closing", "result"}
        BY <3>1, ChildMessageShape
      <3>. QED BY <2>2, <3>2 DEF PositionOf
    <2>4. \E q : MayFollow(q, ch[i - 1])
      BY <2>1 DEF Continues
    <2>. QED BY <2>3, <2>4 DEF MayFollow, Course
  <1>. QED BY <1>2, <1>3

\* Nothing is said, and nobody moves.
LEMMA ConversationFrame ==
  ASSUME Conversation, UNCHANGED <<toParent, protocolVars>>,
         closing => closing',
         connected' => connected /\ call' = "pending" /\ Alive',
         Alive' => Alive /\ ChildPosition' = ChildPosition,
         child' = "booting" => child = "booting" /\ cpc' = cpc
  PROVE  Conversation'
  <1>1. ParentPosition' = ParentPosition
    BY DEF ParentPosition
  <1>2. (Continues(ParentPosition, toParent))' /\ EndOf(ParentPosition, toParent)' = EndOf(ParentPosition, toParent)
    BY <1>1 DEF Conversation
  <1>. QED BY <1>1, <1>2 DEF Conversation

\* The parent reads a message and is where that message is.
LEMMA ConversationReads ==
  ASSUME TypeOK, Conversation, toParent # <<>>, toParent' = Tail(toParent),
         ParentPosition' = PositionOf(Head(toParent)),
         UNCHANGED <<connected, call, child, cpc>>
  PROVE  Conversation'
  <1>. HIDE DEF ChildMessage
  <1>1. /\ Continues(PositionOf(Head(toParent)), Tail(toParent))
        /\ EndOf(PositionOf(Head(toParent)), Tail(toParent)) = EndOf(ParentPosition, toParent)
    BY ReadContinues DEF TypeOK, Conversation
  <1>2. Continues(ParentPosition', toParent') /\ EndOf(ParentPosition', toParent') = EndOf(ParentPosition, toParent)
    BY <1>1
  <1>3. ChildPosition' = ChildPosition /\ (Alive' <=> Alive)
    BY DEF ChildPosition, Alive
  <1>4. child # "booting"
    BY DEF Conversation
  <1>. QED BY <1>2, <1>3, <1>4 DEF Conversation

\* The child says one message more and is where that message is.
LEMMA ConversationSays ==
  ASSUME TypeOK, Conversation, Alive, child' = "running",
         UNCHANGED <<parentVars, connected>>,
         NEW m \in ChildMessage, ChildSays(<<m>>), PositionOf(m) = ChildPosition',
         connected => MayFollow(EndOf(ParentPosition, toParent), m)
  PROVE  Conversation'
  <1>. HIDE DEF ChildMessage
  <1>1. ParentPosition' = ParentPosition
    BY DEF ParentPosition
  <1>2. CASE connected
    <2>1. toParent' = Append(toParent, m)
      BY <1>2, SaysOne
    <2>2. /\ Continues(ParentPosition, Append(toParent, m))
          /\ EndOf(ParentPosition, Append(toParent, m)) = PositionOf(m)
      BY <1>2, AppendedContinues DEF TypeOK, Conversation
    <2>3. Continues(ParentPosition', toParent') /\ EndOf(ParentPosition', toParent') = ChildPosition'
      BY <1>1, <2>1, <2>2
    <2>. QED BY <1>2, <2>3 DEF Conversation, Alive
  <1>3. CASE ~connected
    <2>1. toParent' = toParent
      BY <1>3, SaysOne
    <2>2. Continues(ParentPosition', toParent')
      BY <1>1, <2>1 DEF Conversation
    <2>. QED BY <1>3, <2>2 DEF Conversation
  <1>. QED BY <1>2, <1>3

\* Two messages more.
LEMMA ConversationSaysTwo ==
  ASSUME TypeOK, Conversation, Alive, child' = "running",
         UNCHANGED <<parentVars, connected>>,
         NEW m \in ChildMessage, NEW n \in ChildMessage, ChildSays(<<m, n>>),
         PositionOf(n) = ChildPosition',
         connected => MayFollow(EndOf(ParentPosition, toParent), m) /\ MayFollow(PositionOf(m), n)
  PROVE  Conversation'
  <1>. HIDE DEF ChildMessage
  <1>1. ParentPosition' = ParentPosition
    BY DEF ParentPosition
  <1>2. CASE connected
    <2>1. toParent' = Append(Append(toParent, m), n)
      BY <1>2, SaysTwo
    <2>. DEFINE ch == Append(toParent, m)
    <2>2. Continues(ParentPosition, ch) /\ EndOf(ParentPosition, ch) = PositionOf(m)
      BY <1>2, AppendedContinues DEF TypeOK, Conversation
    <2>3. ch \in Seq(ChildMessage)
      BY AppendedMessages DEF TypeOK
    <2>. HIDE DEF ch
    <2>4. /\ Continues(ParentPosition, Append(ch, n))
          /\ EndOf(ParentPosition, Append(ch, n)) = PositionOf(n)
      BY <1>2, <2>2, <2>3, AppendedContinues
    <2>5. Continues(ParentPosition', toParent') /\ EndOf(ParentPosition', toParent') = ChildPosition'
      BY <1>1, <2>1, <2>4 DEF ch
    <2>. QED BY <1>2, <2>5 DEF Conversation, Alive
  <1>3. CASE ~connected
    <2>1. toParent' = toParent
      BY <1>3, SaysTwo
    <2>2. Continues(ParentPosition', toParent')
      BY <1>1, <2>1 DEF Conversation
    <2>. QED BY <1>3, <2>2 DEF Conversation
  <1>. QED BY <1>2, <1>3

\* Where the child continues: at its position, once the parent is ready.
LEMMA ChildContinues ==
  ASSUME TypeOK, Conversation, Order, connected, Alive, ready
  PROVE  EndOf(ParentPosition, toParent) = ChildPosition
  BY PositionMeans DEF Conversation

\* A parent that is closing reads "ready" and takes no note.
LEMMA ConversationIgnores ==
  ASSUME TypeOK, Conversation, Order, toParent # <<>>, toParent' = Tail(toParent),
         Head(toParent).type = "ready", closing, closing',
         UNCHANGED <<protocolVars, connected, call, child, cpc>>
  PROVE  Conversation'
  <1>. HIDE DEF ChildMessage
  <1>. DEFINE m == Head(toParent)
  <1>0. /\ m \in ChildMessage /\ m \in Range(toParent) /\ m = toParent[1] /\ 1 \in 1..Len(toParent)
        /\ Tail(toParent) \in Seq(ChildMessage) /\ Range(Tail(toParent)) \subseteq Range(toParent)
    BY ReadMessages DEF TypeOK
  <1>10. Range(Tail(toParent)) = {Tail(toParent)[i] : i \in 1..Len(Tail(toParent))}
    BY <1>0, MessagesTyped
  <1>1. ~ready /\ MayFollow(ParentPosition, m)
    BY <1>0 DEF Order, Conversation, Continues
  <1>2. ParentPosition = "connect" /\ PositionOf(m) = "ready"
    BY <1>1 DEF MayFollow, PositionOf
  <1>3. /\ Continues("ready", Tail(toParent))
        /\ EndOf("ready", Tail(toParent)) = EndOf(ParentPosition, toParent)
    <2>1. /\ Continues(PositionOf(m), Tail(toParent))
          /\ EndOf(PositionOf(m), Tail(toParent)) = EndOf(ParentPosition, toParent)
      BY ReadContinues DEF TypeOK, Conversation
    <2>. QED BY <1>2, <2>1
  <1>4. ParentPosition' = "connect"
    BY <1>2 DEF ParentPosition
  \* whatever comes next needs no note of "ready"
  <1>5. Continues("connect", Tail(toParent))
    <2>1. ASSUME NEW i \in 1..Len(Tail(toParent))
          PROVE  MayFollow(IF i = 1 THEN "connect" ELSE PositionOf(Tail(toParent)[i - 1]), Tail(toParent)[i])
      <3>. DEFINE n == Tail(toParent)[i]
      <3>1. MayFollow(IF i = 1 THEN "ready" ELSE PositionOf(Tail(toParent)[i - 1]), n)
        BY <1>3 DEF Continues
      <3>2. n \in Range(toParent)
        BY <1>0, <1>10
      <3>. HIDE DEF n
      <3>3. n.type \notin {"phase", "request-drop"}
        BY <1>1, <3>2 DEF Order
      <3>4. MayFollow("ready", n) => MayFollow("connect", n)
        BY <3>3 DEF MayFollow, PhaseIn
      <3>5. CASE i = 1
        BY <3>1, <3>4, <3>5 DEF n
      <3>6. CASE i # 1
        BY <3>1, <3>6 DEF n
      <3>. QED BY <3>5, <3>6
    <2>. QED BY <2>1 DEF Continues
  <1>6. ChildPosition' = ChildPosition /\ (Alive' <=> Alive)
    BY DEF ChildPosition, Alive
  <1>7. child # "booting"
    BY DEF Conversation
  <1>8. ASSUME connected', Alive'
        PROVE  \/ EndOf(ParentPosition', toParent') = ChildPosition'
               \/ toParent' = <<>> /\ ParentPosition' = "connect" /\ closing' /\ ChildPosition' = "ready"
    <2>1. EndOf("ready", Tail(toParent)) = ChildPosition
      BY <1>3, <1>6, <1>8 DEF Conversation
    <2>2. CASE Tail(toParent) = <<>>
      BY <1>4, <1>6, <2>1, <2>2 DEF EndOf
    <2>3. CASE Tail(toParent) # <<>>
      <3>1. EndOf("connect", Tail(toParent)) = EndOf("ready", Tail(toParent))
        BY <2>3 DEF EndOf
      <3>. QED BY <1>4, <1>6, <2>1, <3>1
    <2>. QED BY <2>2, <2>3
  <1>9. Continues(ParentPosition', toParent')
    BY <1>4, <1>5
  <1>. QED BY <1>6, <1>7, <1>8, <1>9 DEF Conversation

\* The parent keeps to the conversation (onMessage of the parent).
LEMMA ConversationParent ==
  ASSUME IInv, ParentStep \/ ParentEvent
  PROVE  Conversation'
  <1>. HIDE DEF ChildMessage, Observation
  <1>0. TypeOK /\ Order /\ Conversation /\ Ending
    BY DEF IInv, Agreement
  <1>1. UNCHANGED cpc
    BY ParentFrame
  <1>2. CASE ~OnMessage
    <2>1. Quiet
      BY <1>0, <1>2, QuietSteps
    <2>2. /\ UNCHANGED <<protocolVars, toParent>> /\ (closing => closing')
          /\ connected' => connected
          /\ \/ UNCHANGED child
             \/ child = "booting" /\ child' = "failed" /\ ~connected'
             \/ child = "failed" /\ child' = "unspawned"
      BY <2>1 DEF Quiet
    <2>3. Alive' => Alive /\ UNCHANGED child
      BY <2>2 DEF Alive
    <2>4. connected' => call' = "pending"
      <3>1. CASE UNCHANGED call
        BY <1>0, <2>2, <3>1 DEF Conversation
      <3>2. CASE call' = "crashed" /\ ~connected'
        BY <3>2
      <3>3. CASE Conclude
        <4>1. ~connected' \/ ~Disposed'
          <5>1. ASSUME Disposed', connected' PROVE FALSE
            <6>1. connected /\ ~disconnected /\ child # "failed" /\ child # "unspawned"
              BY <1>0, <2>2, <5>1 DEF Conversation, Ending, Alive
            <6>2. child' # "unspawned"
              BY <2>2, <6>1
            <6>3. disconnected'
              BY <5>1, <6>2 DEF Disposed
            <6>4. OnDisconnect
              BY <1>2, <6>1, <6>3 DEF ParentStep, ParentEvent, WorkTimer, SendSettles, ForceTimer, FinalTimer,
                 OnExit, OnClose, Abort, DeadlinePasses, SpawnFails, ParentCrash, StopOnly
            <6>. QED BY <5>1, <6>1, <6>4 DEF OnDisconnect
          <5>. QED BY <5>1
        <4>. QED BY <1>0, <2>2, <3>3, <4>1 DEF Conclude, Conversation
      <3>. QED BY <1>2, <3>1, <3>2, <3>3 DEF ParentStep, ParentEvent, WorkTimer, SendSettles, ForceTimer,
              FinalTimer, OnExit, OnDisconnect, OnClose, Abort, DeadlinePasses, SpawnFails, ParentCrash, StopOnly
    <2>5. connected' => Alive'
      BY <1>0, <2>2 DEF Conversation, Alive
    <2>6. Alive' => ChildPosition' = ChildPosition
      BY <1>1, <2>3 DEF ChildPosition
    <2>7. child' = "booting" => child = "booting"
      BY <2>2
    <2>. QED BY <1>0, <1>1, <2>2, <2>3, <2>4, <2>5, <2>6, <2>7, ConversationFrame
  <1>3. CASE OnMessage
    <2>. DEFINE m == Head(toParent)
    <2>1. /\ toParent # <<>> /\ toParent' = Tail(toParent)
          /\ Acceptable(m) /\ MayFollow(ParentPosition, m)
          /\ m \in ChildMessage /\ m \in Range(toParent)
          /\ UNCHANGED <<connected, call, child, cpc>>
          /\ \/ m.type = "ready" /\ OnReady
             \/ m.type = "phase" /\ OnPhase(m)
             \/ m.type = "request-drop" /\ OnRequestDrop
             \/ m.type = "closing" /\ OnClosing(m.obs)
             \/ m.type = "result" /\ OnResult(m.obs)
      BY <1>3, Handles
    <2>. HIDE DEF m
    <2>2. ParentPosition' = PositionOf(m) => Conversation'
      BY <1>0, <2>1, ConversationReads DEF m
    <2>3. CASE m.type = "ready" /\ OnReady
      <3>1. UNCHANGED <<phase, requested, permitted, terminal, childClosing>>
        BY <2>3 DEF OnReady
      <3>2. ParentPosition = "connect"
        BY <2>1, <2>3 DEF MayFollow
      <3>3. CASE closing
        <4>1. UNCHANGED ready /\ closing'
          BY <2>3, <3>3 DEF OnReady
        <4>. QED BY <1>0, <2>1, <2>3, <3>1, <3>3, <4>1, ConversationIgnores DEF m
      <3>4. CASE ~closing
        <4>1. ready' = TRUE
          BY <2>3, <3>4 DEF OnReady
        <4>2. phase = "connect" /\ ~terminal /\ childClosing = {} /\ ~requested
          BY <1>0, <3>2, PositionMeans
        <4>3. ParentPosition' = "ready"
          BY <3>1, <4>1, <4>2 DEF ParentPosition
        <4>4. PositionOf(m) = "ready"
          BY <2>3 DEF PositionOf
        <4>. QED BY <2>2, <4>3, <4>4
      <3>. QED BY <3>3, <3>4
    <2>4. CASE m.type = "phase" /\ OnPhase(m)
      <3>1. UNCHANGED <<ready, requested, permitted, terminal, childClosing>> /\ phase' = m.phase
        BY <2>4 DEF OnPhase
      <3>2. <<ParentPosition, m.phase>> \in Course
        BY <2>1, <2>4 DEF MayFollow
      <3>3. ParentPosition \in {"ready", "lock", "inspect", "request-drop"} /\ m.phase \in {"lock", "inspect", "drop", "verify"}
            /\ (m.phase = "drop" => ParentPosition = "inspect")
        BY <3>2 DEF Course
      <3>4. ~terminal /\ childClosing = {} /\ (m.phase = "drop" => ~requested)
        BY <1>0, <3>3, PositionMeans
      <3>5. ParentPosition' = m.phase
        BY <3>1, <3>3, <3>4 DEF ParentPosition
      <3>6. PositionOf(m) = m.phase
        BY <2>4 DEF PositionOf
      <3>. QED BY <2>2, <3>5, <3>6
    <2>5. CASE m.type = "request-drop" /\ OnRequestDrop
      <3>1. UNCHANGED <<phase, terminal, childClosing>> /\ requested' = TRUE
        BY <2>5 DEF OnRequestDrop
      <3>2. ParentPosition = "drop"
        BY <2>1, <2>5 DEF MayFollow
      <3>3. phase = "drop" /\ ~terminal /\ childClosing = {}
        BY <1>0, <3>2, PositionMeans
      <3>4. ParentPosition' = "request-drop"
        BY <3>1, <3>3 DEF ParentPosition
      <3>5. PositionOf(m) = "request-drop"
        BY <2>5 DEF PositionOf
      <3>. QED BY <2>2, <3>4, <3>5
    <2>6. CASE m.type = "closing" /\ OnClosing(m.obs)
      <3>1. UNCHANGED terminal /\ childClosing' # {} /\ ~terminal
        BY <2>1, <2>6 DEF OnClosing, Acceptable
      <3>2. ParentPosition' = "closing"
        BY <3>1 DEF ParentPosition
      <3>3. PositionOf(m) = "closing"
        BY <2>6 DEF PositionOf
      <3>. QED BY <2>2, <3>2, <3>3
    <2>7. CASE m.type = "result" /\ OnResult(m.obs)
      <3>1. ParentPosition' = "result"
        BY <2>7 DEF OnResult, ParentPosition
      <3>2. PositionOf(m) = "result"
        BY <2>7 DEF PositionOf
      <3>. QED BY <2>2, <3>1, <3>2
    <2>. QED BY <2>1, <2>3, <2>4, <2>5, <2>6, <2>7
  <1>. QED BY <1>2, <1>3

\* The child keeps to the conversation (onMessage of the child).
LEMMA ConversationChild ==
  ASSUME IInv, ChildHandler \/ ChildEvent
  PROVE  Conversation'
  <1>. HIDE DEF ChildMessage, Observation, ParentMessage
  <1>0. TypeOK /\ Order /\ Conversation /\ Inbox
    BY DEF IInv, Agreement
  <1>1. CASE ChildDisconnects \/ ChildWorkTimer \/ ChildDeadlinePasses \/ SessionLost
    <2>1. Weakens
      BY <1>0, <1>1, WeakeningSteps
    <2>2. UNCHANGED <<parentVars, toParent, connected, child, cpc>>
      BY <2>1 DEF Weakens
    <2>. QED BY <1>0, <2>2, ConversationFrame DEF Conversation, Alive, ChildPosition
  <1>2. CASE ChildBoots
    <2>1. /\ child = "booting" /\ child' = "running" /\ UNCHANGED <<parentVars, connected, cpc>>
          /\ ChildSays(<<[type |-> "ready"]>>) /\ cpc = "idle" /\ toParent = <<>> /\ Alive
      BY <1>0, <1>2 DEF ChildBoots, Conversation, Alive
    <2>. DEFINE m == [type |-> "ready"]
    <2>2. m \in ChildMessage /\ m.type = "ready"
      BY MessageTypes
    <2>. HIDE DEF m
    <2>3. PositionOf(m) = ChildPosition'
      BY <2>1, <2>2 DEF PositionOf, ChildPosition, EnginePc, QueryPc
    <2>4. connected => EndOf(ParentPosition, toParent) = "connect"
      BY <1>0, <2>1 DEF Conversation, ChildPosition
    <2>5. connected => MayFollow(EndOf(ParentPosition, toParent), m)
      BY <2>2, <2>4 DEF MayFollow
    <2>. QED BY <1>0, <2>1, <2>2, <2>3, <2>5, ConversationSays DEF m
  <1>3. CASE ChildExits
    <2>1. UNCHANGED <<parentVars, toParent, connected>> /\ child' = "exited" /\ ~connected
      BY <1>0, <1>3 DEF ChildExits, Inbox
    <2>. QED BY <1>0, <2>1, ConversationFrame DEF Alive
  <1>4. CASE ChildKilled
    <2>1. UNCHANGED parentVars /\ child' = "killed" /\ ~connected'
      BY <1>4 DEF ChildKilled
    <2>2. ParentPosition' = ParentPosition
      BY <2>1 DEF ParentPosition
    <2>3. PICK n \in 0..Len(toParent) : toParent' = SubSeq(toParent, 1, n)
      BY <1>4 DEF ChildKilled
    <2>4. Continues(ParentPosition, SubSeq(toParent, 1, n))
      BY <1>0, KeptContinues DEF TypeOK, Conversation
    <2>5. Continues(ParentPosition', toParent')
      BY <2>2, <2>3, <2>4
    <2>. QED BY <2>1, <2>5 DEF Conversation
  <1>5. CASE ChildReads
    <2>1. PICK m \in ParentMessage :
             Reads(m) /\ (Starts(m) \/ Goes(m) \/ Minds(m) \/ GivesUp(m) \/ IsAllocated(m) \/ HangsUp(m))
      BY <1>5, ReadForms
    <2>2. UNCHANGED <<parentVars, child>> /\ child = "running" /\ Alive /\ Alive'
      BY <2>1 DEF Reads, Alive
    <2>3. CASE Starts(m) \/ Goes(m) \/ Minds(m) \/ IsAllocated(m) \/ HangsUp(m)
      <3>1. /\ UNCHANGED toParent /\ (connected' => connected)
        BY <1>0, <2>3 DEF Starts, Goes, Minds, IsAllocated, HangsUp, Weakens
      <3>2. ChildPosition' = ChildPosition
        <4>1. CASE UNCHANGED cpc
          BY <2>2, <4>1 DEF ChildPosition
        <4>2. CASE cpc = "idle" /\ cpc' = "create"
          BY <2>2, <4>2 DEF ChildPosition
        <4>3. CASE cpc = "permit" /\ cpc' = "confirm"
          BY <2>2, <4>3 DEF ChildPosition
        <4>4. CASE cpc = "reported" /\ cpc' = "finished"
          BY <2>2, <4>4 DEF ChildPosition
        <4>. QED BY <2>3, <4>1, <4>2, <4>3, <4>4 DEF Starts, Goes, Minds, IsAllocated, HangsUp, Weakens
      <3>. QED BY <1>0, <2>2, <3>1, <3>2, ConversationFrame DEF Conversation
    <2>4. CASE GivesUp(m)
      <3>. DEFINE c == [type |-> "closing", obs |-> NotAttempted]
      <3>1. cpc = "idle" /\ cpc' = "allocation" /\ UNCHANGED connected /\ ChildSays(<<c>>)
        BY <2>4 DEF GivesUp
      <3>2. c \in ChildMessage /\ c.type = "closing" /\ c.obs = NotAttempted
        BY MessageTypes, ObservationShape
      <3>. HIDE DEF c
      <3>3. PositionOf(c) = ChildPosition'
        BY <2>2, <3>1, <3>2 DEF PositionOf, ChildPosition
      <3>4. ChildPosition = "ready"
        BY <2>2, <3>1 DEF ChildPosition
      <3>5. connected => EndOf(ParentPosition, toParent) \in {"ready", "connect"}
        BY <1>0, <2>2, <3>4, NothingContinues DEF Conversation
      <3>6. connected => MayFollow(EndOf(ParentPosition, toParent), c)
        BY <3>2, <3>5 DEF MayFollow, NotAttempted
      <3>. QED BY <1>0, <2>2, <3>1, <3>2, <3>3, <3>6, ConversationSays
    <2>. QED BY <2>1, <2>3, <2>4
  <1>. QED BY <1>1, <1>2, <1>3, <1>4, <1>5 DEF ChildHandler, ChildEvent

\* The engine announces its phases in order, and its end in its phase
\* (executeRecovery).
LEMMA ConversationEngine ==
  ASSUME IInv, EngineStep
  PROVE  Conversation'
  <1>. HIDE DEF ChildMessage, Observation
  <1>0. TypeOK /\ Order /\ Conversation
    BY DEF IInv, Agreement
  <1>1. ASSUME child = "running", cpc \in EnginePc, connected
        PROVE  EndOf(ParentPosition, toParent) = ChildPosition
    <2>1. Alive /\ ready
      BY <1>0, <1>1 DEF Alive, Order
    <2>. QED BY <1>0, <1>1, <2>1, ChildContinues
  <1>2. CASE EngineRest /\ Asking
    <2>1. /\ UNCHANGED <<parentVars, connected, child>> /\ child = "running" /\ Alive /\ Alive'
          /\ <<cpc, cpc'>> \in StatementMoves /\ ChildSays(OnTheWay(cpc'))
      BY <1>2 DEF EngineRest, Asking, Alive
    <2>2. cpc' \in QueryPc /\ cpc \in EnginePc
      BY <2>1 DEF StatementMoves, QueryPc, EnginePc
    <2>3. CASE cpc' \in {"connect", "recheck", "drop"}
      <3>1. toParent' = toParent
        BY <1>0, <2>1, <2>2, <2>3, SaysOnTheWay
      <3>2. ChildPosition' = ChildPosition
        <4>1. CASE cpc = "create" /\ cpc' = "connect"
          BY <2>1, <4>1 DEF ChildPosition
        <4>2. CASE cpc = "inspect" /\ cpc' = "recheck"
          BY <2>1, <4>2 DEF ChildPosition
        <4>3. CASE cpc = "confirm" /\ cpc' = "drop"
          BY <2>1, <4>3 DEF ChildPosition
        <4>. QED BY <2>1, <2>3, <4>1, <4>2, <4>3 DEF StatementMoves
      <3>. QED BY <1>0, <2>1, <3>1, <3>2, ConversationFrame DEF Conversation
    <2>4. CASE cpc' \in {"lock", "inspect", "verify"}
      <3>. DEFINE m == PhaseMessage(cpc')
      <3>1. m \in ChildMessage /\ ChildSays(<<m>>)
        BY <1>0, <2>1, <2>2, <2>4, SaysOnTheWay
      <3>2. m.type = "phase" /\ m.phase = cpc'
        BY DEF PhaseMessage
      <3>3. PositionOf(m) = ChildPosition'
        BY <2>1, <2>4, <3>2 DEF PositionOf, ChildPosition
      <3>4. <<ChildPosition, cpc'>> \in Course
        <4>1. CASE cpc = "connect" /\ cpc' = "lock"
          BY <2>1, <4>1 DEF ChildPosition, Course
        <4>2. CASE cpc = "lock" /\ cpc' = "inspect"
          BY <2>1, <4>2 DEF ChildPosition, Course
        <4>3. CASE cpc = "drop" /\ cpc' = "verify"
          BY <2>1, <4>3 DEF ChildPosition, Course
        <4>. QED BY <2>1, <2>4, <4>1, <4>2, <4>3 DEF StatementMoves
      <3>5. connected => MayFollow(EndOf(ParentPosition, toParent), m)
        BY <1>1, <2>1, <2>2, <3>2, <3>4 DEF MayFollow
      <3>. HIDE DEF m
      <3>. QED BY <1>0, <2>1, <3>1, <3>3, <3>5, ConversationSays
    <2>. QED BY <2>1, <2>3, <2>4 DEF StatementMoves
  <1>3. CASE EngineRest /\ Requesting
    <2>1. /\ UNCHANGED <<parentVars, connected, child>> /\ child = "running" /\ Alive
          /\ cpc = "recheck" /\ cpc' = "permit"
          /\ ChildSays(<<PhaseMessage("drop"), [type |-> "request-drop"]>>)
      BY <1>3 DEF EngineRest, Requesting, Alive
    <2>. DEFINE m == PhaseMessage("drop")
                n == [type |-> "request-drop"]
    <2>2. m \in ChildMessage /\ m.type = "phase" /\ m.phase = "drop" /\ n \in ChildMessage /\ n.type = "request-drop"
      BY MessageTypes DEF PhaseMessage, Phase
    <2>3. ChildSays(<<m, n>>)
      BY <2>1
    <2>. HIDE DEF m, n
    <2>4. PositionOf(n) = ChildPosition' /\ PositionOf(m) = "drop"
      BY <2>1, <2>2 DEF PositionOf, ChildPosition
    <2>5. ChildPosition = "inspect" /\ cpc \in EnginePc
      BY <2>1 DEF ChildPosition, EnginePc, QueryPc
    <2>6. MayFollow(ChildPosition, m) /\ MayFollow(PositionOf(m), n)
      BY <2>2, <2>4, <2>5 DEF MayFollow, Course
    <2>. QED BY <1>0, <1>1, <2>1, <2>2, <2>3, <2>4, <2>5, <2>6, ConversationSaysTwo
  <1>4. CASE EngineRest /\ Finishing
    <2>0. PICK o \in Observation : o = observation'
      BY <1>4 DEF Finishing
    <2>. DEFINE c == [type |-> "closing", obs |-> o]
    <2>1. /\ UNCHANGED <<parentVars, connected, child>> /\ child = "running" /\ Alive
          /\ cpc \in EnginePc /\ cpc' = "allocation"
      BY <1>4 DEF EngineRest, Finishing, Alive
    <2>2. c \in ChildMessage /\ c.type = "closing" /\ c.obs = o
      BY MessageTypes
    <2>3. /\ o.outcome = "removed" => cpc = "verify"
          /\ o.outcome = "already-absent" => cpc = "inspect"
          /\ \/ ChildSays(<<c>>) /\ (o.primary # "none" => o.at = PhaseIn(ChildPosition))
             \/ /\ cpc = "recheck" /\ o.at = "drop" /\ o.outcome = "not-attempted"
                /\ ChildSays(<<PhaseMessage("drop"), c>>)
      BY <1>4, <2>0 DEF Finishing
    <2>. HIDE DEF c
    <2>4. PositionOf(c) = ChildPosition'
      BY <2>1, <2>2 DEF PositionOf, ChildPosition
    <2>5. CASE ChildSays(<<c>>) /\ (o.primary # "none" => o.at = PhaseIn(ChildPosition))
      <3>1. /\ ChildPosition \notin {"closing", "result"}
            /\ cpc = "verify" => ChildPosition = "verify"
            /\ cpc = "inspect" => ChildPosition = "inspect"
        BY <2>1 DEF ChildPosition, EnginePc, QueryPc
      <3>2. MayFollow(ChildPosition, c)
        BY <2>2, <2>3, <2>5, <3>1 DEF MayFollow
      <3>. QED BY <1>0, <1>1, <2>1, <2>2, <2>4, <2>5, <3>2, ConversationSays
    <2>6. CASE /\ cpc = "recheck" /\ o.at = "drop" /\ o.outcome = "not-attempted"
               /\ ChildSays(<<PhaseMessage("drop"), c>>)
      <3>. DEFINE m == PhaseMessage("drop")
      <3>1. m \in ChildMessage /\ m.type = "phase" /\ m.phase = "drop" /\ ChildSays(<<m, c>>)
        BY <2>6, MessageTypes DEF PhaseMessage, Phase
      <3>. HIDE DEF m
      <3>2. PositionOf(m) = "drop" /\ ChildPosition = "inspect"
        BY <2>1, <2>6, <3>1 DEF PositionOf, ChildPosition
      <3>3. MayFollow(ChildPosition, m) /\ MayFollow(PositionOf(m), c)
        BY <2>2, <2>6, <3>1, <3>2 DEF MayFollow, Course, PhaseIn
      <3>. QED BY <1>0, <1>1, <2>1, <2>2, <2>4, <3>1, <3>3, ConversationSaysTwo
    <2>. QED BY <2>3, <2>5, <2>6
  <1>5. CASE ImportFails
    <2>1. /\ UNCHANGED <<parentVars, toParent, connected, child>> /\ child = "running" /\ Alive /\ Alive'
          /\ cpc = "create" /\ cpc' = "failed"
      BY <1>5 DEF ImportFails, Proceeds, Alive
    <2>2. ChildPosition' = ChildPosition
      BY <2>1 DEF ChildPosition
    <2>. QED BY <1>0, <2>1, <2>2, ConversationFrame DEF Conversation
  <1>6. CASE SessionClosed
    <2>1. /\ UNCHANGED <<parentVars, connected, child>> /\ child = "running" /\ Alive
          /\ cpc = "allocation" /\ cpc' = "reported"
      BY <1>6 DEF SessionClosed, Alive
    <2>2. PICK b \in BOOLEAN : /\ observation' = [observation EXCEPT !.closeFailed = b]
                               /\ ChildSays(<<[type |-> "result", obs |-> observation']>>)
      BY <1>6 DEF SessionClosed
    <2>3. PICK o \in Observation : o = observation'
      <3>1. observation \in Observation
        BY <1>0 DEF TypeOK
      <3>. QED BY <2>2, <3>1, ClosedObservation
    <2>. DEFINE r == [type |-> "result", obs |-> o]
    <2>4. r \in ChildMessage /\ r.type = "result" /\ ChildSays(<<r>>)
      BY <2>2, <2>3, MessageTypes
    <2>. HIDE DEF r
    <2>5. PositionOf(r) = ChildPosition' /\ ChildPosition = "closing"
      BY <2>1, <2>4 DEF PositionOf, ChildPosition
    <2>6. connected => EndOf(ParentPosition, toParent) = "closing"
      BY <1>0, <2>1, <2>5 DEF Conversation
    <2>7. connected => MayFollow(EndOf(ParentPosition, toParent), r)
      BY <2>4, <2>6 DEF MayFollow
    <2>. QED BY <1>0, <2>1, <2>4, <2>5, <2>7, ConversationSays
  <1>. QED BY <1>0, <1>2, <1>3, <1>4, <1>5, <1>6, EngineForms

\* Parent and child keep to the conversation.
LEMMA ConversationStep ==
  ASSUME IInv, [Next]_vars
  PROVE  Conversation'
  <1>0. TypeOK /\ Fence /\ Conversation
    BY DEF IInv, Agreement
  <1>1. CASE UNCHANGED vars
    BY <1>0, <1>1, ConversationFrame DEF Conversation, Alive, ChildPosition
  <1>2. CASE ServerExecutes \/ ServerEnds \/ OthersAct
    <2>1. UNCHANGED <<parentVars, toParent, connected, childVars>>
      BY <1>0, <1>2, ServerForms
    <2>. QED BY <1>0, <2>1, ConversationFrame DEF Conversation, Alive, ChildPosition
  <1>. QED BY <1>1, <1>2, ConversationParent, ConversationChild, ConversationEngine DEF Next

-----------------------------------------------------------------------------
(* What is said once *)

\* Another kind of message, or the first of its kind.
LEMMA OnceAppended ==
  ASSUME NEW S, NEW ch \in Seq(S), NEW m \in S, NEW t, AtMostOne(ch, t), m.type # t \/ ~Says(ch, t)
  PROVE  AtMostOne(Append(ch, m), t)
  <1>1. /\ Len(Append(ch, m)) = Len(ch) + 1 /\ Append(ch, m)[Len(ch) + 1] = m
        /\ \A i \in 1..Len(ch) : Append(ch, m)[i] = ch[i]
    BY AppendedMessages
  <1>2. Len(ch) \in Nat /\ Range(ch) = {ch[i] : i \in 1..Len(ch)}
    BY MessagesTyped
  <1>3. ASSUME NEW i \in 1..(Len(ch) + 1), NEW j \in 1..(Len(ch) + 1),
               Append(ch, m)[i].type = t, Append(ch, m)[j].type = t
        PROVE  i = j
    <2>1. CASE i \in 1..Len(ch) /\ j \in 1..Len(ch)
      BY <1>1, <1>3, <2>1 DEF AtMostOne
    <2>2. CASE i = Len(ch) + 1 /\ j = Len(ch) + 1
      BY <2>2
    <2>3. CASE i = Len(ch) + 1 /\ j \in 1..Len(ch)
      BY <1>1, <1>2, <1>3, <2>3 DEF Says
    <2>4. CASE j = Len(ch) + 1 /\ i \in 1..Len(ch)
      BY <1>1, <1>2, <1>3, <2>4 DEF Says
    <2>. QED BY <1>2, <2>1, <2>2, <2>3, <2>4
  <1>. QED BY <1>1, <1>3 DEF AtMostOne

\* What was read is not there again.
LEMMA OnceRead ==
  ASSUME NEW S, NEW ch \in Seq(S), ch # <<>>, NEW t, AtMostOne(ch, t)
  PROVE  AtMostOne(Tail(ch), t) /\ (Head(ch).type = t => ~Says(Tail(ch), t))
  <1>1. /\ Head(ch) = ch[1] /\ Tail(ch) \in Seq(S)
        /\ Len(ch) \in Nat \ {0} /\ Len(Tail(ch)) = Len(ch) - 1
        /\ \A i \in 1..Len(Tail(ch)) : Tail(ch)[i] = ch[i + 1]
    BY ReadMessages
  <1>2. Range(Tail(ch)) = {Tail(ch)[i] : i \in 1..Len(Tail(ch))}
    BY <1>1, MessagesTyped
  <1>3. AtMostOne(Tail(ch), t)
    BY <1>1 DEF AtMostOne
  <1>4. ASSUME Head(ch).type = t, Says(Tail(ch), t) PROVE FALSE
    <2>1. PICK i \in 1..Len(Tail(ch)) : Tail(ch)[i].type = t
      BY <1>2, <1>4 DEF Says
    <2>2. i + 1 \in 1..Len(ch) /\ 1 \in 1..Len(ch) /\ i + 1 # 1 /\ ch[i + 1].type = t /\ ch[1].type = t
      BY <1>1, <1>4, <2>1
    <2>. QED BY <2>2 DEF AtMostOne
  <1>. QED BY <1>3, <1>4

\* What is left of a pipe.
LEMMA OnceKept ==
  ASSUME NEW S, NEW ch \in Seq(S), NEW n \in 0..Len(ch), NEW t, AtMostOne(ch, t)
  PROVE  AtMostOne(SubSeq(ch, 1, n), t)
  <1>1. /\ Len(SubSeq(ch, 1, n)) = n /\ \A i \in 1..n : SubSeq(ch, 1, n)[i] = ch[i]
    BY KeptMessages
  <1>2. Len(ch) \in Nat
    BY LenProperties
  <1>. QED BY <1>1, <1>2 DEF AtMostOne

\* Saying something else (send of the child).
LEMMA OnceSaid ==
  ASSUME TypeOK, NEW t, AtMostOne(toParent, t)
  PROVE  /\ \A m \in ChildMessage : ChildSays(<<m>>) /\ m.type # t => AtMostOne(toParent', t)
         /\ \A m, n \in ChildMessage :
              ChildSays(<<m, n>>) /\ m.type # t /\ (n.type # t \/ ~Says(toParent, t)) => AtMostOne(toParent', t)
  <1>. HIDE DEF ChildMessage
  <1>0. toParent \in Seq(ChildMessage)
    BY DEF TypeOK
  <1>1. ASSUME NEW m \in ChildMessage, ChildSays(<<m>>), m.type # t
        PROVE  AtMostOne(toParent', t)
    <2>1. AtMostOne(Append(toParent, m), t)
      BY <1>0, <1>1, OnceAppended
    <2>2. toParent' = toParent \/ toParent' = Append(toParent, m)
      BY <1>1, SaysOne
    <2>. QED BY <2>1, <2>2
  <1>2. ASSUME NEW m \in ChildMessage, NEW n \in ChildMessage, ChildSays(<<m, n>>), m.type # t,
               n.type # t \/ ~Says(toParent, t)
        PROVE  AtMostOne(toParent', t)
    <2>1. AtMostOne(Append(toParent, m), t) /\ Append(toParent, m) \in Seq(ChildMessage)
      BY <1>0, <1>2, OnceAppended, AppendedMessages
    <2>2. Says(Append(toParent, m), t) => Says(toParent, t)
      BY <1>0, <1>2, SaysAppended
    <2>3. \A ch \in Seq(ChildMessage) : AtMostOne(ch, t) /\ (n.type # t \/ ~Says(ch, t)) => AtMostOne(Append(ch, n), t)
      BY OnceAppended
    <2>4. AtMostOne(Append(Append(toParent, m), n), t)
      BY <1>2, <2>1, <2>2, <2>3
    <2>5. toParent' = toParent \/ toParent' = Append(Append(toParent, m), n)
      BY <1>2, SaysTwo
    <2>. QED BY <2>4, <2>5
  <1>. QED BY <1>1, <1>2

-----------------------------------------------------------------------------
(* The order of the parent's flags *)

Early == {"idle", "create", "connect", "lock", "inspect", "recheck"}

\* The parent records nothing.
LEMMA OrderFrame ==
  ASSUME Order, UNCHANGED protocolVars, closing => closing',
         \A m \in Range(toParent') :
           \/ m \in Range(toParent)
           \/ /\ m.type \in {"phase", "request-drop"} => ready
              /\ m.type = "phase" /\ m.phase = "verify" => permitted
              /\ m.type = "ready" => ~ready,
         Says(toParent', "request-drop") => Says(toParent, "request-drop"),
         AtMostOne(toParent, "request-drop") => AtMostOne(toParent', "request-drop"),
         Alive' => /\ Alive
                   /\ cpc' # "idle" => cpc # "idle" \/ ready \/ closing
                   /\ cpc' \in EnginePc \cup {"failed"} => cpc \in EnginePc \cup {"failed"} \/ ready
                   /\ cpc = "permit" => cpc' = "permit" \/ stopReason' # "none" \/ ~Says(toParent, "request-drop")
                   /\ stopReason # "none" => stopReason' # "none"
                   /\ cpc' \in Early => cpc \in Early
  PROVE  Order'
  <1>1. (\A m \in Range(toParent) :
           /\ m.type \in {"phase", "request-drop"} => ready
           /\ m.type = "phase" /\ m.phase = "verify" => permitted
           /\ m.type = "ready" => ~ready)'
    BY DEF Order
  <1>2. (Says(toParent, "request-drop") =>
           ~requested /\ AtMostOne(toParent, "request-drop") /\ (Alive => cpc = "permit" \/ stopReason # "none"))'
    BY DEF Order
  <1>3. (Alive /\ cpc \in {"idle", "create", "connect", "lock", "inspect", "recheck"}
           => ~requested /\ ~Says(toParent, "request-drop"))'
    BY DEF Order, Early
  <1>. QED BY <1>1, <1>2, <1>3 DEF Order

\* The parent records what it reads.
LEMMA OrderReads ==
  ASSUME TypeOK, Order, Conversation, toParent # <<>>, toParent' = Tail(toParent),
         UNCHANGED <<child, cpc, stopReason>>,
         closing => closing', ready => ready', permitted => permitted',
         requested' => requested \/ Head(toParent).type = "request-drop",
         (phase # "connect" => ready)', (requested => phase \in {"drop", "verify"})',
         (phase = "verify" => permitted)', (terminal => childClosing # {})', (childClosing # {} => closing)'
  PROVE  Order'
  <1>. HIDE DEF ChildMessage
  <1>1. /\ Range(toParent') \subseteq Range(toParent) /\ Head(toParent) \in Range(toParent)
        /\ toParent' \in Seq(ChildMessage) /\ Len(toParent) \in Nat
        /\ Len(toParent') = Len(toParent) - 1
        /\ \A i \in 1..Len(toParent') : toParent'[i] = toParent[i + 1]
    BY ReadMessages DEF TypeOK
  <1>2. Range(toParent') = {toParent'[i] : i \in 1..Len(toParent')}
    <2>1. \A ch \in Seq(ChildMessage) : Range(ch) = {ch[i] : i \in 1..Len(ch)}
      BY MessagesTyped
    <2>. QED BY <1>1, <2>1, Zenon
  <1>3. ASSUME NEW m \in Range(toParent'), m.type = "ready" PROVE FALSE
    <2>1. PICK i \in 1..Len(toParent') : m = toParent'[i]
      BY <1>2
    <2>2. i + 1 \in 1..Len(toParent) /\ toParent[i + 1].type = "ready" /\ i + 1 # 1
      BY <1>1, <1>3, <2>1
    <2>. QED BY <2>2, ReadyFirst DEF TypeOK, Conversation
  <1>4. Alive' <=> Alive
    BY DEF Alive
  <1>5. Says(toParent', "request-drop") => Says(toParent, "request-drop")
    BY <1>1, SaysLess
  <1>6. Says(toParent, "request-drop") =>
          /\ AtMostOne(toParent', "request-drop")
          /\ Head(toParent).type = "request-drop" => ~Says(toParent', "request-drop")
    BY OnceRead DEF TypeOK, Order
  <1>7. Head(toParent).type = "request-drop" => Says(toParent, "request-drop")
    BY <1>1 DEF Says
  <1>8. (\A m \in Range(toParent) :
           /\ m.type \in {"phase", "request-drop"} => ready
           /\ m.type = "phase" /\ m.phase = "verify" => permitted
           /\ m.type = "ready" => ~ready)'
    BY <1>1, <1>3 DEF Order
  <1>9. (Says(toParent, "request-drop") =>
           ~requested /\ AtMostOne(toParent, "request-drop") /\ (Alive => cpc = "permit" \/ stopReason # "none"))'
    BY <1>4, <1>5, <1>6 DEF Order
  <1>10. (Alive /\ cpc \in {"idle", "create", "connect", "lock", "inspect", "recheck"}
            => ~requested /\ ~Says(toParent, "request-drop"))'
    BY <1>4, <1>5, <1>7 DEF Order
  <1>11. (Alive /\ cpc # "idle" => ready \/ closing)' /\ (Alive /\ cpc \in EnginePc \cup {"failed"} => ready)'
    BY <1>4 DEF Order
  <1>. QED BY <1>8, <1>9, <1>10, <1>11 DEF Order

\* The parent's flags follow each other (superviseRecovery).
LEMMA OrderParent ==
  ASSUME IInv, ParentStep \/ ParentEvent
  PROVE  Order'
  <1>. HIDE DEF ChildMessage, Observation
  <1>0. TypeOK /\ Order /\ Conversation /\ Permission
    BY DEF IInv, Agreement
  <1>1. UNCHANGED <<cpc, stopReason>>
    BY ParentFrame
  <1>2. CASE ~OnMessage
    <2>1. Quiet
      BY <1>0, <1>2, QuietSteps
    <2>2. /\ UNCHANGED <<protocolVars, toParent>> /\ (closing => closing')
          /\ Alive' => Alive
      BY <2>1 DEF Quiet, Alive
    <2>. QED BY <1>0, <1>1, <2>2, OrderFrame
  <1>3. CASE OnMessage
    <2>. DEFINE m == Head(toParent)
    <2>1. /\ toParent # <<>> /\ toParent' = Tail(toParent)
          /\ Acceptable(m) /\ MayFollow(ParentPosition, m)
          /\ m \in ChildMessage /\ m \in Range(toParent)
          /\ UNCHANGED child
          /\ \/ m.type = "ready" /\ OnReady
             \/ m.type = "phase" /\ OnPhase(m)
             \/ m.type = "request-drop" /\ OnRequestDrop
             \/ m.type = "closing" /\ OnClosing(m.obs)
             \/ m.type = "result" /\ OnResult(m.obs)
      BY <1>3, Handles
    <2>2. m.type \in {"phase", "request-drop"} => ready
      BY <1>0, <2>1 DEF Order
    <2>. HIDE DEF m
    <2>3. CASE m.type = "ready" /\ OnReady
      <3>1. /\ UNCHANGED <<phase, requested, permitted, terminal, childClosing>>
            /\ ready => ready'
            /\ closing => closing'
        BY <1>0, <2>3, HandlerForms DEF OnReady
      <3>. QED BY <1>0, <1>1, <2>1, <3>1, OrderReads DEF Order, m
    <2>4. CASE m.type = "phase" /\ OnPhase(m)
      <3>1. UNCHANGED <<ready, requested, permitted, terminal, childClosing, closing>> /\ phase' = m.phase
        BY <2>4 DEF OnPhase
      <3>2. <<ParentPosition, m.phase>> \in Course
        BY <2>1, <2>4 DEF MayFollow
      <3>3. requested => m.phase = "verify"
        <4>1. ParentPosition \in {"ready", "lock", "inspect"} => ~requested
          BY <1>0, PositionMeans
        <4>. QED BY <3>2, <4>1 DEF Course
      <3>4. m.phase = "verify" => permitted
        BY <2>1, <2>4 DEF Acceptable
      <3>. QED BY <1>0, <1>1, <2>1, <2>2, <2>4, <3>1, <3>3, <3>4, OrderReads DEF Order, m
    <2>5. CASE m.type = "request-drop" /\ OnRequestDrop
      <3>1. /\ UNCHANGED <<phase, ready, terminal, childClosing>>
            /\ permitted => permitted'
            /\ closing => closing'
        <4>1. UNCHANGED <<phase, ready, terminal, childClosing>> /\ (permitted => permitted')
          BY <2>5 DEF OnRequestDrop
        <4>2. ASSUME closing PROVE closing' = closing
          BY <2>5, <4>2 DEF OnRequestDrop
        <4>. QED BY <4>1, <4>2
      <3>2. phase = "drop"
        BY <2>1, <2>5 DEF Acceptable
      <3>. QED BY <1>0, <1>1, <2>1, <2>5, <3>1, <3>2, OrderReads DEF Order, m
    <2>6. CASE m.type = "closing" /\ OnClosing(m.obs)
      <3>1. UNCHANGED <<phase, ready, requested, permitted, terminal>> /\ closing' /\ childClosing' = {m.obs}
        BY <2>6 DEF OnClosing, BeginClose
      <3>. QED BY <1>0, <1>1, <2>1, <3>1, OrderReads DEF Order, m
    <2>7. CASE m.type = "result" /\ OnResult(m.obs)
      <3>1. UNCHANGED <<phase, ready, requested, permitted, childClosing>> /\ closing'
        BY <2>7 DEF OnResult, BeginClose
      <3>2. childClosing # {}
        BY <2>1, <2>7 DEF Acceptable
      <3>. QED BY <1>0, <1>1, <2>1, <3>1, <3>2, OrderReads DEF Order, m
    <2>. QED BY <2>1, <2>3, <2>4, <2>5, <2>6, <2>7
  <1>. QED BY <1>2, <1>3

\* The child works only after a start, and asks for the permission once
\* (onMessage and requestDrop of the child).
LEMMA OrderChild ==
  ASSUME IInv, ChildHandler \/ ChildEvent
  PROVE  Order'
  <1>. HIDE DEF ChildMessage, Observation, ParentMessage
  <1>0. TypeOK /\ Order /\ Conversation /\ Inbox /\ Permission
    BY DEF IInv, Agreement
  <1>1. CASE ChildDisconnects \/ ChildWorkTimer \/ ChildDeadlinePasses \/ SessionLost
    <2>1. Weakens
      BY <1>0, <1>1, WeakeningSteps
    <2>2. /\ UNCHANGED <<parentVars, toParent, child, cpc>> /\ Alive
          /\ stopReason # "none" => stopReason' # "none"
      BY <2>1 DEF Weakens, Alive
    <2>. QED BY <1>0, <2>2, OrderFrame
  <1>2. CASE ChildBoots
    <2>1. /\ child = "booting" /\ UNCHANGED <<parentVars, connected, cpc>> /\ Alive
          /\ ChildSays(<<[type |-> "ready"]>>) /\ cpc = "idle" /\ toParent = <<>>
          /\ stopReason # "none" => stopReason' # "none"
      BY <1>0, <1>2 DEF ChildBoots, Conversation, Alive, Emergency, ChildStop
    <2>. DEFINE m == [type |-> "ready"]
    <2>2. m \in ChildMessage /\ m.type = "ready" /\ ChildSays(<<m>>)
      BY <2>1, MessageTypes
    <2>. HIDE DEF m
    <2>3. connected => ~ready
      <3>1. connected => ParentPosition = "connect"
        BY <1>0, <2>1, NothingContinues DEF Conversation, ChildPosition
      <3>. QED BY <1>0, <3>1, PositionMeans
    <2>4. \A n \in Range(toParent') : n \in Range(toParent) \/ (n = m /\ ~ready)
      <3>1. CASE connected
        BY <1>0, <2>2, <2>3, <3>1, SaysOne
      <3>2. CASE ~connected
        BY <1>0, <2>2, <3>2, SaysOne
      <3>. QED BY <3>1, <3>2
    <2>5. Says(toParent', "request-drop") => Says(toParent, "request-drop")
      BY <1>0, <2>2, SaysOne
    <2>6. AtMostOne(toParent, "request-drop") => AtMostOne(toParent', "request-drop")
      BY <1>0, <2>2, OnceSaid
    <2>. QED BY <1>0, <2>1, <2>2, <2>4, <2>5, <2>6, OrderFrame
  <1>3. CASE ChildExits
    <2>1. UNCHANGED <<parentVars, toParent>> /\ ~Alive'
      BY <1>3 DEF ChildExits, Alive
    <2>. QED BY <1>0, <2>1, OrderFrame
  <1>4. CASE ChildKilled
    <2>1. UNCHANGED parentVars /\ ~Alive'
      BY <1>4 DEF ChildKilled, Alive
    <2>2. PICK n \in 0..Len(toParent) : toParent' = SubSeq(toParent, 1, n)
      BY <1>4 DEF ChildKilled
    <2>3. Range(toParent') \subseteq Range(toParent)
      BY <1>0, <2>2, KeptMessages DEF TypeOK
    <2>4. AtMostOne(toParent, "request-drop") => AtMostOne(toParent', "request-drop")
      BY <1>0, <2>2, OnceKept DEF TypeOK
    <2>5. Says(toParent', "request-drop") => Says(toParent, "request-drop")
      BY <2>3, SaysLess
    <2>. QED BY <1>0, <2>1, <2>3, <2>4, <2>5, OrderFrame
  <1>5. CASE ChildReads
    <2>1. PICK m \in ParentMessage :
             Reads(m) /\ (Starts(m) \/ Goes(m) \/ Minds(m) \/ GivesUp(m) \/ IsAllocated(m) \/ HangsUp(m))
      BY <1>5, ReadForms
    <2>2. UNCHANGED <<parentVars, child>> /\ child = "running" /\ Alive /\ m \in Range(toChild)
      BY <2>1 DEF Reads, Alive
    <2>3. CASE Starts(m)
      <3>1. UNCHANGED <<toParent, stopReason>> /\ m.type = "start" /\ cpc = "idle" /\ cpc' = "create"
        BY <2>3 DEF Starts
      <3>2. ready
        <4>1. PICK i \in 1..Len(toChild) : m = toChild[i]
          BY <1>0, <2>2, MessagesTyped DEF TypeOK
        <4>. QED BY <1>0, <3>1, <4>1 DEF Inbox
      <3>. QED BY <1>0, <2>2, <3>1, <3>2, OrderFrame DEF Early
    <2>4. CASE Goes(m)
      <3>1. UNCHANGED <<toParent, stopReason>> /\ m.type = "permit-drop" /\ cpc = "permit" /\ cpc' = "confirm"
        BY <2>4 DEF Goes
      <3>2. Says(toChild, "permit-drop")
        BY <2>2, <3>1 DEF Says
      <3>3. requested /\ ~Says(toParent, "request-drop")
        BY <1>0, <3>2 DEF Permission, Order
      <3>. QED BY <1>0, <2>2, <3>1, <3>3, OrderFrame DEF Early, EnginePc
    <2>5. CASE Minds(m) \/ IsAllocated(m)
      <3>1. /\ UNCHANGED <<toParent, cpc>>
            /\ stopReason # "none" => stopReason' # "none"
        BY <2>5 DEF Minds, IsAllocated, Weakens
      <3>. QED BY <1>0, <2>2, <3>1, OrderFrame
    <2>6. CASE HangsUp(m)
      <3>1. UNCHANGED <<toParent, stopReason>> /\ cpc = "reported" /\ cpc' = "finished"
        BY <2>6 DEF HangsUp
      <3>. QED BY <1>0, <2>2, <3>1, OrderFrame DEF Early, EnginePc, QueryPc
    <2>7. CASE GivesUp(m)
      <3>. DEFINE c == [type |-> "closing", obs |-> NotAttempted]
      <3>1. /\ m.type = "cancel" /\ cpc = "idle" /\ cpc' = "allocation" /\ ChildSays(<<c>>)
            /\ stopReason' # "none"
        BY <2>7 DEF GivesUp
      <3>2. c \in ChildMessage /\ c.type = "closing"
        BY MessageTypes, ObservationShape
      <3>. HIDE DEF c
      <3>3. closing
        BY <1>0, <2>2, <3>1 DEF Inbox
      <3>4. Range(toParent') \subseteq Range(toParent) \cup {c}
        BY <1>0, <3>1, <3>2, SaysOne
      <3>5. Says(toParent', "request-drop") => Says(toParent, "request-drop")
        BY <1>0, <3>1, <3>2, SaysOne
      <3>6. AtMostOne(toParent, "request-drop") => AtMostOne(toParent', "request-drop")
        BY <1>0, <3>1, <3>2, OnceSaid
      <3>. QED BY <1>0, <2>2, <3>1, <3>2, <3>3, <3>4, <3>5, <3>6, OrderFrame DEF Early, EnginePc, QueryPc
    <2>. QED BY <2>1, <2>3, <2>4, <2>5, <2>6, <2>7
  <1>. QED BY <1>1, <1>2, <1>3, <1>4, <1>5 DEF ChildHandler, ChildEvent

\* The engine announces after "ready", and asks once (executeRecovery).
LEMMA OrderEngine ==
  ASSUME IInv, EngineStep
  PROVE  Order'
  <1>. HIDE DEF ChildMessage, Observation, ParentMessage
  <1>0. TypeOK /\ Order /\ Permission
    BY DEF IInv, Agreement
  <1>1. CASE EngineRest /\ Asking
    <2>1. /\ UNCHANGED <<parentVars, child, stopReason>> /\ child = "running" /\ Alive
          /\ <<cpc, cpc'>> \in StatementMoves /\ ChildSays(OnTheWay(cpc'))
      BY <1>1 DEF EngineRest, Asking, Alive
    <2>2. /\ cpc' \in QueryPc /\ cpc \in EnginePc /\ cpc # "permit" /\ cpc # "idle"
          /\ cpc' \in Early => cpc \in Early
          /\ cpc' = "verify" => cpc = "drop"
      BY <2>1 DEF StatementMoves, QueryPc, EnginePc, Early
    <2>3. ready /\ (cpc' = "verify" => permitted)
      BY <1>0, <2>1, <2>2 DEF Order, Permission
    <2>4. /\ \A m \in Range(toParent') : m \in Range(toParent) \/ m = PhaseMessage(cpc')
          /\ Says(toParent', "request-drop") => Says(toParent, "request-drop")
      BY <1>0, <2>1, <2>2, SaysOnTheWay
    <2>5. AtMostOne(toParent, "request-drop") => AtMostOne(toParent', "request-drop")
      <3>1. CASE cpc' \in {"lock", "inspect", "verify"}
        <4>1. PhaseMessage(cpc') \in ChildMessage /\ ChildSays(<<PhaseMessage(cpc')>>)
          BY <1>0, <2>1, <2>2, <3>1, SaysOnTheWay
        <4>2. PhaseMessage(cpc').type # "request-drop"
          BY DEF PhaseMessage
        <4>. QED BY <1>0, <4>1, <4>2, OnceSaid
      <3>2. CASE cpc' \notin {"lock", "inspect", "verify"}
        BY <1>0, <2>1, <2>2, <3>2, SaysOnTheWay
      <3>. QED BY <3>1, <3>2
    <2>6. PhaseMessage(cpc').type = "phase" /\ PhaseMessage(cpc').phase = cpc'
      BY DEF PhaseMessage
    <2>. QED BY <1>0, <2>1, <2>2, <2>3, <2>4, <2>5, <2>6, OrderFrame
  <1>2. CASE EngineRest /\ Requesting
    <2>1. /\ UNCHANGED <<parentVars, child, stopReason>> /\ child = "running" /\ Alive
          /\ cpc = "recheck" /\ cpc' = "permit"
          /\ ChildSays(<<PhaseMessage("drop"), [type |-> "request-drop"]>>)
      BY <1>2 DEF EngineRest, Requesting, Alive
    <2>. DEFINE m == PhaseMessage("drop")
                n == [type |-> "request-drop"]
    <2>2. m \in ChildMessage /\ m.type = "phase" /\ m.phase = "drop" /\ n \in ChildMessage /\ n.type = "request-drop"
      BY MessageTypes DEF PhaseMessage, Phase
    <2>3. ChildSays(<<m, n>>)
      BY <2>1
    <2>. HIDE DEF m, n
    <2>4. ready /\ ~requested /\ ~Says(toParent, "request-drop")
      BY <1>0, <2>1 DEF Order, EnginePc, QueryPc
    <2>5. Range(toParent') \subseteq Range(toParent) \cup {m, n}
      BY <1>0, <2>2, <2>3, SaysTwo
    <2>6. AtMostOne(toParent', "request-drop")
      <3>1. AtMostOne(toParent, "request-drop")
        <4>1. Range(toParent) = {toParent[i] : i \in 1..Len(toParent)}
          BY <1>0, MessagesTyped DEF TypeOK
        <4>. QED BY <2>4, <4>1 DEF AtMostOne, Says
      <3>. QED BY <1>0, <2>2, <2>3, <2>4, <3>1, OnceSaid
    <2>7. (\A k \in Range(toParent) :
             /\ k.type \in {"phase", "request-drop"} => ready
             /\ k.type = "phase" /\ k.phase = "verify" => permitted
             /\ k.type = "ready" => ~ready)'
      BY <1>0, <2>1, <2>2, <2>4, <2>5 DEF Order
    <2>8. (Says(toParent, "request-drop") =>
             ~requested /\ AtMostOne(toParent, "request-drop") /\ (Alive => cpc = "permit" \/ stopReason # "none"))'
      BY <2>1, <2>4, <2>6
    <2>. QED BY <1>0, <2>1, <2>4, <2>7, <2>8 DEF Order
  <1>3. CASE EngineRest /\ Finishing
    <2>0. PICK o \in Observation : o = observation'
      BY <1>3 DEF Finishing
    <2>. DEFINE c == [type |-> "closing", obs |-> o]
                m == PhaseMessage("drop")
    <2>1. /\ UNCHANGED <<parentVars, child, stopReason>> /\ child = "running" /\ Alive
          /\ cpc \in EnginePc /\ cpc' = "allocation" /\ (cpc = "permit" => stopReason # "none")
      BY <1>3 DEF EngineRest, Finishing, Alive
    <2>2. /\ c \in ChildMessage /\ c.type = "closing"
          /\ m \in ChildMessage /\ m.type = "phase" /\ m.phase = "drop"
      BY MessageTypes DEF PhaseMessage, Phase
    <2>3. ChildSays(<<c>>) \/ ChildSays(<<m, c>>)
      BY <1>3, <2>0 DEF Finishing
    <2>. HIDE DEF c, m
    <2>4. ready
      BY <1>0, <2>1 DEF Order
    <2>5. Range(toParent') \subseteq Range(toParent) \cup {c, m}
      BY <1>0, <2>2, <2>3, SaysOne, SaysTwo
    <2>6. Says(toParent', "request-drop") => Says(toParent, "request-drop")
      BY <1>0, <2>2, <2>3, SaysOne, SaysTwo
    <2>7. AtMostOne(toParent, "request-drop") => AtMostOne(toParent', "request-drop")
      BY <1>0, <2>2, <2>3, OnceSaid
    <2>8. cpc' \notin EnginePc \cup {"failed"} /\ cpc' \notin Early /\ cpc # "idle"
      BY <2>1 DEF EnginePc, QueryPc, Early
    <2>. QED BY <1>0, <2>1, <2>2, <2>4, <2>5, <2>6, <2>7, <2>8, OrderFrame
  <1>4. CASE ImportFails
    <2>1. /\ UNCHANGED <<parentVars, toParent, child>> /\ child = "running" /\ Alive
          /\ cpc = "create" /\ cpc' = "failed" /\ stopReason = "none"
      BY <1>4 DEF ImportFails, Proceeds, Alive
    <2>2. ready
      BY <1>0, <2>1 DEF Order, EnginePc
    <2>. QED BY <1>0, <2>1, <2>2, OrderFrame DEF Early
  <1>5. CASE SessionClosed
    <2>1. /\ UNCHANGED <<parentVars, child, stopReason>> /\ child = "running" /\ Alive
          /\ cpc = "allocation" /\ cpc' = "reported"
      BY <1>5 DEF SessionClosed, Alive
    <2>2. PICK b \in BOOLEAN : /\ observation' = [observation EXCEPT !.closeFailed = b]
                               /\ ChildSays(<<[type |-> "result", obs |-> observation']>>)
      BY <1>5 DEF SessionClosed
    <2>3. PICK o \in Observation : o = observation'
      <3>1. observation \in Observation
        BY <1>0 DEF TypeOK
      <3>. QED BY <2>2, <3>1, ClosedObservation
    <2>. DEFINE r == [type |-> "result", obs |-> o]
    <2>4. r \in ChildMessage /\ r.type = "result" /\ ChildSays(<<r>>)
      BY <2>2, <2>3, MessageTypes
    <2>. HIDE DEF r
    <2>5. Range(toParent') \subseteq Range(toParent) \cup {r}
      BY <1>0, <2>4, SaysOne
    <2>6. Says(toParent', "request-drop") => Says(toParent, "request-drop")
      BY <1>0, <2>4, SaysOne
    <2>7. AtMostOne(toParent, "request-drop") => AtMostOne(toParent', "request-drop")
      BY <1>0, <2>4, OnceSaid
    <2>. QED BY <1>0, <2>1, <2>4, <2>5, <2>6, <2>7, OrderFrame DEF Early, EnginePc, QueryPc
  <1>. QED BY <1>0, <1>1, <1>2, <1>3, <1>4, <1>5, EngineForms

\* The flags of the parent follow each other.
LEMMA OrderStep ==
  ASSUME IInv, [Next]_vars
  PROVE  Order'
  <1>0. TypeOK /\ Fence /\ Order
    BY DEF IInv, Agreement
  <1>1. CASE UNCHANGED vars \/ ServerExecutes \/ ServerEnds \/ OthersAct
    <2>1. UNCHANGED <<parentVars, toParent, childVars>>
      BY <1>0, <1>1, ServerForms
    <2>. QED BY <1>0, <2>1, OrderFrame DEF Alive
  <1>. QED BY <1>1, OrderParent, OrderChild, OrderEngine DEF Next

-----------------------------------------------------------------------------
(* What the parent said *)

\* Nothing is sent, and the pipe is as it was, read, or gone.
LEMMA InboxFrame ==
  ASSUME TypeOK, Inbox,
         toChild' = toChild \/ (toChild # <<>> /\ toChild' = Tail(toChild)) \/ toChild' = <<>>,
         ready => ready', closing => closing', terminal => terminal',
         childClosing # {} => childClosing' # {},
         Says(toChild', "start") =>
           child' = "running" /\ cpc' = "idle" /\ ~requested' /\ ~Says(toParent', "request-drop"),
         Says(toChild', "permit-drop") /\ Alive' => cpc' = "permit" \/ stopReason' # "none",
         closeReceived' => childClosing' # {},
         Says(toChild', "close") => ~closeReceived',
         Says(toChild', "finish") /\ Alive' => cpc' = "reported",
         cpc' = "finished" \/ child' \in {"killed", "exited"} => ~connected' /\ toChild' = <<>>
  PROVE  Inbox'
  <1>. HIDE DEF ParentMessage
  <1>0. toChild \in Seq(ParentMessage)
    BY DEF TypeOK
  <1>1. /\ Range(toChild') \subseteq Range(toChild)
        /\ \A i \in 1..Len(toChild') : toChild'[i].type \in {"start", "permit-drop"} => i = 1 /\ ready
        /\ \A t : AtMostOne(toChild, t) => AtMostOne(toChild', t)
    <2>1. CASE toChild' = toChild
      BY <2>1 DEF Inbox
    <2>2. CASE toChild' = <<>>
      <3>1. Range(toChild') = {} /\ Len(toChild') = 0
        BY <2>2, NoMessages
      <3>. QED BY <3>1 DEF AtMostOne
    <2>3. CASE toChild # <<>> /\ toChild' = Tail(toChild)
      <3>1. /\ Range(toChild') \subseteq Range(toChild)
            /\ Len(toChild) \in Nat \ {0} /\ Len(toChild') = Len(toChild) - 1
            /\ \A i \in 1..Len(toChild') : toChild'[i] = toChild[i + 1]
        BY <1>0, <2>3, ReadMessages
      <3>2. ASSUME NEW i \in 1..Len(toChild'), toChild'[i].type \in {"start", "permit-drop"} PROVE FALSE
        <4>1. i + 1 \in 1..Len(toChild) /\ i + 1 # 1 /\ toChild[i + 1].type \in {"start", "permit-drop"}
          BY <3>1, <3>2
        <4>. QED BY <4>1 DEF Inbox
      <3>3. \A t : AtMostOne(toChild, t) => AtMostOne(toChild', t)
        BY <1>0, <2>3, OnceRead
      <3>. QED BY <3>1, <3>2, <3>3
    <2>. QED BY <2>1, <2>2, <2>3
  <1>2. \A t : Says(toChild', t) => Says(toChild, t)
    BY <1>1, SaysLess
  <1>3. (\A i \in 1..Len(toChild) : toChild[i].type \in {"start", "permit-drop"} => i = 1 /\ ready)'
    BY <1>1
  <1>4. (~closing => \A m \in Range(toChild) : m.type \in {"start", "permit-drop"})'
    BY <1>1 DEF Inbox
  <1>5. (Says(toChild, "close") \/ closeReceived => childClosing # {})'
    BY <1>2 DEF Inbox
  <1>6. (Says(toChild, "close") => ~closeReceived /\ AtMostOne(toChild, "close"))'
    BY <1>1, <1>2 DEF Inbox
  <1>7. (Says(toChild, "finish") => terminal /\ AtMostOne(toChild, "finish") /\ (Alive => cpc = "reported"))'
    BY <1>1, <1>2 DEF Inbox
  <1>. QED BY <1>3, <1>4, <1>5, <1>6, <1>7 DEF Inbox

\* One message is sent, for a child that is as it was.
LEMMA InboxSends ==
  ASSUME TypeOK, Inbox, NEW m \in ParentMessage, Sent(m),
         UNCHANGED <<cpc, stopReason, closeReceived>>, connected' => connected,
         child' = child \/ (child' \notin {"running", "killed", "exited"} /\ child # "running" /\ (Alive' => Alive)),
         ready => ready', closing => closing', terminal => terminal',
         childClosing # {} => childClosing' # {},
         m.type \in {"start", "permit-drop"} /\ connected => toChild = <<>> /\ ready',
         ~closing' => m.type \in {"start", "permit-drop"},
         Says(toChild, "start") => ~requested' /\ ~Says(toParent', "request-drop"),
         m.type = "start" /\ connected =>
           child' = "running" /\ cpc = "idle" /\ ~requested' /\ ~Says(toParent', "request-drop"),
         m.type = "permit-drop" /\ connected /\ Alive => cpc = "permit" \/ stopReason # "none",
         m.type = "close" => childClosing' # {} /\ ~closeReceived /\ ~Says(toChild, "close"),
         m.type = "finish" =>
           terminal' /\ ~Says(toChild, "finish") /\ (connected /\ Alive => cpc = "reported")
  PROVE  Inbox'
  <1>. HIDE DEF ParentMessage
  <1>0. toChild \in Seq(ParentMessage)
    BY DEF TypeOK
  <1>a. Alive' => Alive
    BY DEF Alive
  <1>1. CASE toChild' = toChild
    <2>1. Says(toChild', "start") => child' = "running"
      BY <1>1 DEF Inbox
    <2>2. cpc' = "finished" \/ child' \in {"killed", "exited"} => ~connected' /\ toChild' = <<>>
      BY <1>1 DEF Inbox
    <2>. QED BY <1>1, <1>a, <2>1, <2>2, InboxFrame DEF Inbox
  <1>2. CASE connected /\ toChild' = Append(toChild, m)
    <2>1. /\ Len(toChild') = Len(toChild) + 1 /\ toChild'[Len(toChild) + 1] = m
          /\ \A i \in 1..Len(toChild) : toChild'[i] = toChild[i]
          /\ Range(toChild') = Range(toChild) \cup {m} /\ Len(toChild) \in Nat
      BY <1>0, <1>2, AppendedMessages, MessagesTyped
    <2>2. \A t : Says(toChild', t) <=> Says(toChild, t) \/ m.type = t
      BY <1>0, <1>2, SaysAppended
    <2>3. \A t : AtMostOne(toChild, t) /\ (m.type # t \/ ~Says(toChild, t)) => AtMostOne(toChild', t)
      BY <1>0, <1>2, OnceAppended
    <2>4. \A t : ~Says(toChild, t) => AtMostOne(toChild, t)
      <3>1. Range(toChild) = {toChild[i] : i \in 1..Len(toChild)}
        BY <1>0, MessagesTyped
      <3>. QED BY <3>1 DEF Says, AtMostOne
    <2>5. (\A i \in 1..Len(toChild) : toChild[i].type \in {"start", "permit-drop"} => i = 1 /\ ready)'
      <3>1. ASSUME NEW i \in 1..(Len(toChild) + 1), toChild'[i].type \in {"start", "permit-drop"}
            PROVE  i = 1 /\ ready'
        <4>1. CASE i \in 1..Len(toChild)
          BY <2>1, <3>1, <4>1 DEF Inbox
        <4>2. CASE i = Len(toChild) + 1
          <5>1. toChild = <<>> /\ ready'
            BY <1>2, <2>1, <3>1, <4>2
          <5>. QED BY <4>2, <5>1, NoMessages
        <4>. QED BY <2>1, <4>1, <4>2
      <3>. QED BY <2>1, <3>1
    <2>6. (~closing => \A k \in Range(toChild) : k.type \in {"start", "permit-drop"})'
      BY <2>1 DEF Inbox
    <2>7. (Says(toChild, "start") =>
             child = "running" /\ cpc = "idle" /\ ~requested /\ ~Says(toParent, "request-drop"))'
      BY <1>2, <2>2 DEF Inbox
    <2>8. (Says(toChild, "permit-drop") /\ Alive => cpc = "permit" \/ stopReason # "none")'
      BY <1>2, <1>a, <2>2 DEF Inbox
    <2>9. (Says(toChild, "close") \/ closeReceived => childClosing # {})'
      BY <2>2 DEF Inbox
    <2>10. (Says(toChild, "close") => ~closeReceived /\ AtMostOne(toChild, "close"))'
      BY <2>2, <2>3, <2>4 DEF Inbox
    <2>11. (Says(toChild, "finish") => terminal /\ AtMostOne(toChild, "finish") /\ (Alive => cpc = "reported"))'
      BY <1>2, <1>a, <2>2, <2>3, <2>4 DEF Inbox
    <2>12. (cpc = "finished" \/ child \in {"killed", "exited"} => ~connected /\ toChild = <<>>)'
      BY <1>2 DEF Inbox
    <2>. QED BY <2>5, <2>6, <2>7, <2>8, <2>9, <2>10, <2>11, <2>12 DEF Inbox
  <1>. QED BY <1>1, <1>2 DEF Sent

\* What the parent sends, the child waits for (superviseRecovery).
LEMMA InboxParent ==
  ASSUME IInv, ParentStep \/ ParentEvent
  PROVE  Inbox'
  <1>. HIDE DEF ChildMessage, Observation, ParentMessage
  <1>0. TypeOK /\ Inbox /\ Order /\ Conversation /\ Permission /\ Reporting
    BY DEF IInv, Agreement
  <1>1. UNCHANGED <<cpc, stopReason, closeReceived>>
    BY ParentFrame
  <1>2. CASE ~OnMessage
    <2>1. Quiet
      BY <1>0, <1>2, QuietSteps
    <2>2. /\ UNCHANGED <<protocolVars, toParent>> /\ (closing => closing') /\ (connected' => connected)
          /\ child' = child \/ (child' \notin {"running", "killed", "exited"} /\ child # "running" /\ (Alive' => Alive))
      BY <2>1 DEF Quiet, Alive
    <2>3. CASE toChild' = toChild
      <3>1. Says(toChild', "start") => child' = "running"
        BY <1>0, <2>2, <2>3 DEF Inbox
      <3>2. cpc' = "finished" \/ child' \in {"killed", "exited"} => ~connected' /\ toChild' = <<>>
        BY <1>0, <1>1, <2>2, <2>3 DEF Inbox
      <3>3. Alive' => Alive
        BY <2>2 DEF Alive
      <3>. QED BY <1>0, <1>1, <2>2, <2>3, <3>1, <3>2, <3>3, InboxFrame DEF Inbox
    <2>4. CASE closing' /\ \E r \in Reason : Sent(Cancel(r))
      <3>1. PICK r \in Reason : Sent(Cancel(r))
        BY <2>4
      <3>2. Cancel(r) \in ParentMessage /\ Cancel(r).type = "cancel"
        BY MessageTypes DEF Cancel
      <3>3. Says(toChild, "start") => ~requested' /\ ~Says(toParent', "request-drop")
        BY <1>0, <2>2 DEF Inbox
      <3>. QED BY <1>0, <1>1, <2>2, <2>4, <3>1, <3>2, <3>3, InboxSends
    <2>. QED BY <2>1, <2>3, <2>4 DEF Quiet
  <1>3. CASE OnMessage
    <2>. DEFINE m == Head(toParent)
    <2>1. /\ toParent # <<>> /\ Acceptable(m) /\ MayFollow(ParentPosition, m)
          /\ m \in ChildMessage /\ m \in Range(toParent)
          /\ Range(toParent') \subseteq Range(toParent)
          /\ UNCHANGED <<child, connected>>
          /\ \/ m.type = "ready" /\ OnReady
             \/ m.type = "phase" /\ OnPhase(m)
             \/ m.type = "request-drop" /\ OnRequestDrop
             \/ m.type = "closing" /\ OnClosing(m.obs)
             \/ m.type = "result" /\ OnResult(m.obs)
      BY <1>3, Handles
    <2>. HIDE DEF m
    <2>2. Says(toParent', "request-drop") => Says(toParent, "request-drop")
      BY <2>1, SaysLess
    <2>3. Says(toParent, m.type)
      BY <2>1 DEF Says
    <2>4. connected => Alive
      BY <1>0 DEF Conversation
    <2>5. Cancel("DEADLINE_EXCEEDED") \in ParentMessage /\ Cancel("DEADLINE_EXCEEDED").type = "cancel"
      BY MessageTypes DEF Cancel, Reason
    <2>6. Says(toChild, "start") => ~requested /\ ~Says(toParent, "request-drop")
      BY <1>0 DEF Inbox
    <2>7. CASE m.type = "ready" /\ OnReady
      <3>1. UNCHANGED <<requested, terminal, childClosing>>
        BY <2>7 DEF OnReady
      <3>2. Says(toChild, "start") => ~requested' /\ ~Says(toParent', "request-drop")
        BY <2>2, <2>6, <3>1
      <3>3. CASE closing /\ UNCHANGED <<ready, failureVars, closeVars, toChild>>
        <4>1. UNCHANGED <<ready, closing, toChild>>
          BY <3>3
        <4>. QED BY <1>0, <1>1, <2>1, <3>1, <3>2, <4>1, InboxFrame DEF Inbox, Alive
      <3>4. CASE ready' = TRUE /\ closing' = TRUE /\ Sent(Cancel("DEADLINE_EXCEEDED"))
        BY <1>0, <1>1, <2>1, <2>5, <3>1, <3>2, <3>4, InboxSends
      <3>5. CASE ready' = TRUE /\ UNCHANGED closeVars /\ ~closing /\ Sent([type |-> "start"])
        <4>. DEFINE s == [type |-> "start"]
        <4>1. s \in ParentMessage /\ s.type = "start" /\ Sent(s)
          BY <3>5, MessageTypes
        <4>. HIDE DEF s
        <4>2. ParentPosition = "connect"
          BY <2>1, <2>7 DEF MayFollow
        <4>3. ~ready /\ ~requested
          BY <1>0, <4>2, PositionMeans
        <4>4. connected => child = "running" /\ cpc = "idle"
          BY <1>0, <2>1, <2>4, <3>5, <4>3 DEF Conversation, Order, Alive
        <4>5. connected => ~Says(toParent', "request-drop")
          BY <1>0, <2>2, <2>4, <4>4 DEF Order
        <4>6. toChild = <<>>
          <5>1. toChild \in Seq(ParentMessage)
            BY <1>0 DEF TypeOK
          <5>2. toChild # <<>> => 1 \in 1..Len(toChild) /\ toChild[1] \in Range(toChild)
            BY <5>1, ReadMessages
          <5>. QED BY <1>0, <3>5, <4>3, <5>2 DEF Inbox
        <4>7. ready' /\ UNCHANGED closing
          BY <3>5
        <4>. QED BY <1>0, <1>1, <2>1, <3>1, <3>2, <3>5, <4>1, <4>3, <4>4, <4>5, <4>6, <4>7, InboxSends
      <3>. QED BY <1>0, <2>7, <3>3, <3>4, <3>5, HandlerForms
    <2>8. CASE m.type = "phase" /\ OnPhase(m)
      <3>1. UNCHANGED <<ready, requested, terminal, childClosing, closing, toChild>>
        BY <2>8 DEF OnPhase
      <3>2. Says(toChild, "start") => ~requested' /\ ~Says(toParent', "request-drop")
        BY <2>2, <2>6, <3>1
      <3>. QED BY <1>0, <1>1, <2>1, <3>1, <3>2, InboxFrame DEF Inbox, Alive
    <2>9. CASE m.type = "request-drop" /\ OnRequestDrop
      <3>1. UNCHANGED <<ready, terminal, childClosing>>
        BY <2>9 DEF OnRequestDrop
      <3>2. ~Says(toChild, "start")
        BY <2>3, <2>6, <2>9
      <3>3. CASE closing /\ UNCHANGED <<closeVars, toChild>>
        <4>1. UNCHANGED <<closing, toChild>>
          BY <3>3
        <4>. QED BY <1>0, <1>1, <2>1, <3>1, <3>2, <4>1, InboxFrame DEF Inbox, Alive
      <3>4. CASE closing' = TRUE /\ Sent(Cancel("DEADLINE_EXCEEDED"))
        BY <1>0, <1>1, <2>1, <2>5, <3>1, <3>2, <3>4, InboxSends
      <3>5. CASE UNCHANGED closeVars /\ ~closing /\ Sent([type |-> "permit-drop"])
        <4>. DEFINE s == [type |-> "permit-drop"]
        <4>1. s \in ParentMessage /\ s.type = "permit-drop" /\ Sent(s)
          BY <3>5, MessageTypes
        <4>. HIDE DEF s
        <4>2. ready /\ ~requested
          BY <2>1, <2>9 DEF Acceptable
        <4>3. ~Says(toChild, "permit-drop")
          BY <1>0, <4>2 DEF Permission
        <4>4. connected /\ Alive => cpc = "permit" \/ stopReason # "none"
          BY <1>0, <2>3, <2>9 DEF Order
        <4>5. toChild = <<>>
          <5>1. toChild \in Seq(ParentMessage)
            BY <1>0 DEF TypeOK
          <5>2. toChild # <<>> => Head(toChild) \in Range(toChild)
            BY <5>1, ReadMessages
          <5>3. toChild # <<>> => Says(toChild, "start") \/ Says(toChild, "permit-drop")
            BY <1>0, <3>5, <5>2 DEF Inbox, Says
          <5>. QED BY <3>2, <4>3, <5>3
        <4>6. ready' /\ UNCHANGED closing
          BY <3>1, <3>5, <4>2
        <4>. QED BY <1>0, <1>1, <2>1, <3>1, <3>2, <3>5, <4>1, <4>4, <4>5, <4>6, InboxSends
      <3>. QED BY <1>0, <2>9, <3>3, <3>4, <3>5, HandlerForms
    <2>10. CASE m.type = "closing" /\ OnClosing(m.obs)
      <3>1. UNCHANGED <<ready, requested, terminal>> /\ childClosing' # {}
        BY <2>10 DEF OnClosing
      <3>2. Sent([type |-> "close"]) /\ closing' = TRUE
        BY <1>0, <2>10, HandlerForms
      <3>. DEFINE s == [type |-> "close"]
      <3>3. s \in ParentMessage /\ s.type = "close" /\ Sent(s)
        BY <3>2, MessageTypes
      <3>. HIDE DEF s
      <3>4. childClosing = {}
        BY <2>1, <2>10 DEF Acceptable
      <3>5. ~closeReceived /\ ~Says(toChild, "close")
        BY <1>0, <3>4 DEF Inbox
      <3>6. Says(toChild, "start") => ~requested' /\ ~Says(toParent', "request-drop")
        BY <2>2, <2>6, <3>1
      <3>. QED BY <1>0, <1>1, <2>1, <3>1, <3>2, <3>3, <3>5, <3>6, InboxSends
    <2>11. CASE m.type = "result" /\ OnResult(m.obs)
      <3>1. UNCHANGED <<ready, requested, childClosing>> /\ terminal'
        BY <2>11 DEF OnResult
      <3>2. Sent([type |-> "finish"]) /\ closing' = TRUE
        BY <1>0, <2>11, HandlerForms
      <3>. DEFINE s == [type |-> "finish"]
      <3>3. s \in ParentMessage /\ s.type = "finish" /\ Sent(s)
        BY <3>2, MessageTypes
      <3>. HIDE DEF s
      <3>4. ~terminal
        BY <2>1, <2>11 DEF Acceptable
      <3>5. ~Says(toChild, "finish")
        BY <1>0, <3>4 DEF Inbox
      <3>6. connected /\ Alive => cpc = "reported"
        BY <1>0, <2>3, <2>11 DEF Reporting, Inbox
      <3>7. Says(toChild, "start") => ~requested' /\ ~Says(toParent', "request-drop")
        BY <2>2, <2>6, <3>1
      <3>. QED BY <1>0, <1>1, <2>1, <3>1, <3>2, <3>3, <3>5, <3>6, <3>7, InboxSends
    <2>. QED BY <2>1, <2>7, <2>8, <2>9, <2>10, <2>11
  <1>. QED BY <1>2, <1>3

\* The child reads what it waits for (onMessage of the child).
LEMMA InboxChild ==
  ASSUME IInv, ChildHandler \/ ChildEvent
  PROVE  Inbox'
  <1>. HIDE DEF ChildMessage, Observation, ParentMessage
  <1>0. TypeOK /\ Inbox /\ Order /\ Conversation /\ Reporting
    BY DEF IInv, Agreement
  <1>1. CASE ChildDisconnects \/ ChildWorkTimer \/ ChildDeadlinePasses \/ SessionLost
    <2>1. Weakens /\ UNCHANGED <<toChild, closeReceived>>
      BY <1>0, <1>1, WeakeningSteps
    <2>2. /\ UNCHANGED <<parentVars, toParent, connected, child, cpc>>
          /\ stopReason # "none" => stopReason' # "none"
          /\ Alive' <=> Alive
      BY <2>1 DEF Weakens, Alive
    <2>. QED BY <1>0, <2>1, <2>2, InboxFrame DEF Inbox
  <1>2. CASE ChildBoots
    <2>1. /\ child = "booting" /\ child' = "running" /\ Alive
          /\ UNCHANGED <<parentVars, toChild, connected, cpc, closeReceived>>
          /\ stopReason # "none" => stopReason' # "none"
      BY <1>2 DEF ChildBoots, Alive, Emergency, ChildStop
    <2>2. ~Says(toChild, "start")
      BY <1>0, <2>1 DEF Inbox
    <2>. QED BY <1>0, <2>1, <2>2, InboxFrame DEF Inbox
  <1>3. CASE ChildExits
    <2>1. UNCHANGED <<parentVars, toChild, toParent, connected, cpc, closeReceived>> /\ cpc = "finished" /\ ~Alive'
      BY <1>3 DEF ChildExits, Alive
    <2>2. ~Says(toChild, "start")
      BY <1>0, <2>1 DEF Inbox
    <2>. QED BY <1>0, <2>1, <2>2, InboxFrame DEF Inbox
  <1>4. CASE ChildKilled
    <2>1. /\ UNCHANGED parentVars /\ ~Alive' /\ ~connected' /\ toChild' = <<>> /\ ~closeReceived'
      BY <1>4 DEF ChildKilled, Alive
    <2>2. \A t : ~Says(toChild', t)
      BY <2>1, NoMessages DEF Says
    <2>. QED BY <1>0, <2>1, <2>2, InboxFrame
  <1>5. CASE ChildReads
    <2>1. PICK m \in ParentMessage :
             Reads(m) /\ (Starts(m) \/ Goes(m) \/ Minds(m) \/ GivesUp(m) \/ IsAllocated(m) \/ HangsUp(m))
      BY <1>5, ReadForms
    <2>2. /\ UNCHANGED <<parentVars, child>> /\ child = "running" /\ Alive /\ m \in Range(toChild)
          /\ toChild # <<>> /\ m = Head(toChild)
          /\ toChild' = Tail(toChild) \/ toChild' = <<>>
          /\ Range(toChild') \subseteq Range(toChild)
      BY <2>1 DEF Reads, Alive
    <2>3. /\ \A t : Says(toChild', t) => Says(toChild, t)
          /\ Says(toChild, m.type)
      BY <2>2, SaysLess DEF Says
    <2>4. ~Says(toChild', "start") /\ ~Says(toChild', "permit-drop")
      <3>1. toChild' = <<>> => \A t : ~Says(toChild', t)
        BY NoMessages DEF Says
      <3>2. CASE toChild' = Tail(toChild)
        <4>0. toChild \in Seq(ParentMessage)
          BY <1>0 DEF TypeOK
        <4>1. /\ Len(toChild) \in Nat \ {0} /\ Len(toChild') = Len(toChild) - 1
              /\ \A i \in 1..Len(toChild') : toChild'[i] = toChild[i + 1]
              /\ toChild' \in Seq(ParentMessage)
          BY <2>2, <3>2, <4>0, ReadMessages
        <4>2. \A ch \in Seq(ParentMessage) : Range(ch) = {ch[i] : i \in 1..Len(ch)}
          BY MessagesTyped
        <4>3. Range(toChild') = {toChild'[i] : i \in 1..Len(toChild')}
          BY <4>1, <4>2, Zenon
        <4>4. ASSUME NEW i \in 1..Len(toChild'), toChild'[i].type \in {"start", "permit-drop"} PROVE FALSE
          <5>1. i + 1 \in 1..Len(toChild) /\ i + 1 # 1 /\ toChild[i + 1].type \in {"start", "permit-drop"}
            BY <4>1, <4>4
          <5>. QED BY <1>0, <5>1 DEF Inbox
        <4>. QED BY <4>3, <4>4 DEF Says
      <3>. QED BY <2>2, <3>1, <3>2
    <2>5. m.type = "close" => ~Says(toChild', "close")
      <3>1. CASE m.type = "close"
        <4>1. toChild \in Seq(ParentMessage) /\ AtMostOne(toChild, "close")
          BY <1>0, <2>3, <3>1 DEF Inbox, TypeOK
        <4>2. ~Says(Tail(toChild), "close")
          BY <2>2, <3>1, <4>1, OnceRead
        <4>3. ~Says(<<>>, "close")
          BY NoMessages DEF Says
        <4>. QED BY <2>2, <4>2, <4>3
      <3>. QED BY <3>1
    <2>6. Says(toChild', "finish") /\ Says(toChild, "finish") => cpc = "reported"
      BY <1>0, <2>2 DEF Inbox
    <2>7. CASE Starts(m)
      <3>1. UNCHANGED closeReceived /\ cpc = "idle" /\ cpc' = "create" /\ UNCHANGED connected
        BY <2>7 DEF Starts
      <3>. QED BY <1>0, <2>2, <2>3, <2>4, <2>6, <3>1, InboxFrame DEF Inbox
    <2>8. CASE Goes(m)
      <3>1. UNCHANGED closeReceived /\ cpc = "permit" /\ cpc' = "confirm" /\ UNCHANGED connected
        BY <2>8 DEF Goes
      <3>. QED BY <1>0, <2>2, <2>3, <2>4, <2>6, <3>1, InboxFrame DEF Inbox
    <2>9. CASE Minds(m)
      <3>1. UNCHANGED <<closeReceived, cpc, connected>>
        BY <2>9 DEF Minds, Weakens
      <3>2. cpc' = "finished" \/ child' \in {"killed", "exited"} => ~connected' /\ toChild' = <<>>
        BY <1>0, <2>2, <3>1 DEF Inbox
      <3>. QED BY <1>0, <2>2, <2>3, <2>4, <2>6, <3>1, <3>2, InboxFrame DEF Inbox
    <2>10. CASE IsAllocated(m)
      <3>1. UNCHANGED <<cpc, connected>> /\ m.type = "close"
        BY <2>10 DEF IsAllocated, Weakens
      <3>2. childClosing' # {}
        BY <1>0, <2>2, <2>3, <3>1 DEF Inbox
      <3>3. cpc' = "finished" \/ child' \in {"killed", "exited"} => ~connected' /\ toChild' = <<>>
        BY <1>0, <2>2, <3>1 DEF Inbox
      <3>. QED BY <1>0, <2>2, <2>3, <2>4, <2>5, <2>6, <3>1, <3>2, <3>3, InboxFrame
    <2>11. CASE GivesUp(m)
      <3>1. UNCHANGED <<closeReceived, connected>> /\ cpc = "idle" /\ cpc' = "allocation"
        BY <2>11 DEF GivesUp
      <3>. QED BY <1>0, <2>2, <2>3, <2>4, <2>6, <3>1, InboxFrame DEF Inbox
    <2>12. CASE HangsUp(m)
      <3>1. UNCHANGED closeReceived /\ connected' = FALSE /\ toChild' = <<>>
        BY <2>12 DEF HangsUp
      <3>2. \A t : ~Says(toChild', t)
        BY <3>1, NoMessages DEF Says
      <3>. QED BY <1>0, <2>2, <3>1, <3>2, InboxFrame DEF Inbox
    <2>. QED BY <2>1, <2>7, <2>8, <2>9, <2>10, <2>11, <2>12
  <1>. QED BY <1>1, <1>2, <1>3, <1>4, <1>5 DEF ChildHandler, ChildEvent

\* The engine starts after the start is read, waits for the permission and
\* reports before the finish (executeRecovery).
LEMMA InboxEngine ==
  ASSUME IInv, EngineStep
  PROVE  Inbox'
  <1>. HIDE DEF ChildMessage, Observation, ParentMessage
  <1>0. TypeOK /\ Inbox
    BY DEF IInv, Agreement
  <1>1. /\ UNCHANGED <<parentVars, toChild, connected, child, closeReceived>> /\ child = "running" /\ Alive
        /\ cpc \notin {"idle", "reported", "finished"} /\ cpc' # "finished"
        /\ stopReason # "none" => stopReason' # "none"
        /\ cpc = "permit" => stopReason # "none"
    <2>1. CASE EngineRest /\ Asking
      BY <2>1 DEF EngineRest, Asking, StatementMoves, Alive
    <2>2. CASE EngineRest /\ Requesting
      BY <2>2 DEF EngineRest, Requesting, Alive
    <2>3. CASE EngineRest /\ Finishing
      BY <2>3 DEF EngineRest, Finishing, EnginePc, QueryPc, Alive
    <2>4. CASE ImportFails
      BY <2>4 DEF ImportFails, Proceeds, Emergency, ChildStop, Alive
    <2>5. CASE SessionClosed
      BY <2>5 DEF SessionClosed, Alive
    <2>. QED BY <1>0, <2>1, <2>2, <2>3, <2>4, <2>5, EngineForms
  <1>2. ~Says(toChild, "start") /\ ~Says(toChild, "finish")
    BY <1>0, <1>1 DEF Inbox
  <1>3. Says(toChild, "permit-drop") => stopReason' # "none"
    BY <1>0, <1>1 DEF Inbox
  <1>. QED BY <1>0, <1>1, <1>2, <1>3, InboxFrame DEF Inbox

\* What is in the pipe to the child is what it waits for.
LEMMA InboxStep ==
  ASSUME IInv, [Next]_vars
  PROVE  Inbox'
  <1>0. TypeOK /\ Fence /\ Inbox
    BY DEF IInv, Agreement
  <1>1. CASE UNCHANGED vars \/ ServerExecutes \/ ServerEnds \/ OthersAct
    <2>1. UNCHANGED <<parentVars, toChild, toParent, connected, childVars>>
      BY <1>0, <1>1, ServerForms
    <2>. QED BY <1>0, <2>1, InboxFrame DEF Inbox, Alive
  <1>. QED BY <1>1, InboxParent, InboxChild, InboxEngine DEF Next

-----------------------------------------------------------------------------
(* The end *)

\* What the end of the two processes depends on.
LEMMA EndingFrame ==
  ASSUME Ending,
         primary # "none" => primary' # "none",
         exited' => (exited /\ UNCHANGED child) \/ child' \in {"exited", "killed"},
         exited' /\ NoFailure' => (exited /\ NoFailure /\ UNCHANGED child) \/ child' = "exited",
         child' \in {"failed", "unspawned"} => child \in {"failed", "unspawned"} \/ primary' # "none",
         disconnected' => ~connected' /\ toParent' = <<>>,
         call' = "settled" => Disposed',
         child' = "exited" => (child = "exited" /\ UNCHANGED session) \/ session' \in {"unused", "disposed"},
         stopReason' = "CANCELLED" => stopReason = "CANCELLED" \/ primary' # "none",
         \A m \in Range(toChild') :
           m.type = "cancel" /\ m.reason = "CANCELLED" => m \in Range(toChild) \/ primary' # "none"
  PROVE  Ending'
  <1>1. (exited => child \in {"exited", "killed"})' /\ (exited /\ NoFailure => child = "exited")'
    BY DEF Ending
  <1>2. (child \in {"failed", "unspawned"} => primary # "none")'
    BY DEF Ending
  <1>3. (child = "exited" => session \in {"unused", "disposed"})'
    BY DEF Ending
  <1>4. (stopReason = "CANCELLED" => primary # "none")'
    BY DEF Ending
  <1>5. (\A m \in Range(toChild) : m.type = "cancel" /\ m.reason = "CANCELLED" => primary # "none")'
    BY DEF Ending
  <1>. QED BY <1>1, <1>2, <1>3, <1>4, <1>5 DEF Ending

\* A failure is never forgotten, also in a message (recordFailure and the
\* handlers of superviseRecovery).
LEMMA FailuresStay ==
  ASSUME IInv, ParentStep \/ ParentEvent
  PROVE  /\ primary # "none" => primary' # "none"
         /\ NoFailure' => NoFailure
         /\ \A m \in Range(toChild') :
              m.type = "cancel" /\ m.reason = "CANCELLED" => m \in Range(toChild) \/ primary' # "none"
  <1>. HIDE DEF ChildMessage, Observation, ParentMessage
  <1>0. TypeOK /\ toChild \in Seq(ParentMessage)
    BY DEF IInv, TypeOK
  <1>1. ASSUME NEW m \in ParentMessage, Sent(m)
        PROVE  Range(toChild') \subseteq Range(toChild) \cup {m}
    <2>1. Range(Append(toChild, m)) = Range(toChild) \cup {m}
      BY <1>0, <1>1, AppendedMessages
    <2>2. toChild' = toChild \/ toChild' = Append(toChild, m)
      BY <1>1 DEF Sent
    <2>. QED BY <2>1, <2>2
  <1>2. CASE ~OnMessage
    <2>1. Quiet
      BY <1>0, <1>2, QuietSteps
    <2>2. /\ primary # "none" => primary' = primary
          /\ closeFailed => closeFailed'
          /\ toChild' = toChild \/ primary' # "none"
      BY <2>1 DEF Quiet
    <2>3. NoFailure' => NoFailure
      BY <2>2 DEF NoFailure
    <2>. QED BY <2>2, <2>3
  <1>3. CASE OnMessage
    <2>. DEFINE m == Head(toParent)
    <2>1. \/ m.type = "ready" /\ OnReady
          \/ m.type = "phase" /\ OnPhase(m)
          \/ m.type = "request-drop" /\ OnRequestDrop
          \/ m.type = "closing" /\ OnClosing(m.obs)
          \/ m.type = "result" /\ OnResult(m.obs)
      BY <1>3, Handles
    <2>. HIDE DEF m
    <2>2. /\ \A t \in {"start", "permit-drop", "close", "finish"} : [type |-> t] \in ParentMessage /\ [type |-> t].type # "cancel"
      BY MessageTypes
    <2>3. CASE OnReady \/ OnRequestDrop
      <3>1. \/ UNCHANGED <<failureVars, toChild>>
            \/ (primary # "none" => primary' = primary) /\ primary' # "none"
            \/ UNCHANGED failureVars /\ (Sent([type |-> "start"]) \/ Sent([type |-> "permit-drop"]))
        BY <1>0, <2>3, HandlerForms
      <3>2. CASE UNCHANGED <<failureVars, toChild>>
        BY <3>2 DEF NoFailure
      <3>3. CASE (primary # "none" => primary' = primary) /\ primary' # "none"
        BY <3>3 DEF NoFailure
      <3>4. CASE UNCHANGED failureVars /\ (Sent([type |-> "start"]) \/ Sent([type |-> "permit-drop"]))
        BY <1>1, <2>2, <3>4 DEF NoFailure
      <3>. QED BY <3>1, <3>2, <3>3, <3>4
    <2>4. CASE OnPhase(m)
      BY <2>4 DEF OnPhase, NoFailure
    <2>5. ASSUME NEW o, OnClosing(o) \/ OnResult(o)
          PROVE  /\ primary # "none" => primary' # "none"
                 /\ NoFailure' => NoFailure
                 /\ \A k \in Range(toChild') :
                      k.type = "cancel" /\ k.reason = "CANCELLED" => k \in Range(toChild) \/ primary' # "none"
      <3>1. Accept(o) /\ (Sent([type |-> "close"]) \/ Sent([type |-> "finish"]))
        BY <1>0, <2>5, HandlerForms DEF OnClosing, OnResult
      <3>2. (primary # "none" => primary' = primary) /\ (closeFailed => closeFailed')
        BY <3>1 DEF Accept, AddFailure
      <3>. QED BY <1>1, <2>2, <3>1, <3>2 DEF NoFailure
    <2>. QED BY <2>1, <2>3, <2>4, <2>5
  <1>. QED BY <1>2, <1>3

\* The parent concludes when both ends of the child are known (conclude).
LEMMA EndingParent ==
  ASSUME IInv, ParentStep \/ ParentEvent
  PROVE  Ending'
  <1>. HIDE DEF ChildMessage, Observation, ParentMessage
  <1>0. TypeOK /\ Ending /\ Order /\ Conversation
    BY DEF IInv, Agreement
  <1>1. UNCHANGED <<stopReason, session>> /\ call = "pending"
    BY ParentFrame DEF ParentStep, ParentEvent, OnMessage, WorkTimer, SendSettles, ForceTimer, FinalTimer,
       OnExit, OnDisconnect, OnClose, Abort, DeadlinePasses, SpawnFails, ParentCrash
  <1>2. /\ primary # "none" => primary' # "none"
        /\ NoFailure' => NoFailure
        /\ \A m \in Range(toChild') :
             m.type = "cancel" /\ m.reason = "CANCELLED" => m \in Range(toChild) \/ primary' # "none"
    BY FailuresStay
  <1>3. CASE OnExit
    <2>1. /\ child \in {"exited", "killed"} /\ UNCHANGED <<child, disconnected, connected, toParent>>
          /\ call' = IF Disposed' THEN "settled" ELSE call
      BY <1>3 DEF OnExit, Conclude
    <2>2. NoFailure' => child = "exited"
      BY <1>0, <1>3 DEF OnExit, NoFailure, Order, AddFailure
    <2>. QED BY <1>0, <1>1, <1>2, <2>1, <2>2, EndingFrame DEF Ending
  <1>4. CASE OnDisconnect
    <2>1. /\ UNCHANGED <<child, exited, connected, toParent>> /\ ~connected /\ toParent = <<>>
          /\ call' = IF Disposed' THEN "settled" ELSE call
      BY <1>4 DEF OnDisconnect, Conclude
    <2>. QED BY <1>0, <1>1, <1>2, <2>1, EndingFrame
  <1>5. CASE SendSettles
    <2>1. /\ UNCHANGED <<child, exited, disconnected, connected, toParent>>
          /\ call' = IF Disposed' THEN "settled" ELSE call
      BY <1>5 DEF SendSettles, Conclude
    <2>. QED BY <1>0, <1>1, <1>2, <2>1, EndingFrame DEF Ending
  <1>6. CASE OnClose
    <2>1. /\ UNCHANGED <<exited, disconnected, connected, toParent>> /\ child = "failed" /\ child' = "unspawned"
          /\ call' = IF Disposed' THEN "settled" ELSE call
      BY <1>6 DEF OnClose, Conclude
    <2>. QED BY <1>0, <1>1, <1>2, <2>1, EndingFrame DEF Ending
  <1>7. CASE SpawnFails
    <2>1. /\ UNCHANGED <<exited, disconnected, toParent, call>> /\ child = "booting" /\ child' = "failed" /\ ~connected'
      BY <1>7 DEF SpawnFails
    <2>2. primary' # "none"
      BY <1>0, <1>7, StopSends DEF SpawnFails, TypeOK, Reason
    <2>. QED BY <1>0, <1>1, <1>2, <2>1, <2>2, EndingFrame DEF Ending
  <1>8. CASE OnMessage
    <2>1. UNCHANGED <<call, exited, disconnected, child, connected>> /\ toParent # <<>>
      BY <1>8 DEF OnMessage
    <2>. QED BY <1>0, <1>1, <1>2, <2>1, EndingFrame DEF Ending
  <1>9. CASE ForceTimer \/ FinalTimer \/ WorkTimer \/ Abort \/ DeadlinePasses \/ ParentCrash
    <2>1. /\ UNCHANGED <<exited, disconnected, child, toParent>> /\ (connected' => connected)
          /\ call' = call \/ call' = "crashed"
      BY <1>9 DEF ForceTimer, FinalTimer, WorkTimer, Abort, StopOnly, DeadlinePasses, ParentCrash
    <2>. QED BY <1>0, <1>1, <1>2, <2>1, EndingFrame DEF Ending
  <1>. QED BY <1>3, <1>4, <1>5, <1>6, <1>7, <1>8, <1>9 DEF ParentStep, ParentEvent

\* The child ends by itself after its session is closed, and no step of it is
\* seen after its end (the exit of the child, the fence).
LEMMA EndingChild ==
  ASSUME IInv, ChildHandler \/ EngineStep \/ ChildEvent
  PROVE  Ending'
  <1>. HIDE DEF ChildMessage, Observation, ParentMessage
  <1>0. TypeOK /\ Ending
    BY DEF IInv
  <1>1. /\ UNCHANGED parentVars /\ Alive /\ (connected' => connected)
        /\ ~connected => toParent' = toParent \/ \E n \in 0..Len(toParent) : toParent' = SubSeq(toParent, 1, n)
        /\ child' \in {"running", "killed", "exited"}
        /\ child' = "exited" => session' \in {"unused", "disposed"}
        /\ Range(toChild') \subseteq Range(toChild)
        /\ stopReason' = "CANCELLED" =>
             \/ stopReason = "CANCELLED"
             \/ \E m \in Range(toChild) : m.type = "cancel" /\ m.reason = "CANCELLED"
    <2>1. CASE ChildDisconnects \/ ChildWorkTimer \/ ChildDeadlinePasses \/ SessionLost
      BY <1>0, <2>1, WeakeningSteps DEF Weakens, Alive
    <2>2. CASE ChildBoots
      BY <2>2 DEF ChildBoots, ChildSays, Alive, Emergency, ChildStop
    <2>3. CASE ChildExits
      BY <2>3 DEF ChildExits, Alive
    <2>4. CASE ChildKilled
      <3>1. Range(toChild') = {}
        BY <2>4, NoMessages DEF ChildKilled
      <3>. QED BY <2>4, <3>1 DEF ChildKilled, Alive
    <2>5. CASE ChildReads
      <3>1. PICK m \in ParentMessage :
               Reads(m) /\ (Starts(m) \/ Goes(m) \/ Minds(m) \/ GivesUp(m) \/ IsAllocated(m) \/ HangsUp(m))
        BY <2>5, ReadForms
      <3>2. /\ UNCHANGED parentVars /\ child = "running" /\ child' = "running" /\ Alive
            /\ Range(toChild') \subseteq Range(toChild) /\ m \in Range(toChild)
        BY <3>1 DEF Reads, Alive
      <3>3. CASE Starts(m) \/ Goes(m) \/ HangsUp(m)
        BY <3>2, <3>3 DEF Starts, Goes, HangsUp
      <3>4. CASE Minds(m) \/ IsAllocated(m)
        BY <3>2, <3>4 DEF Minds, IsAllocated, Weakens
      <3>5. CASE GivesUp(m)
        BY <3>2, <3>5 DEF GivesUp, ChildSays
      <3>. QED BY <3>1, <3>3, <3>4, <3>5
    <2>6. CASE EngineStep
      <3>1. CASE EngineRest /\ (Asking \/ Requesting \/ Finishing)
        BY <3>1 DEF EngineRest, Asking, Requesting, Finishing, ChildSays, Alive
      <3>2. CASE ImportFails
        BY <3>2 DEF ImportFails, Proceeds, Emergency, ChildStop, Alive
      <3>3. CASE SessionClosed
        BY <3>3 DEF SessionClosed, ChildSays, Alive
      <3>. QED BY <1>0, <2>6, <3>1, <3>2, <3>3, EngineForms
    <2>. QED BY <2>1, <2>2, <2>3, <2>4, <2>5, <2>6 DEF ChildHandler, ChildEvent
  <1>2. ~exited /\ call # "settled"
    BY <1>0, <1>1 DEF Ending, Alive, Disposed
  <1>3. disconnected' => ~connected' /\ toParent' = <<>>
    <2>1. ASSUME disconnected PROVE ~connected /\ toParent = <<>>
      BY <1>0, <2>1 DEF Ending
    <2>2. Len(<<>>) = 0 /\ SubSeq(<<>>, 1, 0) = <<>>
      OBVIOUS
    <2>3. ASSUME disconnected PROVE toParent' = <<>>
      BY <1>1, <2>1, <2>2, <2>3
    <2>. QED BY <1>1, <2>1, <2>3
  <1>4. stopReason' = "CANCELLED" => primary # "none"
    BY <1>0, <1>1 DEF Ending
  <1>5. \A m \in Range(toChild') : m.type = "cancel" /\ m.reason = "CANCELLED" => m \in Range(toChild)
    BY <1>1
  <1>. QED BY <1>0, <1>1, <1>2, <1>3, <1>4, <1>5, EndingFrame

\* What ended has ended.
LEMMA EndingStep ==
  ASSUME IInv, [Next]_vars
  PROVE  Ending'
  <1>0. TypeOK /\ Fence /\ Ending
    BY DEF IInv
  <1>1. CASE UNCHANGED vars \/ ServerExecutes \/ ServerEnds \/ OthersAct
    <2>1. UNCHANGED <<parentVars, toChild, toParent, connected, childVars>>
      BY <1>0, <1>1, ServerForms
    <2>2. NoFailure' = NoFailure /\ Disposed' = Disposed
      BY <2>1 DEF NoFailure, Disposed
    <2>. QED BY <1>0, <2>1, <2>2, EndingFrame DEF Ending
  <1>. QED BY <1>1, EndingParent, EndingChild DEF Next

-----------------------------------------------------------------------------
(* The theorems *)

\* Nothing is said and nothing is done when the call starts (superviseRecovery).
LEMMA InitInvariant == Init => IInv
  <1>. SUFFICES ASSUME Init PROVE IInv
    OBVIOUS
  <1>1. Range(toChild) = {} /\ Range(toParent) = {} /\ Len(toChild) = 0 /\ Len(toParent) = 0
        /\ toChild \in Seq(ParentMessage) /\ toParent \in Seq(ChildMessage)
    BY NoMessages DEF Init
  <1>2. TypeOK
    BY <1>1, RecoveryAssumption, ObservationShape
       DEF Init, TypeOK, PgTypeOK, NoStmt, Statement, StmtKind, Outcome, Phase, Reason, Refusal
  <1>3. stmt[Admin] = NoStmt /\ backend[Admin] = "absent" /\ NoStmt.kind = "none"
    BY AdminSession DEF Init, NoStmt
  <1>4. Fence
    <2>1. creator[Acquired] = Outsider
      BY RecoveryAssumption DEF Init
    <2>. QED BY <1>3, <2>1, ActorAssumption DEF Init, Fence, QueryPc
  <1>5. Permission
    BY <1>1, <1>3 DEF Init, Permission, Says
  <1>6. Reporting
    BY <1>1 DEF Init, Reporting, Reports, Told, Says, ClosingPc
  <1>7. Conversation
    BY NothingContinues DEF Init, Conversation, ParentPosition, ChildPosition, Alive
  <1>8. Order
    BY <1>1 DEF Init, Order, Says, EnginePc, QueryPc
  <1>9. Inbox
    BY <1>1 DEF Init, Inbox, Says
  <1>10. Ending
    BY <1>1 DEF Init, Ending
  <1>. QED BY <1>2, <1>4, <1>5, <1>6, <1>7, <1>8, <1>9, <1>10 DEF IInv, Agreement

\* Every step keeps the invariant.
LEMMA StepInvariant ==
  ASSUME IInv, [Next]_vars
  PROVE  IInv'
  <1>1. TypeOK' /\ Fence'
    BY TypeStep, FenceStep DEF IInv
  <1>2. Permission' /\ Reporting' /\ Conversation' /\ Order' /\ Inbox' /\ Ending'
    BY PermissionStep, ReportingStep, ConversationStep, OrderStep, InboxStep, EndingStep
  <1>. QED BY <1>1, <1>2 DEF IInv, Agreement

\* The invariant of the recovery, of the parent, the child, the channel and the
\* server together, in every state (superviseRecovery, executeRecovery).
THEOREM Invariance == Spec => []IInv
  <1>1. Init => IInv
    BY InitInvariant
  <1>2. IInv /\ [Next]_vars => IInv'
    BY StepInvariant
  <1>. QED BY <1>1, <1>2, PTL DEF Spec

\* From the granted lock to the end of the backend the lock is held, and what was
\* seen of the target under it stays true (acquireLock, inspectTarget, dispatchDrop).
THEOREM FenceHolds == Spec => []Fence
  <1>1. IInv => Fence
    BY DEF IInv
  <1>. QED BY <1>1, Invariance, PTL

\* No DROP, and no word of one, without a recorded permission (requestDrop, permitDrop).
THEOREM PermissionHolds == Spec => []Permission
  <1>1. IInv => Permission
    BY DEF IInv
  <1>. QED BY <1>1, Invariance, PTL

\* The reports are true, and both directions of the channel carry what the other
\* end waits for (onMessage of both).
THEOREM AgreementHolds == Spec => []Agreement
  <1>1. IInv => Agreement
    BY DEF IInv
  <1>. QED BY <1>1, Invariance, PTL

\* A call that ended knows both ends of its child, and an irregular end is
\* recorded as a failure (onExit, onDisconnect, conclude).
THEOREM EndingHolds == Spec => []Ending
  <1>1. IInv => Ending
    BY DEF IInv
  <1>. QED BY <1>1, Invariance, PTL

\* Every variable keeps its type.
THEOREM TypeCorrect == Spec => []TypeOK
  <1>1. IInv => TypeOK
    BY DEF IInv
  <1>. QED BY <1>1, Invariance, PTL

\* A DROP that the server can still execute, also of a child that is stopped or
\* dead, finds the retained database, under its lock (dispatchDrop).
THEOREM DropIsFenced == Spec => []DropsOnlyTarget
  <1>1. IInv => DropsOnlyTarget
    BY FenceGuards DEF IInv
  <1>. QED BY <1>1, Invariance, PTL

\* Parent and child never take a message of each other for a violation of the
\* protocol, whatever is cancelled, late, lost or killed (onMessage of both).
THEOREM ProtocolIsFollowed == Spec => []PeersAgree
  <1>1. IInv => PeersAgree
    BY AgreementAgrees
  <1>. QED BY <1>1, Invariance, PTL

\* What a successful end has seen: the report of the child was true, and both
\* ends of the child are known (conclude).
LEMMA CleanEnd == IInv => SuccessIsClean
  <1>. SUFFICES ASSUME IInv, Success
                PROVE  /\ \A n \in Name : catalog[n] # Acquired
                       /\ child = "exited" /\ session = "disposed" /\ stopReason # "CANCELLED"
                       /\ pendingSends = 0 /\ toParent = <<>>
                       /\ \A kind \in StmtKind : ~Running(Admin, kind)
    BY DEF SuccessIsClean
  <1>1. call = "settled" /\ primary = "none" /\ NoFailure /\ outcome \in {"removed", "already-absent"}
    BY DEF Success, NoFailure
  <1>2. Reporting /\ Ending
    BY DEF IInv, Agreement
  <1>3. PICK o \in childClosing : o.outcome = outcome
    BY <1>1, <1>2 DEF Reporting
  <1>4. Successful(o) /\ Truthful(o)
    BY <1>1, <1>2, <1>3, ReportsMean DEF Reporting, Successful
  <1>5. Gone /\ session # "unused" /\ answer[Admin] # "pending"
    BY <1>4 DEF Truthful
  <1>6. exited /\ disconnected /\ pendingSends = 0
    BY <1>1, <1>2 DEF Ending, Disposed
  <1>7. child = "exited" /\ toParent = <<>> /\ stopReason # "CANCELLED"
    BY <1>1, <1>2, <1>6 DEF Ending
  <1>8. session = "disposed"
    BY <1>2, <1>5, <1>7 DEF Ending
  <1>. QED BY <1>5, <1>6, <1>7, <1>8 DEF Gone, Running

\* A call that resolves leaves no database, no session, no process and no
\* message behind (superviseRecovery).
THEOREM SuccessLeavesNothing == Spec => []SuccessIsClean
  <1>1. IInv => SuccessIsClean
    BY CleanEnd
  <1>. QED BY <1>1, Invariance, PTL

-----------------------------------------------------------------------------
(* The outcome *)

verdict == IF call = "settled" THEN outcome ELSE "open"

\* The outcome that is recorded is the one a caller may rely on (acceptObservation).
LEMMA OutcomeJustified ==
  ASSUME IInv
  PROVE  outcome \in Outcome /\ Report!Justified(outcome)
  <1>0. TypeOK /\ Permission /\ Reporting
    BY DEF IInv, Agreement
  <1>1. outcome = "removed" => dropped
    <2>1. ASSUME outcome = "removed" PROVE dropped
      <3>1. PICK o \in childClosing : o.outcome = "removed"
        BY <1>0, <2>1 DEF Reporting
      <3>2. Truthful(o)
        BY <1>0, <3>1, ReportsMean DEF Reporting
      <3>. QED BY <3>1, <3>2 DEF Truthful
    <2>. QED BY <2>1
  <1>2. outcome \in Outcome
    BY <1>0 DEF TypeOK
  <1>3. outcome \in {"not-attempted", "already-absent"} => ~permitted
    BY <1>0 DEF Permission
  <1>4. outcome = "unknown" => permitted
    BY <1>0 DEF Permission
  <1>. QED BY <1>1, <1>2, <1>3, <1>4 DEF Report!Justified, Outcome

\* The parent permits once, and concludes once (superviseRecovery).
LEMMA OutcomeParent ==
  ASSUME IInv, ParentStep \/ ParentEvent
  PROVE  [Report!Next]_(Report!vars)
  <1>0. call = "pending" /\ UNCHANGED dropped
    BY ParentFrame DEF ParentStep, ParentEvent, OnMessage, WorkTimer, SendSettles, ForceTimer, FinalTimer,
       OnExit, OnDisconnect, OnClose, Abort, DeadlinePasses, SpawnFails, ParentCrash
  <1>1. CASE OnMessage
    <2>. DEFINE m == Head(toParent)
    <2>1. /\ Acceptable(m) /\ UNCHANGED call
          /\ \/ m.type = "ready" /\ OnReady
             \/ m.type = "phase" /\ OnPhase(m)
             \/ m.type = "request-drop" /\ OnRequestDrop
             \/ m.type = "closing" /\ OnClosing(m.obs)
             \/ m.type = "result" /\ OnResult(m.obs)
      BY <1>1, Handles
    <2>. HIDE DEF m
    <2>2. CASE m.type = "request-drop" /\ OnRequestDrop
      <3>1. ~permitted
        BY <2>1, <2>2 DEF Acceptable, IInv, Permission
      <3>2. permitted' = permitted \/ permitted' = TRUE
        BY <2>2 DEF OnRequestDrop
      <3>. QED BY <1>0, <2>1, <3>1, <3>2 DEF Report!Next, Report!Permit, Report!vars
    <2>3. CASE OnReady \/ OnPhase(m) \/ OnClosing(m.obs) \/ OnResult(m.obs)
      <3>1. UNCHANGED permitted
        BY <2>3 DEF OnReady, OnPhase, OnClosing, OnResult
      <3>. QED BY <1>0, <2>1, <3>1 DEF Report!vars
    <2>. QED BY <2>1, <2>2, <2>3
  <1>2. CASE ~OnMessage
    <2>1. UNCHANGED <<permitted, outcome>>
      BY <1>2, QuietSteps DEF IInv, Quiet
    <2>2. call' = "settled" \/ call' = call \/ call' = "crashed"
      BY <1>2 DEF ParentStep, ParentEvent, WorkTimer, SendSettles, ForceTimer, FinalTimer,
         OnExit, OnDisconnect, OnClose, Abort, StopOnly, DeadlinePasses, SpawnFails, ParentCrash, Conclude
    <2>3. CASE call' = "settled"
      <3>1. verdict = "open" /\ verdict' = outcome /\ outcome \in Outcome /\ Report!Justified(outcome)
        BY <1>0, <2>1, <2>3, OutcomeJustified DEF verdict
      <3>. QED BY <1>0, <2>1, <3>1 DEF Report!Next, Report!Conclude, verdict, Outcome
    <2>4. CASE call' # "settled"
      BY <1>0, <2>1, <2>4 DEF Report!vars
    <2>. QED BY <2>3, <2>4
  <1>. QED BY <1>1, <1>2

\* Every step maps to a step of the abstract specification or to none.
LEMMA OutcomeStep ==
  ASSUME IInv, [Next]_vars
  PROVE  [Report!Next]_(Report!vars)
  <1>1. CASE UNCHANGED vars
    BY <1>1 DEF Report!vars
  <1>2. CASE ServerExecutes \/ ServerEnds \/ OthersAct
    <2>1. /\ UNCHANGED parentVars
          /\ dropped => dropped'
          /\ dropped' => dropped \/ permitted
      BY <1>2, ServerForms DEF IInv, Permission
    <2>2. dropped \in BOOLEAN /\ dropped' \in BOOLEAN
      BY TypeStep DEF IInv, TypeOK
    <2>. QED BY <2>1, <2>2 DEF Report!Next, Report!Drop, Report!vars
  <1>3. CASE ParentStep \/ ParentEvent
    BY <1>3, OutcomeParent
  <1>4. CASE ChildHandler \/ ChildEvent \/ EngineStep
    <2>1. UNCHANGED <<parentVars, dropped>>
      <3>1. CASE ChildHandler \/ ChildEvent
        BY <3>1 DEF ChildHandler, ChildEvent, ChildBoots, ChildReads, ChildDisconnects, ChildWorkTimer,
           ChildExits, ChildDeadlinePasses, ChildKilled, SessionLost
      <3>2. CASE EngineStep
        BY <3>2, EngineForms DEF IInv, EngineRest, ImportFails, SessionClosed
      <3>. QED BY <1>4, <3>1, <3>2
    <2>. QED BY <2>1 DEF Report!vars
  <1>. QED BY <1>1, <1>2, <1>3, <1>4 DEF Next

\* Recovery implements RecoveryOutcome: whatever a call answers, the caller may
\* conclude from its outcome what that specification says.
THEOREM OutcomeHonesty == Spec => OutcomeIsHonest
  <1>1. Init => Report!Init
    BY DEF Init, Report!Init
  <1>2. IInv /\ [Next]_vars => [Report!Next]_(Report!vars)
    BY OutcomeStep
  <1>. QED BY <1>1, <1>2, Invariance, PTL DEF Spec, OutcomeIsHonest, Report!Spec
=============================================================================
