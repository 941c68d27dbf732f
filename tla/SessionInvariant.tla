-------------------------- MODULE SessionInvariant --------------------------
(***************************************************************************)
(* The inductive invariant of Session: what a captured identity is, and     *)
(* what a close that has begun or settled goes with.                        *)
(***************************************************************************)
EXTENDS Session

\* An identity as it is captured: under a valid URL, in a usable namespace, with the name computed from both.
Faithful(t) ==
  /\ t.url \in Url /\ t.url.valid
  /\ t.info.namespace \in Namespace \ Unusable /\ t.info.processId = ProcessId
  /\ t.info.databaseName = TestDatabaseName(t.url.base, t.info)

CapturedIsFaithful ==
  /\ stage = "none" => env \in Environment
  /\ configuration # Missing => Faithful(configuration)
  /\ reported # Missing => Faithful(reported)

\* A session that closes is no longer used, and it is disposed of only as its close settles.
CloseStops ==
  /\ closing # "no" => stopping
  /\ confirmed => closing \in {"ok", "failed"}

IInv == TypeOK /\ CapturedIsFaithful /\ CloseStops /\ CloseIsHonest /\ ReportedIsRecoverable
=============================================================================
