--------------------------- MODULE SessionPromise ---------------------------
(***************************************************************************)
(* What the lifecycle and the recovery rely on in a session: a statement    *)
(* that fails makes it unhealthy for good, closing ends once, in success or *)
(* failure, and a session that says it is disposed has nothing under way.   *)
(***************************************************************************)
CONSTANT Op

VARIABLES
  healthy,
  call,         \* what the caller of an operation knows of it
  close, disposed

vars == <<healthy, call, close, disposed>>

Init ==
  /\ healthy = TRUE /\ disposed = FALSE /\ close = "open"
  /\ call = [o \in Op |-> "none"]

Becomes(o, from, to) == call[o] = from /\ call' = [call EXCEPT ![o] = to]

Dispatch(o) ==
  /\ Becomes(o, "none", IF healthy THEN "waiting" ELSE "failed")
  /\ UNCHANGED <<healthy, close, disposed>>
Succeed(o) == Becomes(o, "waiting", "ok") /\ UNCHANGED <<healthy, close, disposed>>
Fail(o) == Becomes(o, "waiting", "failed") /\ healthy' = FALSE /\ UNCHANGED <<close, disposed>>
Break == healthy' = FALSE /\ UNCHANGED <<call, close, disposed>>

BeginClose == close = "open" /\ close' = "closing" /\ healthy' = FALSE /\ UNCHANGED <<call, disposed>>
Settle ==
  /\ close = "closing" /\ close' \in {"ok", "failed"}
  /\ disposed' \in BOOLEAN
  /\ close' = "ok" => disposed'
  /\ disposed' => \A o \in Op : call[o] # "waiting"
  /\ UNCHANGED <<healthy, call>>

Next == Break \/ BeginClose \/ Settle \/ \E o \in Op : Dispatch(o) \/ Succeed(o) \/ Fail(o)

\* Closing settles, and so does every operation.
Settles ==
  /\ close = "closing" ~> close \in {"ok", "failed"}
  /\ \A o \in Op : call[o] = "waiting" ~> call[o] # "waiting"

Spec == Init /\ [][Next]_vars /\ Settles
=============================================================================
