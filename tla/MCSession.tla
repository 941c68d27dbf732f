----------------------------- MODULE MCSession -----------------------------
(* The identity of a test process and a session on a small instance. *)
EXTENDS SessionInvariant, SequencesExt

CONSTANTS ns1, empty, lone, pool1, pool2, connect, q1, q2

\* The offsets at which characters of these widths end.
EndsOf(widths) == [k \in DOMAIN widths |-> FoldLeft(+, 0, SubSeq(widths, 1, k))]
\* A base name whose prefix is cut within 63 bytes, and one that starts with pg_.
Long == [kind |-> "base", ends |-> EndsOf(<<1, 4, 4, 4, 4, 4, 4, 4>>), pg |-> FALSE]
System == [kind |-> "base", ends |-> EndsOf(<<1, 1, 1, 2>>), pg |-> TRUE]
UrlOf(base, keys, mode) == [valid |-> TRUE, proper |-> TRUE, long |-> FALSE, base |-> base, role |-> "owner", keys |-> keys, mode |-> mode]
Plain == UrlOf(Long, {}, "none")
Tls == UrlOf(Long, {"sslmode"}, "verify-full")
MCUrl == {Plain, Tls, UrlOf(System, {}, "none"), UrlOf(Long, {"sslmode", "sslrootcert", "sslkey"}, "require"),
          UrlOf(Long, {"host"}, "none"), [Plain EXCEPT !.valid = FALSE], [Plain EXCEPT !.proper = FALSE],
          [Plain EXCEPT !.long = TRUE], [Plain EXCEPT !.role = "long"]}

MCTestOptions == [migrationsRun : {TRUE}, synchronize : {FALSE}, migrations : BOOLEAN]

MCDeviation ==
  {<<>>, [acquiredOid |-> 0], [acquiredOid |-> MaxOid], [acquiredOid |-> MaxOid + 1], [plain |-> FALSE],
   [exclusive |-> FALSE], [tls |-> "half"], [tls |-> "valid"], [timeoutMs |-> MaxTimeout + 1],
   [closeTimeoutMs |-> MaxCloseTimeout], [expectedRole |-> "other"], [workerId |-> pool1],
   [databaseName |-> Long], [databaseName |-> [kind |-> "system"]], [url |-> Tls], [url |-> Plain]}
=============================================================================
