--------------------------- MODULE MCTestDatabase ---------------------------
(* TestDatabase on small instances. *)
EXTENDS TestDatabaseUse, TLC

Symmetry == Permutations(Context) \cup Permutations(SessionId) \cup Permutations(Oid)
            \cup Permutations(Name)
=============================================================================
