---------------------------- MODULE MCMigrations ----------------------------
(* Migrations for TLC: three runs at once, one of an older binary.         *)
EXTENDS Migrations

CONSTANTS p1, p2, p3

Runs == {p1, p2, p3}
Binaries == [p \in Runs |-> IF p = p3 THEN 2 ELSE 4]
=============================================================================
