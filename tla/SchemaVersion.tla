--------------------------- MODULE SchemaVersion ----------------------------
(***************************************************************************)
(* What migrate promises about a database, with no transactions, no locks  *)
(* and no other migrators in it.                                           *)
(*                                                                         *)
(* The database is at a version, and holds what the migrations up to it    *)
(* make.  It moves by one version at a time.  A run that reports success   *)
(* does so at an instant when nothing it brings is missing; one that       *)
(* reports an error, or dies, has left the database at some version.       *)
(* Migrations.tla shows that racing, dying runs of binaries of any age do  *)
(* nothing else.                                                           *)
(***************************************************************************)
EXTENDS Integers

CONSTANTS Migrator,  \* runs of a command
          Makes,     \* Makes[v]: what migration v makes
          Embedded   \* Embedded[p]: how many migrations run p brings

VARIABLES version,   \* where the database is
          tables,    \* what it holds
          exit       \* exit[p]: the status of the last run of p, -1 while there is none

vars == <<version, tables, exit>>

Init ==
    /\ version = 0
    /\ tables = {}
    /\ exit = [p \in Migrator |-> -1]

Start(p) ==
    /\ exit' = [exit EXCEPT ![p] = -1]
    /\ UNCHANGED <<version, tables>>

\* Somebody's migration is applied, with the tables it makes.
Up ==
    /\ version + 1 \in DOMAIN Makes
    /\ version' = version + 1
    /\ tables' = tables \cup Makes[version + 1]
    /\ UNCHANGED exit

Succeed(p) ==
    /\ exit[p] = -1
    /\ version >= Embedded[p]
    /\ exit' = [exit EXCEPT ![p] = 0]
    /\ UNCHANGED <<version, tables>>

Fail(p) ==
    /\ exit[p] = -1
    /\ exit' = [exit EXCEPT ![p] = 1]
    /\ UNCHANGED <<version, tables>>

\* A Down takes the last version back, and with it what it made.
TakeBack(p) ==
    /\ exit[p] = -1
    /\ version > 0
    /\ version' = version - 1
    /\ tables' = tables \ Makes[version]
    /\ exit' = [exit EXCEPT ![p] = 0]

Next == Up \/ \E p \in Migrator : Start(p) \/ Succeed(p) \/ Fail(p) \/ TakeBack(p)

Spec == Init /\ [][Next]_vars
=============================================================================
