----------------------------- MODULE Migrations -----------------------------
(***************************************************************************)
(* uptime-server migrate: any number of runs of Migrate in                 *)
(* internal/database/migrate.go, one after another or at once, of binaries *)
(* that embed as many migrations as their age, over one database.  Runs    *)
(* may die at any step.  Also the Down sections of src/migrations, which   *)
(* the program itself never runs, as an operator with goose's own command  *)
(* does.                                                                   *)
(*                                                                         *)
(* What Migrate calls of goose (UpContext) is external: it reads the       *)
(* current version, runs the next migration and the insert of its version  *)
(* row in one transaction, and repeats.  It takes no lock.                 *)
(***************************************************************************)
EXTENDS Integers, Sequences, FiniteSets

CONSTANTS
    Migrator,  \* runs of a command
    Embedded,  \* Embedded[p]: the number of migrations in the binary of run p
    MaxDowns,  \* bound of the Downs of the operator
    Nil

Versions == 1..4

ASSUME RunAssumption ==
    /\ Nil \notin Migrator
    /\ Embedded \in [Migrator -> 0..4]
    /\ MaxDowns \in Nat

\* The tables, and the column with its index, that 0000v creates, in order.
\* An index comes and goes with its table.  CREATE EXTENSION IF NOT EXISTS pgcrypto, the first
\* statement of 00001, does nothing after the first run and is never dropped: no step.
Creates ==
    << <<"organizations", "users", "memberships">>,
       <<"auth_refresh_tokens">>,
       <<"user_totp_credentials", "api_keys", "audit_logs">>,
       <<"users.webauthn_user_handle", "auth_webauthn_credentials", "auth_webauthn_sessions">> >>

\* What its Down section drops, in order.
Drops ==
    << <<"memberships", "users", "organizations">>,
       <<"auth_refresh_tokens">>,
       <<"audit_logs", "api_keys", "user_totp_credentials">>,
       <<"auth_webauthn_sessions", "auth_webauthn_credentials", "users.webauthn_user_handle">> >>

\* REFERENCES, and the table of a column.
References(object) ==
    CASE object \in {"organizations", "users"} -> {}
      [] object \in {"memberships", "api_keys"} -> {"organizations", "users"}
      [] object = "audit_logs" -> {"organizations", "users", "api_keys"}
      [] OTHER -> {"users"}

Objects(v) == {Creates[v][i] : i \in 1..Len(Creates[v])}
AllObjects == UNION {Objects(v) : v \in Versions}

VARIABLES
    schema,    \* the committed objects
    applied,   \* applied[v]: the rows of goose_db_version that say v is applied
    run,       \* run[p]: a run that is under way, Nil otherwise
    exit,      \* exit[p]: the exit status of the last run of p, -1 if it has none
    downs

vars == <<schema, applied, run, exit, downs>>

\* version: the migration whose transaction is open, 0 between two; next: its statement.
RunState == [dir : {"up", "down"}, version : Versions \cup {0}, next : 1..4]

ASSUME NilAssumption == Nil \notin RunState

Init ==
    /\ schema = {}
    /\ applied = [v \in Versions |-> 0]
    /\ run = [p \in Migrator |-> Nil]
    /\ exit = [p \in Migrator |-> -1]
    /\ downs = 0

\* The highest version that has a row.
Current == CHOOSE v \in Versions \cup {0} :
               /\ v # 0 => applied[v] > 0
               /\ \A w \in Versions : applied[w] > 0 => w <= v

Under(p) == run[p] # Nil
Open(p, dir) == Under(p) /\ run[p].version # 0 /\ run[p].dir = dir
Between(p, dir) == Under(p) /\ run[p].version = 0 /\ run[p].dir = dir

Statements(p) == IF run[p].dir = "up" THEN Creates[run[p].version] ELSE Drops[run[p].version]
AtEnd(p) == run[p].next > Len(Statements(p))
Object(p) == Statements(p)[run[p].next]
\* What the open transaction of p has made, or dropped.
Done(p) == {Statements(p)[i] : i \in 1..(run[p].next - 1)}

\* An object that another open transaction has made is waited for.
Locked(p) == \E q \in Migrator \ {p} : Open(q, "up") /\ Object(p) \in Done(q)

Begin(p, dir) ==
    /\ run' = [run EXCEPT ![p] = [dir |-> dir, version |-> 0, next |-> 1]]
    /\ exit' = [exit EXCEPT ![p] = -1]

End(p, outcome) ==
    /\ run' = [run EXCEPT ![p] = Nil]
    /\ exit' = [exit EXCEPT ![p] = outcome]

-----------------------------------------------------------------------------
(* uptime-server migrate                                                   *)

\* sql.Open, Ping, goose.UpContext.
Migrate(p) ==
    /\ ~Under(p)
    /\ \A q \in Migrator : Under(q) => run[q].dir = "up"
    /\ Begin(p, "up")
    /\ UNCHANGED <<schema, applied, downs>>

\* The next migration that this binary embeds.
NextMigration(p) ==
    /\ Between(p, "up")
    /\ Current < Embedded[p]
    /\ run' = [run EXCEPT ![p].version = Current + 1]
    /\ UNCHANGED <<schema, applied, exit, downs>>

Create(p) ==
    /\ Open(p, "up") /\ ~AtEnd(p)
    /\ ~Locked(p)
    /\ Object(p) \notin schema
    /\ run' = [run EXCEPT ![p].next = @ + 1]
    /\ UNCHANGED <<schema, applied, exit, downs>>

\* Mutant: a run that finds its migration done waits.
WaitForTurn(p) ==
    /\ Open(p, "up") /\ ~AtEnd(p)
    /\ ~Locked(p)
    /\ Object(p) \in schema
    /\ UNCHANGED vars

\* Another run has committed it in the meantime: "already exists".
AlreadyExists(p) ==
    /\ Open(p, "up") /\ ~AtEnd(p)
    /\ ~Locked(p)
    /\ Object(p) \in schema
    /\ End(p, 1)
    /\ UNCHANGED <<schema, applied, downs>>

\* Mutant: the version row is inserted outside the transaction, before it.
RecordFirst(p) ==
    /\ Open(p, "up") /\ AtEnd(p)
    /\ applied' = [applied EXCEPT ![run[p].version] = @ + 1]
    /\ UNCHANGED <<schema, downs>>
    /\ run' = [run EXCEPT ![p].version = 0, ![p].next = 1]
    /\ UNCHANGED exit

CommitUp(p) ==
    /\ Open(p, "up") /\ AtEnd(p)
    /\ schema' = schema \cup Done(p)
    /\ applied' = [applied EXCEPT ![run[p].version] = @ + 1]
    /\ run' = [run EXCEPT ![p].version = 0, ![p].next = 1]
    /\ UNCHANGED <<exit, downs>>

\* Mutant: one migration a run.
UpByOne(p) ==
    /\ Between(p, "up")
    /\ End(p, 0)
    /\ UNCHANGED <<schema, applied, downs>>

\* "migrations applied"; also if the database is ahead of the binary.
UpToDate(p) ==
    /\ Between(p, "up")
    /\ Current >= Embedded[p]
    /\ End(p, 0)
    /\ UNCHANGED <<schema, applied, downs>>

-----------------------------------------------------------------------------
(* The operator's goose down                                               *)

\* Nobody takes a migration back while others run.
Down(p) ==
    /\ \A q \in Migrator : ~Under(q)
    /\ downs < MaxDowns /\ Current > 0
    /\ downs' = downs + 1
    /\ run' = [run EXCEPT ![p] = [dir |-> "down", version |-> Current, next |-> 1]]
    /\ exit' = [exit EXCEPT ![p] = -1]
    /\ UNCHANGED <<schema, applied>>

\* DROP ... IF EXISTS without CASCADE.
Referenced(p) == \E object \in schema \ Done(p) : Object(p) \in References(object)

Drop(p) ==
    /\ Open(p, "down") /\ ~AtEnd(p)
    /\ ~Referenced(p)
    /\ run' = [run EXCEPT ![p].next = @ + 1]
    /\ UNCHANGED <<schema, applied, exit, downs>>

CommitDown(p) ==
    /\ Open(p, "down") /\ AtEnd(p)
    /\ schema' = schema \ Done(p)
    /\ applied' = [applied EXCEPT ![run[p].version] = 0]
    /\ End(p, 0)
    /\ UNCHANGED downs

\* A statement fails or the signal cancels it: rolled back, exit status 1; or the
\* process dies.
Fail(p) ==
    /\ Under(p)
    /\ End(p, 1) \/ End(p, -1)
    /\ UNCHANGED <<schema, applied, downs>>

Go(p) == NextMigration(p) \/ Create(p) \/ AlreadyExists(p) \/ CommitUp(p) \/ UpToDate(p)

Next == \E p \in Migrator : Migrate(p) \/ Go(p) \/ Down(p) \/ Drop(p) \/ CommitDown(p) \/ Fail(p)

Spec == Init /\ [][Next]_vars

\* The database answers a run that waits for nobody, and grants a lock to those that
\* wait for it in order: a run that is let through again and again is let through.
Fairness == \A p \in Migrator : WF_vars(Go(p)) /\ SF_vars(Create(p) \/ AlreadyExists(p))
FairSpec == Spec /\ Fairness

-----------------------------------------------------------------------------
(* Properties                                                              *)

TypeOK ==
    /\ schema \subseteq AllObjects
    /\ applied \in [Versions -> {0, 1}]
    /\ run \in [Migrator -> RunState \cup {Nil}]
    /\ exit \in [Migrator -> {-1, 0, 1}]
    /\ downs \in 0..MaxDowns

\* However many runs race or die, what the version table says is what the schema is, and
\* no migration is applied before the ones under it (Migrate, goose's transactions).
VersionsTellSchema ==
    /\ schema = UNION {Objects(v) : v \in {w \in Versions : applied[w] > 0}}
    /\ \A v \in Versions : applied[v] > 0 => \A w \in 1..v : applied[w] = 1

\* "It is safe to run repeatedly": a run that reports success leaves everything its binary
\* embeds applied, also if another run did it, or had done it before (migrate.go).
SuccessIsComplete ==
    [][\A p \in Migrator :
         Between(p, "up") /\ exit'[p] = 0 => \A v \in 1..Embedded[p] : applied'[v] = 1]_vars

\* A Down section never meets a table that others still reference: migrations can be
\* taken back in turn ("so it is reversible", migrations_test.go).
DownsAreInOrder == \A p \in Migrator : Open(p, "down") /\ ~AtEnd(p) => ~Referenced(p)

\* Seen from outside, all the runs together only move the database up or down by one whole
\* version, and report what is so (Migrate, goose's transactions).
Database == INSTANCE SchemaVersion WITH
    Makes <- [v \in Versions |-> Objects(v)],
    version <- Current,
    tables <- schema
ImplementsSchemaVersion == Database!Spec

\* A run ends, also one that waits for, or loses to, another.
RunsEnd ==
    \A p \in Migrator : Under(p) /\ run[p].dir = "up" ~> ~Under(p) \/ run[p].dir = "down"
=============================================================================
