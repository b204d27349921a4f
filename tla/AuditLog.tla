------------------------------ MODULE AuditLog ------------------------------
(***************************************************************************)
(* The log of the role changes of one organization and the order in which  *)
(* it is listed: AddMembership, UpdateMembership and ListAuditLogs in      *)
(* internal/auth/service.go, with the queries they run.                    *)
(*                                                                         *)
(* A row of audit_logs is stamped with now(), which PostgreSQL takes when  *)
(* the transaction begins, and the change it tells of takes effect when    *)
(* the transaction commits: rows become visible out of order.              *)
(* The clock of the database does not run backwards.                       *)
(***************************************************************************)
EXTENDS Integers, FiniteSets

CONSTANTS
    Member,        \* users that are, or become, members
    Role, NoRole,  \* memberships.role; NoRole: there is no row
    Request,
    Id,            \* audit_logs.id: random, listed in the order of its bytes
    Limit,         \* values of ?limit= that strconv.Atoi accepts
    Half,          \* int32(v) is in -Half..Half - 1
    MaxList, DefaultList,   \* 200 and 100
    MaxTime,       \* bound of the clock
    Nil

ASSUME AuditAssumption ==
    /\ NoRole \notin Role
    /\ Id \subseteq Int /\ IsFiniteSet(Id)
    /\ Limit \subseteq Int
    /\ Half \in Nat /\ MaxList \in 1..(Half - 1) /\ DefaultList \in 1..MaxList
    /\ MaxTime \in Nat
    /\ Nil \notin Id

Action == {"membership.create", "membership.update_role"}

\* after: the rows that were committed when the transaction of this row began (history).
Row == [member : Member, role : Role, at : Nat, after : SUBSET Id]
Tx == [action : Action, member : Member, role : Role, at : Nat, after : SUBSET Id,
       id : Id \cup {Nil}]

ASSUME NilAssumption == Nil \notin Row \cup Tx

VARIABLES
    role,    \* memberships.role
    log,     \* log[id]: the committed row of audit_logs, Nil if there is none
    tx,      \* tx[r]: the transaction of request r, Nil if it has none
    now,     \* the clock of the database
    reply    \* what the last step, a list, answers: its LIMIT and its rows, or Nil

vars == <<role, log, tx, now, reply>>

Init ==
    /\ role = [m \in Member |-> NoRole]
    /\ log = [i \in Id |-> Nil]
    /\ tx = [r \in Request |-> Nil]
    /\ now = 0
    /\ reply = Nil

Rows == {i \in Id : log[i] # Nil}
InTx(r) == tx[r] # Nil
Written(r) == InTx(r) /\ tx[r].id # Nil
NewIds == {i \in Id : log[i] = Nil /\ \A r \in Request : Written(r) => tx[r].id # i}

\* The row of a member is locked by a transaction that has inserted or updated it.
MemberLocked(m) == \E r \in Request : Written(r) /\ tx[r].member = m

BeginChange(r, action, m, p) ==
    /\ ~InTx(r)
    /\ tx' = [tx EXCEPT ![r] = [action |-> action, member |-> m, role |-> p,
                                at |-> now, after |-> Rows, id |-> Nil]]
    /\ UNCHANGED <<role, log, now>> /\ reply' = Nil

\* Mutant: the row is written on the pool, outside the transaction.
ChangeLogsAtOnce(r) ==
    /\ InTx(r) /\ ~Written(r)
    /\ ~MemberLocked(tx[r].member)
    /\ tx[r].action = "membership.create" <=> role[tx[r].member] = NoRole
    /\ \E i \in NewIds :
         /\ tx' = [tx EXCEPT ![r].id = i]
         /\ log' = [log EXCEPT ![i] = [member |-> tx[r].member, role |-> tx[r].role,
                                       at |-> tx[r].at, after |-> tx[r].after]]
    /\ UNCHANGED <<role, now>> /\ reply' = Nil

\* CreateMembership finds no row of the member, or UpdateMembershipRole finds one;
\* then the audit row is inserted.
Change(r) ==
    /\ InTx(r) /\ ~Written(r)
    /\ ~MemberLocked(tx[r].member)
    /\ tx[r].action = "membership.create" <=> role[tx[r].member] = NoRole
    /\ \E i \in NewIds : tx' = [tx EXCEPT ![r].id = i]
    /\ UNCHANGED <<role, log, now>> /\ reply' = Nil

\* ErrMembershipExists, or ErrUnauthorized for a user who is not a member.
Refused(r) ==
    /\ InTx(r) /\ ~Written(r)
    /\ ~MemberLocked(tx[r].member)
    /\ tx[r].action = "membership.create" <=> role[tx[r].member] # NoRole
    /\ tx' = [tx EXCEPT ![r] = Nil]
    /\ UNCHANGED <<role, log, now>> /\ reply' = Nil

Commit(r) ==
    /\ Written(r)
    /\ role' = [role EXCEPT ![tx[r].member] = tx[r].role]
    /\ log' = [log EXCEPT ![tx[r].id] = [member |-> tx[r].member, role |-> tx[r].role,
                                         at |-> tx[r].at, after |-> tx[r].after]]
    /\ tx' = [tx EXCEPT ![r] = Nil]
    /\ UNCHANGED <<now>> /\ reply' = Nil

Abort(r) ==
    /\ InTx(r)
    /\ tx' = [tx EXCEPT ![r] = Nil]
    /\ UNCHANGED <<role, log, now>> /\ reply' = Nil

Crash ==
    /\ \E r \in Request : InTx(r)
    /\ tx' = [r \in Request |-> Nil]
    /\ UNCHANGED <<role, log, now>> /\ reply' = Nil

Tick ==
    /\ now < MaxTime
    /\ now' = now + 1
    /\ UNCHANGED <<role, log, tx>> /\ reply' = Nil

-----------------------------------------------------------------------------
(* The list                                                                *)

\* Mutant: the list is in the order in which rows were written.
AboveAscending(i, j) ==
    log[i].at < log[j].at \/ (log[i].at = log[j].at /\ i < j)

\* ORDER BY occurred_at DESC, id DESC.
Above(i, j) ==
    log[i].at > log[j].at \/ (log[i].at = log[j].at /\ i > j)

Int32(v) == ((v + Half) % (2 * Half)) - Half

\* Mutant: a negative number is looked for before the conversion, the upper bound forgotten.
CheckedFirst(v) == Int32(IF v <= 0 THEN DefaultList ELSE v)

\* handleListAuditLogs converts the number, ListAuditLogs checks its range.
ListLimit(v) ==
    IF Int32(v) <= 0 \/ Int32(v) > MaxList THEN DefaultList ELSE Int32(v)

ListAuditLogs(v) ==
    /\ reply' = [limit |-> ListLimit(v),
                 rows |-> {i \in Rows : Cardinality({j \in Rows : Above(j, i)}) < ListLimit(v)}]
    /\ UNCHANGED <<role, log, tx, now>>

Next ==
    \/ \E r \in Request : \/ \E action \in Action, m \in Member, p \in Role :
                                BeginChange(r, action, m, p)
                          \/ Change(r) \/ Refused(r) \/ Commit(r) \/ Abort(r)
    \/ Crash \/ Tick
    \/ \E v \in Limit : ListAuditLogs(v)

Spec == Init /\ [][Next]_vars

-----------------------------------------------------------------------------
(* Properties                                                              *)

TypeOK ==
    /\ role \in [Member -> Role \cup {NoRole}]
    /\ log \in [Id -> Row \cup {Nil}]
    /\ tx \in [Request -> Tx \cup {Nil}]
    /\ now \in Nat
    /\ reply \in [limit : Int, rows : SUBSET Rows] \cup {Nil}

\* A list shows changes in the order of real time where there is one: if a change it
\* shows was over when another began, the other is shown above it, unless the clock did
\* not move between their begins (occurred_at DEFAULT now(), ORDER BY, LIMIT).
ListRespectsRealTime ==
    reply # Nil =>
        \A i \in reply.rows, j \in Rows :
            i \in log[j].after =>
                \/ log[i].at = log[j].at
                \/ j \in reply.rows /\ Above(j, i)

\* The log explains every role: some row gave it, and no row of that member began
\* after that one was committed (the row lock, and the audit row in the transaction).
RolesExplained ==
    \A m \in Member :
        LET OfMember == {i \in Rows : log[i].member = m}
        IN  IF role[m] = NoRole
            THEN OfMember = {}
            ELSE \E i \in OfMember :
                    log[i].role = role[m] /\ \A j \in OfMember : i \notin log[j].after

\* PostgreSQL refuses a negative LIMIT: whatever number a client sends, the list is asked
\* for at least one row and at most MaxList (int32(value) in http.go, then the range).
LimitUsable == reply # Nil => reply.limit \in 1..MaxList
=============================================================================
