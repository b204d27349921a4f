------------------------------ MODULE Tenancy ------------------------------
(***************************************************************************)
(* Organizations: the handlers of internal/auth/service.go that change     *)
(* memberships and API keys, run by concurrent requests of users and of    *)
(* API keys.                                                               *)
(*                                                                         *)
(* A request first turns its access token or API key into a principal: the *)
(* permissions read from the database then decide, however long the rest   *)
(* of the request takes.  Its changes and their audit row are made by one  *)
(* READ COMMITTED transaction; stage "written" is a transaction that has   *)
(* changed a row, holds its lock and has not committed.                    *)
(***************************************************************************)
EXTENDS Integers, FiniteSets

CONSTANTS
    UserId, OrgId, KeyId,   \* rows
    Role, ScopeSet,         \* the roles and the scope sets that requests name
    Founder,                \* the owner Register made for each organization
    Request,                \* requests that may run at a time
    MaxAudit,               \* bound on the rows of one role update
    Nil

ASSUME TenancyAssumption ==
    /\ Nil \notin UserId \cup OrgId \cup KeyId \cup Role
    /\ UserId \cap KeyId = {}
    /\ Founder \in [OrgId -> UserId]
    /\ "owner" \in Role
    /\ MaxAudit \in Nat

Permission == {"organization:read", "membership:read", "membership:write",
               "api_key:read", "api_key:write", "audit:read", "totp:write"}

\* validateRole and validateScopes let nothing else through.
ASSUME InputAssumption ==
    /\ Role \subseteq {"owner", "admin", "operator", "viewer", "billing"}
    /\ ScopeSet \subseteq (SUBSET (Permission \ {"totp:write"})) \ {{}}

VARIABLES
    role,       \* role[o][u]: memberships.role, Nil if u is no member of o
    key_org,    \* api_keys.organization_id, Nil if there is no such key
    scopes,     \* api_keys.scopes
    revoked,    \* the keys with revoked_at set
    audit,      \* audit[e]: how many audit_logs rows record event e
    delivered,  \* keys some client has received
    tx,         \* tx[r]: request r
    granted     \* history: what r's principal was allowed at some instant since r came

rows == <<role, key_org, scopes, revoked, audit, delivered>>
vars == <<rows, tx, granted>>

Event == ({"membership.create", "membership.update_role"} \X OrgId \X UserId \X Role)
           \cup ({"api_key.create", "api_key.revoke"} \X KeyId)

Stage == {"idle", "key_read", "principal", "begun", "written"}
NoTx == [op |-> "none", stage |-> "idle", actor |-> Nil, grants |-> {}, org |-> Nil,
         user |-> Nil, role |-> Nil, key |-> Nil]

Init ==
    /\ role = [o \in OrgId |-> [u \in UserId |-> IF u = Founder[o] THEN "owner" ELSE Nil]]
    /\ key_org = [k \in KeyId |-> Nil]
    /\ scopes = [k \in KeyId |-> {}]
    /\ revoked = {}
    /\ audit = [e \in Event |-> 0]
    /\ delivered = {}
    /\ tx = [r \in Request |-> NoTx]
    /\ granted = [r \in Request |-> {}]

Work(r, x) == tx' = [tx EXCEPT ![r] = x] /\ UNCHANGED rows
Rollback(r) == Work(r, NoTx)

\* The audit row goes with the commit.
End(r, event) ==
    /\ audit' = [audit EXCEPT ![event] = @ + 1]
    /\ tx' = [tx EXCEPT ![r] = NoTx]

-----------------------------------------------------------------------------
(* Authentication                                                          *)

PermissionsForRole(name) ==
    CASE name \in {"owner", "admin"} -> Permission
      [] name \in {"operator", "viewer"} ->
           {"organization:read", "membership:read", "audit:read", "totp:write"}
      [] name = "billing" ->
           {"organization:read", "api_key:read", "audit:read", "totp:write"}
      [] OTHER -> {}

\* Principal.Permissions, as pairs of an organization and a permission.
UserGrants(u) ==
    {grant \in OrgId \X Permission : grant[2] \in PermissionsForRole(role[grant[1]][u])}
KeyGrants(k) == {key_org[k]} \X scopes[k]

AuthenticateAccessToken(r, u) ==
    /\ tx[r] = NoTx
    /\ Work(r, [NoTx EXCEPT !.stage = "principal", !.actor = u, !.grants = UserGrants(u)])

\* Mutant: revoked_at is not looked at.
AuthenticateRevokedKey(r, k) ==
    /\ tx[r] = NoTx
    /\ k \in delivered /\ key_org[k] # Nil
    /\ Work(r, [NoTx EXCEPT !.stage = "key_read", !.actor = k])

AuthenticateAPIKey(r, k) ==
    /\ tx[r] = NoTx
    /\ k \in delivered /\ key_org[k] # Nil
    /\ k \notin revoked
    /\ Work(r, [NoTx EXCEPT !.stage = "key_read", !.actor = k])

\* TouchAPIKeyLastUsed waits for a transaction that is revoking the key, and then
\* lets the request in: only the earlier read looked at revoked_at.
KeyLocked(k) == \E q \in Request : tx[q].stage = "written" /\ tx[q].key = k
TouchAPIKey(r) ==
    /\ tx[r].stage = "key_read"
    /\ ~KeyLocked(tx[r].actor)
    /\ Work(r, [tx[r] EXCEPT !.stage = "principal", !.grants = KeyGrants(tx[r].actor)])

-----------------------------------------------------------------------------
(* The handlers up to their first write: requirePermission and the input.  *)

Permitted(r, o, p) == <<o, p>> \in tx[r].grants

\* A list or a get, or a request that is refused: nothing is written.
ReadOnly(r) == tx[r].stage = "principal" /\ Rollback(r)

\* Bound: an event is recorded only MaxAudit times.
AuditBudget(event) ==
    audit[event] + Cardinality({q \in Request :
        tx[q].op = event[1] /\ tx[q].org = event[2] /\ tx[q].user = event[3]}) < MaxAudit

\* AddMembership and UpdateMembership; u is found by e-mail or named by its id.
BeginMembership(r, op, o, u, new) ==
    /\ tx[r].stage = "principal"
    /\ Permitted(r, o, "membership:write")
    /\ op = "membership.update_role" => AuditBudget(<<op, o, u, new>>)
    /\ Work(r, [tx[r] EXCEPT !.op = op, !.stage = "begun", !.org = o, !.user = u, !.role = new])

\* Bound: a key is created only if an id is left for it.
KeyBudget ==
    Cardinality({q \in Request : tx[q].op = "api_key.create"})
        < Cardinality({k \in KeyId : key_org[k] = Nil})

BeginAPIKey(r, op, o, k) ==
    /\ tx[r].stage = "principal"
    /\ Permitted(r, o, "api_key:write")
    /\ Work(r, [tx[r] EXCEPT !.op = op, !.stage = "begun", !.org = o, !.key = k])

-----------------------------------------------------------------------------
(* Memberships: UNIQUE (organization_id, user_id)                          *)

\* Mutant: an insert looks at committed rows and waits for nobody.
MembershipNeverLocked(r) == FALSE

MembershipLocked(r) == \E q \in Request :
    tx[q].stage = "written" /\ tx[q].org = tx[r].org /\ tx[q].user = tx[r].user
        /\ tx[q].user # Nil

CreateMembership(r) ==
    /\ tx[r].op = "membership.create" /\ tx[r].stage = "begun"
    /\ ~MembershipLocked(r)
    /\ role[tx[r].org][tx[r].user] = Nil
    /\ Work(r, [tx[r] EXCEPT !.stage = "written"])

UpdateMembershipRole(r) ==
    /\ tx[r].op = "membership.update_role" /\ tx[r].stage = "begun"
    /\ ~MembershipLocked(r)
    /\ role[tx[r].org][tx[r].user] # Nil
    /\ Work(r, [tx[r] EXCEPT !.stage = "written"])

\* Mutant: only the duplicate is refused; a request that finds no row to update
\* tries again.
MembershipRefusedIfExists(r) ==
    /\ tx[r].op = "membership.create" /\ tx[r].stage = "begun"
    /\ ~MembershipLocked(r)
    /\ role[tx[r].org][tx[r].user] # Nil
    /\ Rollback(r)

\* ErrMembershipExists, or no row to update.
MembershipRefused(r) ==
    /\ tx[r].op \in {"membership.create", "membership.update_role"} /\ tx[r].stage = "begun"
    /\ ~MembershipLocked(r)
    /\ tx[r].op = "membership.create" <=> role[tx[r].org][tx[r].user] # Nil
    /\ Rollback(r)

CommitMembership(r) ==
    /\ tx[r].op \in {"membership.create", "membership.update_role"} /\ tx[r].stage = "written"
    /\ role' = [role EXCEPT ![tx[r].org][tx[r].user] = tx[r].role]
    /\ End(r, <<tx[r].op, tx[r].org, tx[r].user, tx[r].role>>)
    /\ UNCHANGED <<key_org, scopes, revoked, delivered>>

-----------------------------------------------------------------------------
(* API keys                                                                *)

\* The key is new and random, so its insert conflicts with nothing; ack tells
\* whether the response, the only place the raw key is ever shown, arrives.
CreateAPIKey(r, k, granting, ack) ==
    /\ tx[r].op = "api_key.create" /\ tx[r].stage = "begun"
    /\ key_org[k] = Nil
    /\ key_org' = [key_org EXCEPT ![k] = tx[r].org]
    /\ scopes' = [scopes EXCEPT ![k] = granting]
    /\ delivered' = IF ack THEN delivered \cup {k} ELSE delivered
    /\ End(r, <<"api_key.create", k>>)
    /\ UNCHANGED <<role, revoked>>

\* Mutant: the UPDATE lacks revoked_at IS NULL.
RevokeAgain(r) ==
    /\ tx[r].op = "api_key.revoke" /\ tx[r].stage = "begun"
    /\ ~KeyLocked(tx[r].key)
    /\ key_org[tx[r].key] # Nil
    /\ Work(r, [tx[r] EXCEPT !.stage = "written"])

\* The UPDATE names the key only.  Whose key it is, is looked at afterwards: a
\* key of another organization stays locked until the rollback.
RevokeAPIKey(r) ==
    /\ tx[r].op = "api_key.revoke" /\ tx[r].stage = "begun"
    /\ ~KeyLocked(tx[r].key)
    /\ key_org[tx[r].key] # Nil /\ tx[r].key \notin revoked
    /\ Work(r, [tx[r] EXCEPT !.stage = "written"])

NoKeyToRevoke(r) ==
    /\ tx[r].op = "api_key.revoke" /\ tx[r].stage = "begun"
    /\ ~KeyLocked(tx[r].key)
    /\ key_org[tx[r].key] = Nil \/ tx[r].key \in revoked
    /\ Rollback(r)

KeyOfAnotherOrganization(r) ==
    /\ tx[r].op = "api_key.revoke" /\ tx[r].stage = "written"
    /\ key_org[tx[r].key] # tx[r].org
    /\ Rollback(r)

\* Mutant: the organization of the key is not compared.
CommitRevokeOfAnyKey(r) ==
    /\ tx[r].op = "api_key.revoke" /\ tx[r].stage = "written"
    /\ revoked' = revoked \cup {tx[r].key}
    /\ End(r, <<"api_key.revoke", tx[r].key>>)
    /\ UNCHANGED <<role, key_org, scopes, delivered>>

CommitRevoke(r) ==
    /\ tx[r].op = "api_key.revoke" /\ tx[r].stage = "written"
    /\ key_org[tx[r].key] = tx[r].org
    /\ revoked' = revoked \cup {tx[r].key}
    /\ End(r, <<"api_key.revoke", tx[r].key>>)
    /\ UNCHANGED <<role, key_org, scopes, delivered>>

-----------------------------------------------------------------------------
Abort(r) == tx[r] # NoTx /\ Rollback(r)

Crash ==
    /\ \E r \in Request : tx[r] # NoTx
    /\ tx' = [r \in Request |-> NoTx]
    /\ UNCHANGED rows

Arrive(r) ==
    \/ \E u \in UserId : AuthenticateAccessToken(r, u)
    \/ \E k \in KeyId : AuthenticateAPIKey(r, k)

Decide(r) ==
    \/ ReadOnly(r)
    \/ \E o \in OrgId, u \in UserId, new \in Role :
         \/ BeginMembership(r, "membership.create", o, u, new)
         \/ BeginMembership(r, "membership.update_role", o, u, new)
    \/ \E o \in OrgId :
         \/ KeyBudget /\ BeginAPIKey(r, "api_key.create", o, Nil)
         \/ \E k \in KeyId : BeginAPIKey(r, "api_key.revoke", o, k)

LockingStatement(r) ==
    \/ TouchAPIKey(r)
    \/ CreateMembership(r) \/ UpdateMembershipRole(r) \/ MembershipRefused(r)
    \/ RevokeAPIKey(r) \/ NoKeyToRevoke(r)

Statement(r) ==
    \/ CommitMembership(r)
    \/ \E k \in KeyId, granting \in ScopeSet, ack \in BOOLEAN :
         CreateAPIKey(r, k, granting, ack)
    \/ KeyOfAnotherOrganization(r)
    \/ CommitRevoke(r)

Step ==
    \/ \E r \in Request : Arrive(r) \/ Decide(r) \/ LockingStatement(r) \/ Statement(r) \/ Abort(r)
    \/ Crash

\* What a principal is allowed by the rows of this moment.
Allowed(actor) ==
    IF actor \in UserId THEN UserGrants(actor)
    ELSE IF actor \in KeyId \ revoked THEN KeyGrants(actor)
    ELSE {}

Witness == granted' = [r \in Request |->
    IF tx'[r] = NoTx THEN {}
    ELSE IF tx[r] = NoTx THEN Allowed(tx'[r].actor)
    ELSE granted[r] \cup Allowed(tx[r].actor)']

Next == Step /\ Witness

Spec == Init /\ [][Next]_vars

\* A request in flight keeps running; the waiters of a row are served in turn.
Fairness == \A r \in Request :
    WF_vars((Decide(r) \/ Statement(r)) /\ Witness) /\ SF_vars(LockingStatement(r) /\ Witness)
FairSpec == Spec /\ Fairness

-----------------------------------------------------------------------------
(* Properties                                                              *)

TypeOK ==
    /\ role \in [OrgId -> [UserId -> Role \cup {Nil}]]
    /\ key_org \in [KeyId -> OrgId \cup {Nil}]
    /\ scopes \in [KeyId -> ScopeSet \cup {{}}]
    /\ revoked \subseteq KeyId
    /\ audit \in [Event -> Nat]
    /\ delivered \subseteq KeyId
    /\ \A r \in Request :
         /\ tx[r].stage \in Stage
         /\ tx[r].actor \in UserId \cup KeyId \cup {Nil}
         /\ tx[r].grants \subseteq OrgId \X Permission
         /\ tx[r].org \in OrgId \cup {Nil} /\ tx[r].user \in UserId \cup {Nil}
         /\ tx[r].role \in Role \cup {Nil} /\ tx[r].key \in KeyId \cup {Nil}
    /\ granted \in [Request -> SUBSET (OrgId \X Permission)]

\* A change of an organization's members or keys is the commit of a request whose
\* principal held the permission in that very organization, through a role or a
\* live key, at some instant while the request ran: the permissions read at its
\* start may be out of date, but they are never those of another tenant nor of a
\* key that was already revoked (requirePermission, AuthenticateAPIKey, RevokeAPIKey).
KeysChanged(o) == \E k \in KeyId :
    key_org'[k] = o /\ (key_org[k] = Nil \/ (k \in revoked' /\ k \notin revoked))
AuthorizedWhileRunning ==
    [][\A o \in OrgId :
         /\ role'[o] # role[o] => \E r \in Request :
              tx[r] # NoTx /\ tx'[r] = NoTx /\ <<o, "membership:write">> \in granted[r]
         /\ KeysChanged(o) => \E r \in Request :
              tx[r] # NoTx /\ tx'[r] = NoTx /\ <<o, "api_key:write">> \in granted[r]]_vars

\* The audit log tells the whole story of a key once: one row for its creation, one
\* for its revocation, however many requests revoke it at once and whichever
\* organization they come through (CreateAPIKey, RevokeAPIKey).
KeysAuditedOnce ==
    \A k \in KeyId :
      /\ audit[<<"api_key.create", k>>] = IF key_org[k] = Nil THEN 0 ELSE 1
      /\ audit[<<"api_key.revoke", k>>] = IF k \in revoked THEN 1 ELSE 0

\* A member was added once, by Register or by one audited AddMembership, even when
\* two requests add the same user; and the role a member has now stands in the log
\* (AddMembership, UpdateMembership).
Added(o, u) == {new \in Role : audit[<<"membership.create", o, u, new>>] = 1}
MembersAuditedOnce ==
    \A o \in OrgId, u \in UserId :
      /\ \A new \in Role : audit[<<"membership.create", o, u, new>>] <= 1
      /\ Cardinality(Added(o, u)) = IF role[o][u] = Nil \/ u = Founder[o] THEN 0 ELSE 1
      /\ role[o][u] # Nil =>
           \/ u = Founder[o] /\ role[o][u] = "owner"
           \/ role[o][u] \in Added(o, u)
           \/ audit[<<"membership.update_role", o, u, role[o][u]>>] > 0

\* The handlers, interleaved, aborted and crashed, are no different from changes made at
\* once (the transactions of service.go, UNIQUE, the WHERE clauses of the two UPDATEs).
Orgs == INSTANCE Organizations
ImplementsOrganizations == Orgs!Spec

\* Every request ends, even one that waits for a row another tenant's request has
\* locked by mistake.
EveryRequestEnds == \A r \in Request : tx[r] # NoTx ~> tx[r] = NoTx
=============================================================================
