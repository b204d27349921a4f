------------------------------ MODULE Sessions ------------------------------
(***************************************************************************)
(* Accounts and sessions of the control plane: the handlers Register,      *)
(* Login and Refresh of internal/auth/service.go, run by concurrent HTTP   *)
(* requests over one PostgreSQL database.                                  *)
(*                                                                         *)
(* Every handler runs its statements inside one READ COMMITTED             *)
(* transaction.  tx[r] is the transaction of request r: what it has read   *)
(* and what it has written but not committed.  Nobody sees those writes,   *)
(* but they hold locks: an uncommitted row makes another insert of the     *)
(* same unique key wait, and an uncommitted update makes another update of *)
(* that row wait and then evaluate its WHERE again.  A statement that can  *)
(* wait, or that reads shared state, is an action of its own; statements   *)
(* that touch only rows of the same transaction are folded into the action *)
(* before them.                                                            *)
(*                                                                         *)
(* The table auth_refresh_tokens is kept by column.                        *)
(***************************************************************************)
EXTENDS Integers, FiniteSets

CONSTANTS
    RawEmail, RawSlug,              \* e-mails and slugs as clients write them
    Email, Slug,                    \* the same after normalisation
    CanonicalEmail, CanonicalSlug,  \* the normalisation
    UserId, OrgId, Token,           \* rows (a token stands for its hash too)
    Request,                        \* HTTP requests that may run at a time
    RefreshTTL,                     \* AUTH_REFRESH_TTL
    MaxTime,                        \* bound on the clock
    Nil                             \* SQL NULL / no row

ASSUME NilAssumption ==
    /\ Nil \notin UserId \cup OrgId \cup Token
    /\ Nil \notin Email \cup Slug

ASSUME NormalisationAssumption ==
    /\ CanonicalEmail \in [RawEmail -> Email]
    /\ CanonicalSlug \in [RawSlug -> Slug]

ASSUME TimeAssumption ==
    /\ RefreshTTL \in Nat \ {0}
    /\ MaxTime \in Nat

VARIABLES
    now,          \* the wall clock
    users,        \* users[u]: users.email, Nil if there is no such row
    orgs,         \* orgs[o]: organizations.slug, Nil if there is no such row
    memberships,  \* owner rows of memberships: <<organization_id, user_id>>
    user_id,      \* auth_refresh_tokens.user_id, Nil if there is no such row
    expires_at,   \* auth_refresh_tokens.expires_at
    used,         \* the tokens with used_at set
    revoked,      \* the tokens with revoked_at set
    replaced_by,  \* auth_refresh_tokens.replaced_by_token_id
    audit,        \* audit[e]: how many audit_logs rows record event e
    delivered,    \* refresh tokens some client has received
    tx            \* tx[r]: the transaction of request r

accountVars == <<users, orgs, memberships>>
tokenVars == <<user_id, expires_at, used, revoked, replaced_by>>
vars == <<now, accountVars, tokenVars, audit, delivered, tx>>

-----------------------------------------------------------------------------
(* The transactions and the audit rows.                                    *)

\* An audit row: its action and its target (the actor is the target user,
\* or the owner of the target token).
Event == ({"auth.register", "auth.login"} \X UserId) \cup ({"auth.refresh"} \X Token)

\* Where a handler is: "begun" has validated its input, "user" has inserted
\* the user, "ready" is about to issue a session, "issued" has inserted the new
\* token, "rotated" has updated the old token and holds its row lock.
Stage == {"idle", "begun", "user", "ready", "issued", "rotated"}

Transaction == [op      : {"none", "register", "login", "refresh"},
                stage   : Stage,
                user    : UserId \cup {Nil},
                email   : Email \cup {Nil},
                org     : OrgId \cup {Nil},
                slug    : Slug \cup {Nil},
                old     : Token \cup {Nil},
                new     : Token \cup {Nil},
                expires : Nat]

NoTx == [op |-> "none", stage |-> "idle", user |-> Nil, email |-> Nil,
         org |-> Nil, slug |-> Nil, old |-> Nil, new |-> Nil, expires |-> 0]

Init ==
    /\ now = 0
    /\ users = [u \in UserId |-> Nil]
    /\ orgs = [o \in OrgId |-> Nil]
    /\ memberships = {}
    /\ user_id = [t \in Token |-> Nil]
    /\ expires_at = [t \in Token |-> 0]
    /\ used = {}
    /\ revoked = {}
    /\ replaced_by = [t \in Token |-> Nil]
    /\ audit = [e \in Event |-> 0]
    /\ delivered = {}
    /\ tx = [r \in Request |-> NoTx]

Free(t) == user_id[t] = Nil /\ \A r \in Request : tx[r].new # t

\* Bound: a request starts only if a token value is left for it to issue.
TokenBudget ==
    Cardinality({r \in Request : tx[r] # NoTx /\ tx[r].new = Nil})
        < Cardinality({t \in Token : Free(t)})

\* defer rollbackTx: the request ends and nothing it wrote remains.
Rollback(r) ==
    /\ tx' = [tx EXCEPT ![r] = NoTx]
    /\ UNCHANGED <<now, accountVars, tokenVars, audit, delivered>>

\* One more statement of r's transaction; no committed row changes.
Work(r, t) ==
    /\ tx' = [tx EXCEPT ![r] = t]
    /\ UNCHANGED <<now, accountVars, tokenVars, audit, delivered>>

-----------------------------------------------------------------------------
(* Register                                                                *)

BeginRegister(r, rawEmail, rawSlug) ==
    /\ tx[r] = NoTx
    /\ TokenBudget
    /\ Work(r, [NoTx EXCEPT !.op = "register", !.stage = "begun",
                            !.email = CanonicalEmail[rawEmail],
                            !.slug = CanonicalSlug[rawSlug]])

\* Mutant: uniqueness is a look at the committed rows, not an index.
NothingClaimed(r) == FALSE

\* The unique indexes users.email and organizations.slug make an insert wait
\* while another transaction has inserted the key and has not ended.
EmailClaimed(r) ==
    \E q \in Request \ {r} : tx[q].user # Nil /\ tx[q].email = tx[r].email
SlugClaimed(r) ==
    \E q \in Request \ {r} : tx[q].org # Nil /\ tx[q].slug = tx[r].slug

InsertUser(r) ==
    /\ tx[r].op = "register" /\ tx[r].stage = "begun"
    /\ ~EmailClaimed(r)
    /\ \A u \in UserId : users[u] # tx[r].email
    /\ \E u \in UserId :
         /\ users[u] = Nil
         /\ \A q \in Request : tx[q].user # u
         /\ Work(r, [tx[r] EXCEPT !.stage = "user", !.user = u])

EmailTaken(r) ==
    /\ tx[r].op = "register" /\ tx[r].stage = "begun"
    /\ \E u \in UserId : users[u] = tx[r].email
    /\ Rollback(r)

\* The organization, then the owner membership.
InsertOrganization(r) ==
    /\ tx[r].op = "register" /\ tx[r].stage = "user"
    /\ ~SlugClaimed(r)
    /\ \A o \in OrgId : orgs[o] # tx[r].slug
    /\ \E o \in OrgId :
         /\ orgs[o] = Nil
         /\ \A q \in Request : tx[q].org # o
         /\ Work(r, [tx[r] EXCEPT !.stage = "ready", !.org = o])

\* Mutant: the user was inserted outside the transaction and stays.
SlugTakenKeepsUser(r) ==
    /\ tx[r].op = "register" /\ tx[r].stage = "user"
    /\ \E o \in OrgId : orgs[o] = tx[r].slug
    /\ users' = [users EXCEPT ![tx[r].user] = tx[r].email]
    /\ tx' = [tx EXCEPT ![r] = NoTx]
    /\ UNCHANGED <<now, orgs, memberships, tokenVars, audit, delivered>>

SlugTaken(r) ==
    /\ tx[r].op = "register" /\ tx[r].stage = "user"
    /\ \E o \in OrgId : orgs[o] = tx[r].slug
    /\ Rollback(r)

-----------------------------------------------------------------------------
(* Login and Refresh, up to the new session                                *)

\* The credentials are good; a failed check changes nothing and is no step.
Login(r, u) ==
    /\ tx[r] = NoTx
    /\ TokenBudget
    /\ users[u] # Nil
    /\ Work(r, [NoTx EXCEPT !.op = "login", !.stage = "ready", !.user = u])

\* The first half of Refresh reads the token's row without locking it.
RefreshCheck(r, t) ==
    /\ tx[r] = NoTx
    /\ TokenBudget
    /\ t \in delivered
    /\ user_id[t] # Nil
    /\ t \notin used /\ t \notin revoked
    /\ now <= expires_at[t]
    /\ Work(r, [NoTx EXCEPT !.op = "refresh", !.stage = "ready",
                            !.user = user_id[t], !.old = t])

\* Mutant: the token is handed out before the transaction commits.
IssueSessionEarly(r) ==
    /\ tx[r].stage = "ready"
    /\ \E t \in Token :
         /\ Free(t)
         /\ tx' = [tx EXCEPT ![r] = [@ EXCEPT !.stage = "issued", !.new = t,
                                              !.expires = now + RefreshTTL]]
         /\ delivered' = delivered \cup {t}
    /\ UNCHANGED <<now, accountVars, tokenVars, audit>>

\* issueSessionWithModel: a fresh random token, its row inserted.
IssueSession(r) ==
    /\ tx[r].stage = "ready"
    /\ \E t \in Token :
         /\ Free(t)
         /\ Work(r, [tx[r] EXCEPT !.stage = "issued", !.new = t,
                                  !.expires = now + RefreshTTL])

-----------------------------------------------------------------------------
(* Refresh, second half: UPDATE ... WHERE used_at IS NULL AND revoked_at   *)
(* IS NULL.  A statement that waited sees the row as the other transaction *)
(* left it.                                                                *)

\* Mutant: the UPDATE does not wait for another UPDATE of the row.
RowNeverLocked(t) == FALSE

RowLocked(t) == \E r \in Request : tx[r].stage = "rotated" /\ tx[r].old = t

\* Mutants: the UPDATE without one of its conditions, and the UPDATE run outside
\* the transaction.
RotateIgnoringUse(r) ==
    /\ tx[r].op = "refresh" /\ tx[r].stage = "issued"
    /\ ~RowLocked(tx[r].old)
    /\ tx[r].old \notin revoked
    /\ Work(r, [tx[r] EXCEPT !.stage = "rotated"])

RotateIgnoringRevocation(r) ==
    /\ tx[r].op = "refresh" /\ tx[r].stage = "issued"
    /\ ~RowLocked(tx[r].old)
    /\ tx[r].old \notin used
    /\ Work(r, [tx[r] EXCEPT !.stage = "rotated"])

RotateOutsideTx(r) ==
    /\ tx[r].op = "refresh" /\ tx[r].stage = "issued"
    /\ tx[r].old \notin used /\ tx[r].old \notin revoked
    /\ used' = used \cup {tx[r].old}
    /\ replaced_by' = [replaced_by EXCEPT ![tx[r].old] = tx[r].new]
    /\ tx' = [tx EXCEPT ![r].stage = "rotated"]
    /\ UNCHANGED <<now, accountVars, user_id, expires_at, revoked, audit, delivered>>

RotateAuthRefreshToken(r) ==
    /\ tx[r].op = "refresh" /\ tx[r].stage = "issued"
    /\ ~RowLocked(tx[r].old)
    /\ tx[r].old \notin used /\ tx[r].old \notin revoked
    /\ Work(r, [tx[r] EXCEPT !.stage = "rotated"])

\* Mutant: the UPDATE is tried again until it finds a row.
RotateRetry(r) ==
    /\ tx[r].op = "refresh" /\ tx[r].stage = "issued"
    /\ ~RowLocked(tx[r].old)
    /\ tx[r].old \in used \cup revoked
    /\ Work(r, tx[r])

\* ErrNoRows becomes ErrRefreshTokenInvalid; the inserted token goes too.
RotateFindsNoRow(r) ==
    /\ tx[r].op = "refresh" /\ tx[r].stage = "issued"
    /\ ~RowLocked(tx[r].old)
    /\ tx[r].old \in used \cup revoked
    /\ Rollback(r)

-----------------------------------------------------------------------------
(* Commit.  ack tells whether the response reaches the client: it does not *)
(* when the connection breaks after COMMIT took effect.                    *)

StoreToken(r) ==
    /\ user_id' = [user_id EXCEPT ![tx[r].new] = tx[r].user]
    /\ expires_at' = [expires_at EXCEPT ![tx[r].new] = tx[r].expires]

End(r, ack, event) ==
    /\ audit' = [audit EXCEPT ![event] = @ + 1]
    /\ delivered' = IF ack THEN delivered \cup {tx[r].new} ELSE delivered
    /\ tx' = [tx EXCEPT ![r] = NoTx]
    /\ UNCHANGED <<now, revoked>>

CommitRegister(r, ack) ==
    /\ tx[r].op = "register" /\ tx[r].stage = "issued"
    /\ users' = [users EXCEPT ![tx[r].user] = tx[r].email]
    /\ orgs' = [orgs EXCEPT ![tx[r].org] = tx[r].slug]
    /\ memberships' = memberships \cup {<<tx[r].org, tx[r].user>>}
    /\ StoreToken(r)
    /\ End(r, ack, <<"auth.register", tx[r].user>>)
    /\ UNCHANGED <<used, replaced_by>>

CommitLogin(r, ack) ==
    /\ tx[r].op = "login" /\ tx[r].stage = "issued"
    /\ StoreToken(r)
    /\ End(r, ack, <<"auth.login", tx[r].user>>)
    /\ UNCHANGED <<accountVars, used, replaced_by>>

CommitRefresh(r, ack) ==
    /\ tx[r].op = "refresh" /\ tx[r].stage = "rotated"
    /\ used' = used \cup {tx[r].old}
    /\ replaced_by' = [replaced_by EXCEPT ![tx[r].old] = tx[r].new]
    /\ StoreToken(r)
    /\ End(r, ack, <<"auth.refresh", tx[r].old>>)
    /\ UNCHANGED accountVars

-----------------------------------------------------------------------------
(* The environment                                                         *)

\* Any statement may fail, and the client may go away (the request's context
\* is cancelled): every error path returns through the deferred rollback.
Abort(r) == tx[r] # NoTx /\ Rollback(r)

\* The process dies: PostgreSQL rolls back what it had open.
Crash ==
    /\ \E r \in Request : tx[r] # NoTx
    /\ tx' = [r \in Request |-> NoTx]
    /\ UNCHANGED <<now, accountVars, tokenVars, audit, delivered>>

\* RevokeAuthRefreshToken of the query layer.  No handler calls it yet; it is
\* a statement of its own, so an operator's tool may run it at any time.
RevokeAuthRefreshToken(t) ==
    /\ user_id[t] # Nil
    /\ ~RowLocked(t)
    /\ t \notin revoked
    /\ revoked' = revoked \cup {t}
    /\ UNCHANGED <<now, accountVars, user_id, expires_at, used, replaced_by,
                   audit, delivered, tx>>

Tick ==
    /\ now < MaxTime
    /\ now' = now + 1
    /\ UNCHANGED <<accountVars, tokenVars, audit, delivered, tx>>

\* Statements that run at once, and statements that may wait for a lock.
Statement(r) ==
    \/ IssueSession(r)
    \/ \E ack \in BOOLEAN : CommitRegister(r, ack) \/ CommitLogin(r, ack) \/ CommitRefresh(r, ack)

LockingStatement(r) ==
    \/ InsertUser(r)
    \/ EmailTaken(r)
    \/ InsertOrganization(r)
    \/ SlugTaken(r)
    \/ RotateAuthRefreshToken(r)
    \/ RotateFindsNoRow(r)

Arrive(r) ==
    \/ \E e \in RawEmail, s \in RawSlug : BeginRegister(r, e, s)
    \/ \E u \in UserId : Login(r, u)
    \/ \E t \in Token : RefreshCheck(r, t)

Next ==
    \/ \E r \in Request : Arrive(r) \/ Statement(r) \/ LockingStatement(r) \/ Abort(r)
    \/ Crash
    \/ \E t \in Token : RevokeAuthRefreshToken(t)
    \/ Tick

Spec == Init /\ [][Next]_vars

\* A request in flight keeps running.  PostgreSQL serves the waiters of a lock
\* in the order they came, so a waiter that is let through again and again gets it.
Fairness == \A r \in Request : WF_vars(Statement(r)) /\ SF_vars(LockingStatement(r))

FairSpec == Spec /\ Fairness

-----------------------------------------------------------------------------
(* Properties                                                              *)

TypeOK ==
    /\ now \in Nat
    /\ users \in [UserId -> Email \cup {Nil}]
    /\ orgs \in [OrgId -> Slug \cup {Nil}]
    /\ memberships \subseteq OrgId \X UserId
    /\ user_id \in [Token -> UserId \cup {Nil}]
    /\ expires_at \in [Token -> Nat]
    /\ used \subseteq Token
    /\ revoked \subseteq Token
    /\ replaced_by \in [Token -> Token \cup {Nil}]
    /\ audit \in [Event -> Nat]
    /\ delivered \subseteq Token
    /\ tx \in [Request -> Transaction]

\* However registrations interleave and however the address is spelled, a mailbox
\* has one account and a slug one organization (Register, the unique indexes).
UniqueAccounts ==
    /\ \A u, v \in UserId : users[u] # Nil /\ users[u] = users[v] => u = v
    /\ \A o, p \in OrgId : orgs[o] # Nil /\ orgs[o] = orgs[p] => o = p

\* A registration is all or nothing: every user was registered once, owns exactly
\* one organization and got a session, and no organization is without an owner,
\* whichever statement failed or crashed (Register and its deferred rollback).
RegistrationAtomic ==
    /\ \A u \in UserId :
         LET owned == {o \in OrgId : <<o, u>> \in memberships}
         IN  IF users[u] = Nil
             THEN owned = {} /\ audit[<<"auth.register", u>>] = 0
             ELSE /\ Cardinality(owned) = 1
                  /\ audit[<<"auth.register", u>>] = 1
                  /\ \E t \in Token : user_id[t] = u
    /\ \A o \in OrgId : orgs[o] # Nil <=> \E u \in UserId : <<o, u>> \in memberships

\* Rotation builds chains: a used token has exactly one successor, a stored token
\* of the same user that lives at least as long; no two tokens share a successor
\* (Refresh inserts the successor and updates the old row in one transaction).
RotationChain ==
    /\ \A t \in Token : t \in used <=> replaced_by[t] # Nil
    /\ \A t \in used :
         /\ user_id[t] # Nil
         /\ user_id[replaced_by[t]] = user_id[t]
         /\ expires_at[replaced_by[t]] >= expires_at[t]
         /\ \A s \in used : replaced_by[s] = replaced_by[t] => s = t

Opened(u) == audit[<<"auth.register", u>>] + audit[<<"auth.login", u>>]
LiveTokens(u) == {t \in Token : user_id[t] = u /\ t \notin used}

\* A session never forks and is never lost in the store: a user has exactly as
\* many unused refresh tokens as registrations and logins opened sessions, even
\* when several requests refresh one token at once (Refresh, RotateAuthRefreshToken).
OneLiveTokenPerSession ==
    \A u \in UserId : Cardinality(LiveTokens(u)) = Opened(u)

\* The audit log has one auth.refresh row for every rotated token and none for a
\* refresh that lost, failed or was rolled back (Refresh writes it in its transaction).
RefreshAudited ==
    \A t \in Token : audit[<<"auth.refresh", t>>] = IF t \in used THEN 1 ELSE 0

\* A token a client holds is in the store with its user: no crash or rollback takes
\* back a session after its response left (the result is returned after Commit).
DeliveredDurable ==
    \A t \in delivered : user_id[t] \in UserId /\ users[user_id[t]] # Nil

\* Columns once written stay: a row keeps its user and expiry, used_at and
\* revoked_at are never cleared, and a used or revoked token never gets another
\* successor, whatever raced with the revocation (the conditions of the UPDATEs).
RowsAreFinal ==
    [][\A t \in Token :
         /\ user_id[t] # Nil => user_id'[t] = user_id[t] /\ expires_at'[t] = expires_at[t]
         /\ t \in used => t \in used'
         /\ t \in revoked => t \in revoked'
         /\ t \in used \cup revoked => replaced_by'[t] = replaced_by[t]]_vars

\* Every request ends: lock waits resolve, and the loser of a race for a token or
\* a unique key is turned away instead of waiting for ever.
EveryRequestEnds == \A r \in Request : tx[r] # NoTx ~> tx[r] = NoTx

\* Seen through the committed rows, the handlers do what TokenChain promises.
Chain == INSTANCE TokenChain WITH owner <- user_id, next <- replaced_by
ImplementsTokenChain == Chain!Spec

-----------------------------------------------------------------------------
(* The inductive invariant: what makes the properties above true.          *)

\* What a transaction has done so far goes with its stage.
TxShape ==
    \A r \in Request :
      /\ tx[r].stage = "idle" \/ tx[r].op = "none" => tx[r] = NoTx
      /\ tx[r].stage \in {"ready", "issued", "rotated"} => tx[r].user # Nil
      /\ tx[r].new # Nil <=> tx[r].stage \in {"issued", "rotated"}
      /\ tx[r].stage = "rotated" => tx[r].op = "refresh"
      /\ tx[r].op = "refresh" <=> tx[r].old # Nil
      /\ tx[r].op \in {"login", "refresh"} => tx[r].stage \in {"ready", "issued", "rotated"}
      /\ tx[r].op = "register" <=> tx[r].email # Nil
      /\ tx[r].op = "register" <=> tx[r].slug # Nil
      /\ tx[r].op = "register" =>
           /\ tx[r].user # Nil <=> tx[r].stage # "begun"
           /\ tx[r].org # Nil <=> tx[r].stage \in {"ready", "issued"}

\* An inserted, uncommitted key is in no committed row and in no other transaction.
AccountInv ==
    /\ UniqueAccounts
    /\ \A r \in Request : tx[r].op = "register" /\ tx[r].user # Nil =>
         /\ \A u \in UserId : users[u] # tx[r].email
         /\ \A q \in Request : q # r /\ tx[q].user # Nil => tx[q].email # tx[r].email
    /\ \A r \in Request : tx[r].op = "register" /\ tx[r].org # Nil =>
         /\ \A o \in OrgId : orgs[o] # tx[r].slug
         /\ \A q \in Request : q # r /\ tx[q].org # Nil => tx[q].slug # tx[r].slug

\* The rows of the token table are whole.
StoredTokens ==
    /\ RotationChain
    /\ RefreshAudited
    /\ DeliveredDurable
    /\ \A t \in Token : user_id[t] = Nil => t \notin revoked
    /\ \A t \in Token : user_id[t] # Nil =>
         expires_at[t] <= now + RefreshTTL /\ users[user_id[t]] # Nil

\* A new token is in one transaction only and in no row; the token a transaction
\* refreshes is its user's; the one it has updated is live and locked by it alone.
PendingTokens ==
    \A r \in Request :
      /\ tx[r].new # Nil =>
           /\ user_id[tx[r].new] = Nil
           /\ tx[r].expires <= now + RefreshTTL
           /\ \A q \in Request : tx[q].new = tx[r].new => q = r
      /\ tx[r].op = "login" => users[tx[r].user] # Nil
      /\ tx[r].op = "refresh" =>
           /\ user_id[tx[r].old] = tx[r].user
           /\ tx[r].new # Nil => tx[r].expires >= expires_at[tx[r].old]
      /\ tx[r].stage = "rotated" =>
           /\ tx[r].old \notin used /\ tx[r].old \notin revoked
           /\ \A q \in Request : tx[q].stage = "rotated" /\ tx[q].old = tx[r].old => q = r

TokenInv == StoredTokens /\ PendingTokens

\* A registration has its new rows to itself, and no rows but its own refer to them.
RegistrationInv ==
    /\ RegistrationAtomic
    /\ \A m \in memberships : users[m[2]] # Nil /\ orgs[m[1]] # Nil
    /\ \A r \in Request : tx[r].op = "register" /\ tx[r].user # Nil =>
         /\ users[tx[r].user] = Nil
         /\ \A q \in Request : tx[q].user = tx[r].user => q = r
    /\ \A r \in Request : tx[r].org # Nil =>
         /\ orgs[tx[r].org] = Nil
         /\ \A q \in Request : tx[q].org = tx[r].org => q = r

\* The live tokens can be counted, and they are as many as the openings.
SessionsCounted ==
    /\ \A u \in UserId : IsFiniteSet(LiveTokens(u))
    /\ OneLiveTokenPerSession

SessionInv == TypeOK /\ TxShape /\ AccountInv /\ TokenInv /\ RegistrationInv /\ SessionsCounted
=============================================================================
