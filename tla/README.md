# DeltaUptime control plane: TLA+ models and proofs

DeltaUptime is an uptime-monitoring service. At this commit its control plane
implements identity: accounts, sessions, passkeys, two-factor codes, tenants,
API keys and the audit log (`src/apps/control-plane`, with the queries in
`src/packages/database` and the schema in `src/migrations`). The other parts
(scheduler, worker, agent, web panels, monitors, incidents) are READMEs.

Almost all hard behaviour of the program is behaviour of concurrent HTTP
requests over one PostgreSQL database. There is no shared memory between
handlers, no lock in the Go code and no background job: what protects a table is
READ COMMITTED transactions, unique indexes and the `WHERE` clauses of single
statements. Around the handlers there is a pool of connections, a process that
starts and stops, and migrations that several replicas may run at once.

## 1. Inventory

| Component | State | Operations | What makes it correct | Modules |
|---|---|---|---|---|
| Accounts, sessions (`auth/service.go`, `auth/tokens.go`) | `users`, `organizations`, owner `memberships`, `auth_refresh_tokens` | Register, Login, Refresh, the statement RevokeAuthRefreshToken | unique accounts, all-or-nothing registration, sessions that never fork | `Sessions`, `TokenChain` |
| Passkeys (`auth/webauthn.go`) | `users.webauthn_user_handle`, `auth_webauthn_sessions`, `auth_webauthn_credentials` | Begin and Finish of registration and login | a passkey registered once, logins of its owner only, a handle that nobody missed is never replaced | `Passkeys` |
| Two-factor codes (`auth/totp.go`, `auth/service.go`) | `user_totp_credentials` | SetupTOTP, EnableTOTP, DisableTOTP, the check of Login | no unconfirmed secret is demanded; the window of codes is neither too narrow nor too wide | `Totp` |
| Tenancy (`auth/permissions.go`, `auth/service.go`) | `memberships`, `api_keys` | AddMembership, UpdateMembership, CreateAPIKey, RevokeAPIKey, authentication | no change of another tenant, every change authorized and audited once | `Tenancy`, `Organizations` |
| Audit log | `audit_logs` | a row per operation, ListAuditLogs | a list that contradicts neither real time nor the tables; a usable limit | `AuditLog`; counted in `Sessions`, `Totp`, `Tenancy` |
| Access tokens (`auth/tokens.go`) | configuration, clock | issue, parse, the expiry of the refresh token | honoured as long as reported, never longer; the session outlives the access token | `AccessTokens` |
| HTTP handlers (`auth/http.go`) | none | authenticate, decode, call the service, map errors to statuses | an answer tells the truth about the effect | `Handlers`, `Exchange`, `Server` |
| Server and process (`app`, `httpapi`, `main.go`) | pool, locks, listener, exit status | start, serve, drain for 10 s, close the pool, die | never wedged, no transaction cut by a shutdown, a signal stops it, nothing left open | `Startup`, `Server` |
| Store, migrations (`database`, `migrations`) | pool, schema, version table | open, close, migrate; goose's own Down | the version table tells what the schema is; success is complete | `Startup`, `Server`, `Migrations`, `SchemaVersion` |
| Configuration (`config`) | none | `Load` | accounts are served outside development on the secrets of the operator only | `Startup` |
| Passwords, encryption (`auth/password.go`, `auth/secrets.go`) | none | Argon2id, AES-GCM | pure functions of crypto libraries | not modelled |
| Scheduler, worker, agent, panels, monitors, ... | | | | no code at this commit |

How they interact: the process loads its configuration, opens the pool and
serves; a handler authenticates on the pool, then calls the service; the service
calls queries either on the pool (`s.repo`: each statement takes a connection and
commits alone) or on a transaction (`tx`: one connection until its end). Passkey
login and password login issue sessions through `issueSessionWithModel`; Login
asks the TOTP row before its transaction; Register founds the organization in
which Tenancy begins; every write carries its audit row in its own transaction.
The hazards, each at its line and with the properties that cover it, are listed
in `PROJECT.json`.

## 2. How the code becomes actions

### Handlers over tables: `Sessions`, `Passkeys`, `Totp`, `Tenancy`, `AuditLog`

* `tx[r]` is request `r`: the operation, how far it is, what it has read and
  what it has written but not committed. `NoTx` (`Nil` in `AuditLog`) is a free
  slot.
* A statement that can wait for a lock, or that reads a row others change, is an
  action of its own. Statements that touch only rows of the same transaction are
  folded into a neighbouring action.
* An uncommitted write is not visible in the tables. It holds a lock: another
  insert of the same unique key, or update of the same row, is not enabled until
  the transaction ends, and then evaluates its condition on what it finds
  (`EmailClaimed`, `RowLocked`, `UserLocked`, `MembershipLocked`, ...).
  That is PostgreSQL's READ COMMITTED rule.
* `Abort(r)` may happen at any stage: any statement may fail and the client may
  cancel the request; every error path returns through the deferred
  `rollbackTx`. `Crash` drops all open transactions.
* A commit takes `ack`: whether the response reaches the client. A lost response
  after a commit is therefore in every model that has a result to lose.
* A validation that fails before anything was written changes no state and is no
  action.

`TokenChain` is the promise of the refresh-token store without transactions:
tokens form chains; `Open`, `Rotate`, `Revoke`.

`Sessions`: `Register` is `BeginRegister`, `InsertUser`/`EmailTaken`,
`InsertOrganization`/`SlugTaken`, `IssueSession`, `CommitRegister`; `Login` is
`Login` (the checks before the transaction), `IssueSession`, `CommitLogin`;
`Refresh` is `RefreshCheck`, `IssueSession`,
`RotateAuthRefreshToken`/`RotateFindsNoRow`, `CommitRefresh`.
The table `auth_refresh_tokens` is kept by column. E-mails and slugs are given
with the function that normalises them, so two spellings of one address are two
inputs. `RevokeAuthRefreshToken` is a generated query that no handler calls; it
is a step of its own because the properties of rotation are meant to hold beside
it. Roles after the founding of an organization belong to `Tenancy`: here
"owner" is the founding membership.

`Passkeys`: `BeginWebAuthnRegistration` is `BeginRegistration`, `SetHandle`,
`CommitBeginRegistration`, in one transaction. `BeginWebAuthnLogin` is
`BeginLogin`, `SetHandle`, `OpenLogin`/`NoPasskeys`, each committing alone.
`FinishWebAuthnRegistration` is `FinishRegistration` (the session row is read),
`ReadUser`, `StorePasskey`/`PasskeyRefused`, `CommitRegistration`;
`FinishWebAuthnLogin` is `FinishLogin`, `ReadUser`, `ValidateLogin`/`LoginRefused`
(the passkeys are listed), `UpdatePasskey`, `CommitLogin`: under READ COMMITTED each
of these reads sees what was committed before it, so handles and passkeys may
change between them. The `ensureWebAuthnUserHandle` inside a finish writes nothing
(`FinishesFindHandle`, proved), which is why `Handlers` has no lock for it.
External, modelled from their use: the authenticator (`CreatePasskey`, `Sign`)
and what the go-webauthn library compares (`SameHandle`, `Valid`, `NewCounter`).

Deadlines. The code stores the library's `SessionData.Expires` as a valid instant
(`webauthn.go:103`, `260`), but configures none of the library's timeouts
(`webauthn.go:43-52`), and the library fills the field only for a timeout it is
asked to enforce. So what is stored is the zero time, and the checks at 149 and 295
refuse every finish request. `Enforced` says whether a begin may set a deadline.
`Enforced = {FALSE}` is this code: the run `passkeys_expired` shows the begin that
nothing can end, and `WithoutDeadlinesNothingFinishes` that then no finish passes
its check and no passkey is ever registered; whatever is said below about
registered passkeys and logins is empty for it. The run `passkeys` takes
`Enforced = {TRUE}`, the code with its timeouts configured. The safety
theorems hold for every `Enforced`.

`Totp`: one user's row. A code is the pair of its secret and its period, so equal
HMAC values of different secrets are left out. Enable, Disable and Login read the
row outside any transaction (`Enable`, `Disable`, `Login`), then the clock, and
check the code with both (`Verify`/`Refuse`): a setup, and the edge of a period, may
come in between. `EnableCredential`/`NoCredential` and `CommitEnable`,
`DeleteCredential` and `CommitDisable`, `CommitLogin` follow. `confirmed` and
`overtaken` are history variables: `Witness` computes them from the step and no
action reads them. What the code checks is the row as it was read: a login may be
issued, and a row deleted, on a secret that a setup has replaced since. No property
forbids that, because nothing in the repository does.

`Tenancy`: `AuthenticateAccessToken`, or `AuthenticateAPIKey` and `TouchAPIKey`,
give a request its principal; `BeginMembership` and `BeginAPIKey` check the
permission on that snapshot; the statements and commits follow. `RevokeAPIKey`
updates the key first and looks at its organization afterwards
(`KeyOfAnotherOrganization`), as the code does. `granted` is a history variable.
`Organizations` is the same without requests and transactions: a change of a member
or a key happens at once, with its row of the log.

`AuditLog`: the role changes of one organization and `ListAuditLogs`. A row is
stamped with `now()`, which PostgreSQL takes when the transaction begins, and
becomes visible when it commits. The list is ordered by stamp and then by the
random identifier, and its limit is cut to 32 bits before its range is checked;
the model does the same with an integer of `2 * Half` values. `after` is a
history: the rows that were committed when a transaction began.

### Times: `AccessTokens`
Instants are ticks, `Second` of them in a second; `NumericDate` drops what a JWT
cannot hold. A request reads the clock up to three times (`Begin`, the access
token, the refresh token) and time may pass between them, as in `Refresh` and
`issueSessionWithModel`.

### Requests, pool and process: `Exchange`, `Handlers`, `Server`
`Handlers` gives every route as the sequence of what it asks for, in order: the
body of the client, a check that may refuse, a statement on the pool, a
transaction, a row or index entry to lock, the commit. `Server` runs such
programs, which are a constant of it, over a pool of connections: `Acquire`,
`BeginTx`, `RunQuery`, `LockRow`, `CommitTx` and the ways a handler returns
(`Succeed`, `Refuse`, `Fail`, `CommitFails`, `PoolClosed`), each through the
deferred rollback. Around them is `Serve` of `httpapi/server.go`: the select
over signal and listener, `Shutdown` with its 10 seconds (`Drained`, `GiveUp`),
the deferred `Close` of the pool that waits for every connection (`Exit`), and
`Kill`. `Exchange` is what a client is promised about one request, with no
program, database or process in it. `pgxpool` and `net/http` are external.

After an error of the listener the model lets new requests come until the process
exits: no code closes the connections that clients keep open. That allows at
least what the library does.

### Process and schema: `Startup`, `Migrations`
`Startup` is one process of `uptime-server`, from the command line through
`Run`, `Load`, `OpenStore`, `NewService` and `Listen` to its exit status, for
every command, every class of value of every variable of the environment, and a
signal at any step. A value is what the code can tell of it: unset, the default
of development (given or fallen back to), the operator's own, or malformed.

`Migrations` is any number of runs of `Migrate`, of binaries that embed different
numbers of migrations, at once, each dying at any statement, over one database,
with the operator's `goose down` in between. Each migration is the sequence of the
objects it creates. goose is external: it reads the current version, and runs a
migration together with its version row in one transaction; it takes no lock.
Downs run alone, by assumption: the program itself never runs one.
`SchemaVersion` is what that amounts to: a database at a version, that moves by
one, and runs that report what is so.

`Server` and `Startup` describe one process twice: `Server` the part of its life in
which `Startup` says "serving". `EndsAsStartup` is that they agree: with
the whole of a serving process as one stage, every step of `Server` is a step of
`Startup` or none, for which `Proc` is the mapping.

## 3. Runs

| Run | Instance | Shows |
|---|---|---|
| `sessions` | 3 spellings of 2 mailboxes, 1 slug, 2 users, organizations and requests, 3 tokens, clock to 2 with a TTL of 1 | unique accounts, atomic registrations, chains, one live token per session, exact audit, durable results; refinement of `TokenChain`; every request ends |
| `passkeys` | 2 users, 2 handles, 1 passkey, 3 ceremonies, 2 requests, clock to 1, ceremonies that must finish in the tick they begin in | a passkey is registered once, a login is one of its owner with a counter the authenticator has reached, a settled handle stays; every request ends |
| `passkeys_handle` (violation) | 1 user, 2 handles, 2 requests | a pinned handle is overwritten |
| `passkeys_expired` (violation) | the deadlines of this code | a begin answers with a ceremony that nothing can end |
| `totp` | 2 secrets, 2 requests, periods of 2 s, clock to 4 s, 2 setups, 2 enables, 1 disable, 1 login | what is enabled was confirmed; the window of codes holds its promises at the edges of periods; row and log agree; every request ends |
| `tenancy_keys` | 2 organizations with an owner each, 2 keys, 2 requests | no effect across tenants, keys audited once |
| `tenancy_members` | 1 organization, 2 users, 1 key, 2 roles, 2 requests | changes are authorized while they run, members audited once; refinement of `Organizations`; every request ends |
| `server` | 2 requests, each a registration or the begin of a passkey login, 2 connections, all locks | never wedged, true exit status, no transaction cut, refinement of `Exchange`; requests end, a signal stops the process |
| `audit_list` | 1 member, 2 roles, 2 requests, 3 rows, 7 limits in a 4-bit integer | lists respect real time, roles are explained, limits are usable |
| `access_tokens` | 4 ticks a second, 5 lifetimes below, at and above a second, 16 ticks | tokens end at their reported expiry or up to a second before, sessions outlive them |
| `startup` | every command in every environment | nothing left open, no success untold, own secrets, a signal ends every command |
| `migrations` | 3 runs, one of an older binary, 2 Downs | the version table tells the schema, success is complete, runs end |

Bounds. The totp clock passes both edges of a window: a code of the first period
leaves it, one of the third enters it. A ceremony of `passkeys` passes its deadline
while requests that have read it go on. In `tenancy_members` keys have all
permissions a request can need; keys without one are in `tenancy_keys`.
`MaxTime` bounds the clocks, `MaxCounter` the sign counters, `MaxAudit`
the repetitions of an operation, `MaxDowns` the Downs; `TokenBudget`, `Budget` and
`KeyBudget` let a request start only when a row identifier is left for it.
Why these are enough: the races of this code are between two requests on one row
or index entry, with time or a crash between their steps, and every run has two
that can be at any pair of stages; every action and every disjunct of the
next-state relations is taken in some run. What more of everything would change is
the business of the proofs, which have no bounds: each safety property of
`Sessions`, `Passkeys` (but the two of the violation runs), `Server`,
`Totp`, `Tenancy`, `AuditLog`, `AccessTokens` and `Migrations` is also proved for
all values of the constants. `Startup` has no constants and no bounds: its run
visits every state there is, and the proofs add why they are the right ones. In
particular `sessions` has one slug, so that slugs race by being equal only;
`AccountsUnique` covers several. `server` runs the two routes that between them
use every kind of step that waits; that all 34 combinations of route and
credential have the form the proofs ask for (`WellFormed`) TLC evaluates as the
assumption `CodeIsWellFormed` of `MCServer`, and `HandlersAreWellFormed` proves,
for an organization of any number of members (`ListMemberships` asks a query for
each).

In most of the bounded systems identifiers run out, or the process has ended, and
nothing can happen any more: deadlock is not checked there, and that no request is
stuck is what the liveness properties show. `Tenancy` and `Migrations` never stop
and their deadlock checks are on.

Each property has a mutant of the model, a plausible bug such as a dropped
condition or a statement outside its transaction, that TLC finds violating it.

### What the two violation runs show
* `HandlePinned`. `PROGRESS.md` says the server generates and pins a random user
  handle. `ensureWebAuthnUserHandle` tests the row it read earlier, and the UPDATE
  has no condition on the old value. Two first ceremonies of a user at once: the
  second overwrites the committed handle of the first, and a finish of the first
  ceremony is then refused. What does hold is `SettledHandlePinned`: only a begin
  that found no handle, and has not ended, replaces one. So the damage is confined
  to first ceremonies that overlap, and it does not come back: a ceremony that
  has lost its handle is never usable again (`StaleStaysStale`), and no login goes
  through a passkey of somebody else (`LoginIsOwners`).
* `CeremonyCanFinish`. `PROGRESS.md` and the roadmap list the two ceremonies, begin
  and finish, as done. The deadline a begin stores is the zero time (section 2), so
  the first begin already answers with a ceremony that has expired.

One comment of the source is out of date without a property to show it:
`config.go:28` says of `Load` that it never fails today, and it does.

### Fairness
* `Sessions`, `Passkeys`, `Totp`, `Tenancy`. Weak fairness of what waits for
  nobody: handlers run in goroutines that the Go runtime schedules, and the
  database answers. Strong fairness of statements that wait for a lock, because
  PostgreSQL queues the waiters of a lock in order, so a waiter cannot be
  overtaken for ever although its statement is disabled again and again. Nothing
  is assumed of clients, of `Abort`, of `Crash` or of the clock. Under it every
  started request ends.
* `Server`. The same, with the queue of `pgxpool` for connections, and weak
  fairness of `Serve`: the select, and the timer of `Shutdown`. Clients need not
  send their bodies: a request that waits for one may do so for ever (the server
  has no read timeout for bodies), and `RequestsEnd` excepts it; but it holds no
  connection, and `SignalStops` holds whatever clients do.
* `Startup`. Only `WF_processVars(stop /\ Step)`: after a signal every wait ends, since
  each of them watches the context. Before it a ping may take for ever.
* `Migrations`. A run that waits for nobody goes on; the waiters of an
  uncommitted table are served in turn. Whoever holds such a lock is itself a
  migration that goes on, or dies.

## 4. Proofs

Checked by TLAPS for every value of the constants, from the named assumptions of
each module (what `Nil` is not, types of the constants, the canonical forms of
spellings, the order of limits).

| Module | Theorems | Invariant |
|---|---|---|
| `SessionsProofs` | `TypeCorrect`, `InvariantHolds`, `AccountsUnique`, `RegistrationsAreWhole`, `SessionsNeverFork`, `RotationBuildsChains`, `RotationsAudited`, `DeliveredSurvives`, `RowsStayFinal`, `Refinement` (of `TokenChain`) | `SessionInv` |
| `PasskeysProofs` | `TypeCorrect`, `RegisteredOnce`, `SettledHandlesArePinned`, `StaleCeremoniesStayStale`, `LoginsAreOwners`, `FinishesNeedNoHandle`, `WithoutDeadlinesNothingFinishes` | `IInv`, `HandlesOwned`, `LoginInv` |
| `TotpProofs` | `TypeCorrect`, `OnlyConfirmedEnabled`, `WindowIsRight`, `AuditTellsRow` | `IInv` |
| `TenancyProofs` | `TypeCorrect`, `AuthorizedChanges`, `KeysAudited`, `MembersAudited`, `Refinement` (of `Organizations`) | `IInv` |
| `AuditLogProofs` | `InvariantHolds`, `TypeCorrect`, `ListsAreInRealTime`, `RolesAreExplained`, `LimitsAreUsable` | `LogInv` |
| `AccessTokensProofs` | `NeverHonouredTooLong`, `UsableFromTheStart`, `SessionOutlivesAccess` | `TokenInv` |
| `ServerProofs` | `InvariantHolds`, `TypeCorrect`, `PoolNeverWedges`, `ExitStatusTrue`, `TransactionsSurvive`, `Refinement` (of `Exchange`), `ServesAsStartup`, `HandlersAreWellFormed`, `ThisServerIsSound` | `ServerInv`, `EndInv` |
| `MigrationsProofs` | `TypeCorrect`, `VersionsAreTrue`, `SuccessMeansComplete`, `DownsGoThrough`, `Refinement` (of `SchemaVersion`); of `Startup`: `ProcessTypeCorrect`, `ProcessEndsInOrder`, `ProcessServesOnOwnSecrets` | `IInv`, `ProcessInv` |

The arguments. None of the properties is inductive by itself: what is committed is
only safe if no open transaction can break it, so each invariant says what open
transactions hold.

* `SessionInv`: `TxShape` ties the stage of a transaction to what it has done;
  `AccountInv` says that an inserted but uncommitted key is in no committed row
  and in no other transaction (the wait on the unique index); `StoredTokens` says
  the token table is whole; `PendingTokens` says that a new token is in one
  transaction only, and that a token which was updated is still live and locked by
  one transaction (the row lock). The token table is treated through the few ways
  in which a step can change it (`TableStep`), from which `RowsStayFinal` and the
  refinement follow too. `RegistrationInv` adds that the rows a transaction works
  on are its own, or committed ones of its user: a commit of one request cannot
  complete or break the registration of another. `SessionsCounted` counts a user's
  live tokens with the library's theorems on cardinality; that the set is finite is
  part of the induction, not an assumption on `Token`.
* `PasskeysProofs`: one transaction holds the written row of a passkey (`Locks`), and
  one that registers works on a passkey without an owner that was created in its
  ceremony (`Shape`); passkeys come from ceremonies and ceremonies from users
  (`Origins`), and neither is ever rewritten (`Kept`).
  `HandlesOwned` says that a handle which is generated and not committed is nobody
  else's; with it a handle, once replaced, does not return. `LoginInv` says that
  what a login checked is never taken back: owners, ceremonies and what an
  authenticator keeps do not change, its counter only grows.
* `TotpProofs`: one transaction at a time holds the row and holds it as it found
  it (`RowHeld`). What an enable has read is still stored when it checks its code,
  unless a secret came in between, which is then among `overtaken` (`Confirmed`).
  `WindowIsRight` is arithmetic: instants at most a period apart lie in
  neighbouring periods (`Neighbours`).
* `TenancyProofs`: `Locks` says that two transactions have not written one row, so
  what a written row was, it is until the commit (`Found`); that gives the exact
  audit, and that a commit is a step of `Organizations`. `Held` says that a
  principal's grants are among what its request has seen to be allowed, and that it
  has begun only what they permit; a key never changes its organization or scopes
  (`KeysStay`).
* `AuditLogProofs`: a row, committed or pending, is stamped no earlier than the
  rows that were there when its transaction began (`Stamps`).
* `ServerProofs`: where a request is in its handler when it holds a connection or
  a row (`Holding`), what it has done by then (`Effects`), and what the process has
  seen to when it closes the pool (`Life`). `PoolNeverWedges` then follows from the
  order of locks: a transaction needs no second connection, and of those that hold
  rows one at the highest level can go on. The hypothesis `AllWellFormed` is about
  the constant table of handlers. For the table of this code it is a theorem:
  every method is of one of three forms (no transaction and no effect; one
  statement at the end that takes effect; one transaction), each form is well
  formed, and authentication and reading the body in front of it keep the form.
  `ServesAsStartup` asks nothing of the handlers: `EndInv` says how each exit
  status comes about.
* `MigrationsProofs`: the objects two open transactions have made are disjoint,
  which the wait of CREATE for an uncommitted table gives. So whoever commits a
  migration commits the one after `Current`, which is the step of `SchemaVersion`.
  `ProcessInv` ties the stage of a process to what it has loaded and opened
  (`AtWork`, `OpenInTurn`); every end but that of a failed open goes through
  `Return` (`ReturnKeeps`).

Type invariants and further facts (`SessionInv`, `RowsAreFinal`, `DownsAreInOrder`,
`StaleStaysStale`, `FinishesFindHandle`, `NothingFinishes`, `EndsAsStartup`,
`ImplementsSchemaVersion`) are proved instead of being run.

Only model-checked: liveness (fairness and ENABLED are outside the prover's
reach). Every safety property of a passing run has a theorem. The two properties of
the violation runs do not hold, and have none.

## 5. Not modelled, and why

* Cryptography (Argon2id, HMAC, AES-GCM, JWT signatures): libraries; random
  values are fresh identifiers, hashes are injective.
* The layout of JSON, the texts of errors, logging: no state.
* The health endpoints: they read nothing.
* The order in which lists of organizations, members and keys are returned.
* Clean-up of expired ceremonies and tokens: the code has none, and its rows stay.
* The expiry of a refresh token is looked at once, when it is read. One that ends
  before the UPDATE is still rotated; `TokenChain` has no clock and allows it.
* A credential blob with an older counter may overwrite a newer one when two logins
  with one passkey overlap (`webauthn.go:344`). `LoginIsOwners` bounds the counter
  by what the authenticator has reached, not by what was stored before. As long as
  no finish succeeds this cannot happen.
* The last owner of an organization may be demoted: neither code nor documents
  say otherwise, so no property does.
* A clock of the database that runs backwards (`AuditLog`); Downs beside running
  migrations (`Migrations`).
* Scheduler, worker, agent, panels, monitors, incidents, notifications, billing:
  no code at this commit.

## 6. Plan

Done: every component with code in it, except the pure cryptographic helpers.
What is left, in order:

1. A composition of `Sessions` and `Totp`: which sessions exist when two-factor is
   turned on.
