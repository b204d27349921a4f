------------------------------ MODULE Handlers ------------------------------
(***************************************************************************)
(* What each handler of internal/auth asks of its client and of the        *)
(* database, in order: one sequence of steps per service method, and one   *)
(* per route, in front of which the handler authenticates and decodes.     *)
(*                                                                         *)
(* Calls of s.repo run on the pool: each takes a connection and gives it   *)
(* back.  Calls of tx run on the connection Begin took.  A call of tx that *)
(* waits for nobody is not a step of its own.                              *)
(***************************************************************************)
EXTENDS Naturals, Sequences

CONSTANT Members    \* how many members the organization has whose members are listed

ASSUME HandlersAssumption == Members \in Nat

None == "-"

Body == [op |-> "body", row |-> None]      \* decodeJSON: wait for the client's body
Check == [op |-> "check", row |-> None]    \* the handler may return a client error here
Deny == [op |-> "deny", row |-> None]      \* it always does
Query == [op |-> "query", row |-> None]    \* a statement on the pool
Touch(row) == [op |-> "query", row |-> row]  \* one that updates a row: it may wait for it
Store == [op |-> "store", row |-> None]    \* one that is what the client asked for
Begin == [op |-> "begin", row |-> None]    \* a transaction takes a connection
Lock(row) == [op |-> "lock", row |-> row]  \* it writes a row, or the entry of a unique index
Commit == [op |-> "commit", row |-> None]  \* it commits: what the client asked for

\* What can be waited for.  A transaction that locks two of them locks one of level 1,
\* then one of level 2.
LockLevel == [email |-> 1, slug |-> 2, refresh_token |-> 1, totp |-> 1, user |-> 1,
          membership |-> 1, api_key |-> 1, credential_id |-> 1, registration |-> 2,
          credential |-> 1, login |-> 2]

-----------------------------------------------------------------------------
(* service.go and webauthn.go                                              *)

Register == <<Check, Begin, Lock("email"), Check, Lock("slug"), Check, Commit>>

Login == <<Check, Query, Check, Query, Check, Query, Begin, Commit>>

Refresh == <<Check, Begin, Check, Lock("refresh_token"), Check, Commit>>

AuthenticateAccessToken == <<Check, Query, Check, Query, Query>>

AuthenticateAPIKey == <<Check, Query, Check, Touch("api_key")>>

Me == AuthenticateAccessToken \o <<Query>>

SetupTOTP == <<Begin, Lock("totp"), Commit>>

EnableTOTP == <<Query, Check, Begin, Lock("totp"), Commit>>

DisableTOTP == <<Query, Check, Begin, Lock("totp"), Commit>>

ListOrganizations == <<Query>>

GetOrganization == <<Query, Check>>

\* Each member costs a query of its own.
ListMemberships == <<Query, Check, Query>> \o [i \in 1..Members |-> Query]

\* The last query, for the answer, comes after the commit: it fails only with a 500.
AddMembership == <<Query, Check, Query, Check, Begin, Lock("membership"), Check, Commit, Query>>

UpdateMembership == <<Query, Check, Begin, Lock("membership"), Check, Commit, Query>>

CreateAPIKey == <<Query, Check, Begin, Commit>>

ListAPIKeys == <<Query, Check, Query>>

RevokeAPIKey == <<Query, Check, Begin, Lock("api_key"), Check, Commit>>

ListAuditLogs == <<Query, Check, Query>>

BeginWebAuthnRegistration == <<Begin, Check, Lock("user"), Commit>>

\* webAuthnUserFromModel would write a missing handle first, an update of the user row; the
\* ceremony that is found here has set it (FinishesNeedNoHandle in PasskeysProofs).
FinishWebAuthnRegistration ==
    <<Check, Begin, Check, Lock("credential_id"), Check, Lock("registration"), Commit>>

BeginWebAuthnLogin == <<Check, Query, Check, Touch("user"), Query, Check, Store>>

FinishWebAuthnLogin == <<Check, Begin, Check, Lock("credential"), Lock("login"), Commit>>

-----------------------------------------------------------------------------
(* http.go                                                                 *)

Credential == {"token", "key"}

authenticatePrincipal(cred) ==
    IF cred = "key" THEN AuthenticateAPIKey ELSE AuthenticateAccessToken

authenticateUser(cred) ==
    IF cred = "key" THEN AuthenticateAPIKey \o <<Deny>> ELSE AuthenticateAccessToken

handleRegister == <<Body>> \o Register
handleLogin == <<Body>> \o Login
handleRefresh == <<Body>> \o Refresh
handleMe == Me
handleTOTPSetup(cred) == authenticateUser(cred) \o SetupTOTP

handleTOTPEnable(cred) == authenticateUser(cred) \o <<Body>> \o EnableTOTP
handleTOTPDisable(cred) == authenticateUser(cred) \o <<Body>> \o DisableTOTP
handleWebAuthnRegisterBegin(cred) == authenticateUser(cred) \o BeginWebAuthnRegistration
handleWebAuthnRegisterFinish(cred) ==
    authenticateUser(cred) \o <<Body>> \o FinishWebAuthnRegistration
handleWebAuthnLoginBegin == <<Body>> \o BeginWebAuthnLogin
handleWebAuthnLoginFinish == <<Body>> \o FinishWebAuthnLogin
handleOrganizations(cred) == authenticatePrincipal(cred) \o ListOrganizations
handleOrganization(cred) == authenticatePrincipal(cred) \o GetOrganization
handleListMemberships(cred) == authenticatePrincipal(cred) \o ListMemberships
handleCreateMembership(cred) == authenticatePrincipal(cred) \o <<Body>> \o AddMembership
handleUpdateMembership(cred) == authenticatePrincipal(cred) \o <<Body>> \o UpdateMembership
handleListAPIKeys(cred) == authenticatePrincipal(cred) \o ListAPIKeys
handleCreateAPIKey(cred) == authenticatePrincipal(cred) \o <<Body>> \o CreateAPIKey
handleRevokeAPIKey(cred) == authenticatePrincipal(cred) \o RevokeAPIKey
\* The limit of the list is parsed in front of the service.
handleListAuditLogs(cred) == authenticatePrincipal(cred) \o <<Check>> \o ListAuditLogs

OpenRoutes == {"register", "login", "refresh", "me", "passkey.begin", "passkey.finish"}
UserRoutes == {"totp.setup", "totp.enable", "totp.disable",
               "passkey.register.begin", "passkey.register.finish"}
PrincipalRoutes == {"organizations", "organization", "members", "members.add",
                    "members.update", "keys", "keys.create", "keys.revoke", "audit"}

\* NewHandler's table of routes; the credential matters where one is asked for.
Handler(name, cred) ==
    CASE name = "register" -> handleRegister
      [] name = "login" -> handleLogin
      [] name = "refresh" -> handleRefresh
      [] name = "me" -> handleMe
      [] name = "passkey.begin" -> handleWebAuthnLoginBegin
      [] name = "passkey.finish" -> handleWebAuthnLoginFinish
      [] name = "totp.setup" -> handleTOTPSetup(cred)
      [] name = "totp.enable" -> handleTOTPEnable(cred)
      [] name = "totp.disable" -> handleTOTPDisable(cred)
      [] name = "passkey.register.begin" -> handleWebAuthnRegisterBegin(cred)
      [] name = "passkey.register.finish" -> handleWebAuthnRegisterFinish(cred)
      [] name = "organizations" -> handleOrganizations(cred)
      [] name = "organization" -> handleOrganization(cred)
      [] name = "members" -> handleListMemberships(cred)
      [] name = "members.add" -> handleCreateMembership(cred)
      [] name = "members.update" -> handleUpdateMembership(cred)
      [] name = "keys" -> handleListAPIKeys(cred)
      [] name = "keys.create" -> handleCreateAPIKey(cred)
      [] name = "keys.revoke" -> handleRevokeAPIKey(cred)
      [] name = "audit" -> handleListAuditLogs(cred)

AllRoutes == (OpenRoutes \X {"token"}) \cup ((UserRoutes \cup PrincipalRoutes) \X Credential)
=============================================================================
