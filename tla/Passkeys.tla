------------------------------ MODULE Passkeys ------------------------------
(***************************************************************************)
(* Passkeys: the two WebAuthn ceremonies of internal/auth/webauthn.go.     *)
(*                                                                         *)
(* A ceremony begins with a row of auth_webauthn_sessions and ends when    *)
(* the authenticator's answer is verified and the row deleted.  Both       *)
(* ceremonies make sure that the user has a handle, a random value the     *)
(* authenticator keeps with the passkey.  BeginWebAuthnLogin runs its      *)
(* statements on the pool, each committing by itself; the other handlers   *)
(* run one READ COMMITTED transaction.                                     *)
(*                                                                         *)
(* Outside src/ and modelled from its use: the authenticator, and the      *)
(* go-webauthn library, which checks an answer against the session data,   *)
(* the handle and the stored passkeys of the user.                         *)
(***************************************************************************)
EXTENDS Integers, FiniteSets

CONSTANTS
    UserId, Handle, Credential, Session,    \* rows and random values
    Request,                                \* requests that may run at a time
    Enforced,                               \* may the library set a deadline: {FALSE} in this code
    CeremonyTTL,                            \* how long a ceremony may take if it does
    MaxTime, MaxCounter,                    \* bounds on clock and sign counters
    Nil

ASSUME PasskeyAssumption ==
    /\ Nil \notin UserId \cup Handle \cup Credential \cup Session
    /\ Enforced \subseteq BOOLEAN
    /\ CeremonyTTL \in Nat /\ MaxTime \in Nat /\ MaxCounter \in Nat

VARIABLES
    now,        \* the wall clock
    handle,     \* users.webauthn_user_handle
    ceremony,   \* ceremony[s]: the content of session s, kept after its row is gone
    open,       \* the rows of auth_webauthn_sessions
    owner,      \* auth_webauthn_credentials.user_id, Nil if there is no such row
    counter,    \* sign counter in the stored credential blob
    audit,      \* audit[<<a, c>>]: how many audit_logs rows record action a of passkey c
    device,     \* device[c]: what the authenticator keeps with passkey c
    answers,    \* assertions the authenticators have signed
    known,      \* sessions whose begin response reached the client
    tx          \* tx[r]: request r

rows == <<handle, ceremony, open, owner, counter, audit>>
clients == <<device, answers, known>>
vars == <<now, rows, clients, tx>>

Ceremony == [flow    : {"none", "registration", "login"},
             user    : UserId \cup {Nil},
             handle  : Handle \cup {Nil},
             allowed : SUBSET Credential,
             expires : Int]
NoCeremony == [flow |-> "none", user |-> Nil, handle |-> Nil, allowed |-> {}, expires |-> 0]

NoDevice == [session |-> Nil, handle |-> Nil, count |-> 0]
Answer == [session : Session, passkey : Credential, count : 0..MaxCounter]

Event == {"auth.webauthn.register", "auth.webauthn.login"} \X Credential

\* The stages of a handler: "read" has read the row it works on (the user, or the
\* session), "user" the user of its session, "ready" has what it needs, "locked" has
\* updated or inserted a row and holds its lock.
Stage == {"idle", "read", "user", "ready", "locked"}
NoTx == [op |-> "none", stage |-> "idle", user |-> Nil, handle |-> Nil,
         session |-> Nil, passkey |-> Nil, count |-> 0]

Init ==
    /\ now = 0
    /\ handle = [u \in UserId |-> Nil]
    /\ ceremony = [s \in Session |-> NoCeremony]
    /\ open = {}
    /\ owner = [c \in Credential |-> Nil]
    /\ counter = [c \in Credential |-> 0]
    /\ audit = [e \in Event |-> 0]
    /\ device = [c \in Credential |-> NoDevice]
    /\ answers = {}
    /\ known = {}
    /\ tx = [r \in Request |-> NoTx]

Work(r, x) == tx' = [tx EXCEPT ![r] = x] /\ UNCHANGED <<now, rows, clients>>
End(r) == tx' = [tx EXCEPT ![r] = NoTx]
Rollback(r) == Work(r, NoTx)

-----------------------------------------------------------------------------
(* ensureWebAuthnUserHandle: the handle read before is trusted to be unset *)
(* still; the UPDATE waits for the row and then overwrites it.             *)

FreshHandle == {h \in Handle : /\ \A u \in UserId : handle[u] # h
                               /\ \A s \in Session : ceremony[s].handle # h
                               /\ \A q \in Request : tx[q].handle # h}

\* Bound: a ceremony begins only if a session id and a handle are left for it.
Beginning == {r \in Request : tx[r].op \in {"begin_registration", "begin_login"}}
Budget ==
    /\ Cardinality(Beginning) < Cardinality({s \in Session : ceremony[s] = NoCeremony})
    /\ Cardinality({r \in Beginning : tx[r].stage = "read"}) < Cardinality(FreshHandle)

\* Mutant: every ceremony makes a handle of its own.
BeginAnew(r, u, op) ==
    /\ tx[r] = NoTx
    /\ Budget
    /\ Work(r, [NoTx EXCEPT !.op = op, !.user = u, !.handle = handle[u], !.stage = "read"])

Begin(r, u, op) ==
    /\ tx[r] = NoTx
    /\ Budget
    /\ Work(r, [NoTx EXCEPT !.op = op, !.user = u, !.handle = handle[u],
                            !.stage = IF handle[u] = Nil THEN "read" ELSE "ready"])

UserLocked(u) == \E q \in Request :
    tx[q].op = "begin_registration" /\ tx[q].stage = "locked" /\ tx[q].user = u

SetHandle(r) ==
    /\ tx[r].stage = "read"
    /\ ~UserLocked(tx[r].user)
    /\ \E h \in FreshHandle :
         \/ /\ tx[r].op = "begin_registration"
            /\ Work(r, [tx[r] EXCEPT !.stage = "locked", !.handle = h])
         \/ /\ tx[r].op = "begin_login"
            /\ handle' = [handle EXCEPT ![tx[r].user] = h]
            /\ tx' = [tx EXCEPT ![r] = [@ EXCEPT !.stage = "ready", !.handle = h]]
            /\ UNCHANGED <<now, ceremony, open, owner, counter, audit, clients>>

\* SessionData.Expires: the library sets it only if its configuration asks it to enforce
\* a timeout.  newWebAuthnManager configures none, and Go's zero time is stored, which
\* is before every clock.
ZeroTime == -1
Deadline(enforced) == IF enforced THEN now + CeremonyTTL ELSE ZeroTime

\* A session row with a fresh id; ack tells whether the response arrives.
OpenSession(r, ack, flow, allowed) ==
    \E s \in Session, enforced \in Enforced :
      /\ ceremony[s] = NoCeremony
      /\ ceremony' = [ceremony EXCEPT ![s] = [flow |-> flow, user |-> tx[r].user,
                        handle |-> tx[r].handle, allowed |-> allowed,
                        expires |-> Deadline(enforced)]]
      /\ open' = open \cup {s}
      /\ known' = IF ack THEN known \cup {s} ELSE known
      /\ End(r)
      /\ UNCHANGED <<now, owner, counter, audit, device, answers>>

BeginRegistration(r, u) == Begin(r, u, "begin_registration")
CommitBeginRegistration(r, ack) ==
    /\ tx[r].op = "begin_registration" /\ tx[r].stage \in {"ready", "locked"}
    /\ handle' = IF tx[r].stage = "locked"
                 THEN [handle EXCEPT ![tx[r].user] = tx[r].handle] ELSE handle
    /\ OpenSession(r, ack, "registration", {})

\* The user of an e-mail; a user without a passkey is turned away only after the
\* handle was written.
BeginLogin(r, u) == Begin(r, u, "begin_login")
PasskeysOf(u) == {c \in Credential : owner[c] = u}
OpenLogin(r, ack) ==
    /\ tx[r].op = "begin_login" /\ tx[r].stage = "ready"
    /\ PasskeysOf(tx[r].user) # {}
    /\ OpenSession(r, ack, "login", PasskeysOf(tx[r].user))
    /\ UNCHANGED handle
NoPasskeys(r) ==
    /\ tx[r].op = "begin_login" /\ tx[r].stage = "ready"
    /\ PasskeysOf(tx[r].user) = {}
    /\ Rollback(r)

-----------------------------------------------------------------------------
(* The authenticator                                                       *)

CreatePasskey(s) ==
    /\ s \in known /\ ceremony[s].flow = "registration"
    /\ \E c \in Credential :
         /\ device[c] = NoDevice
         /\ device' = [device EXCEPT ![c] = [session |-> s, handle |-> ceremony[s].handle,
                                             count |-> 0]]
    /\ UNCHANGED <<now, rows, answers, known, tx>>

Sign(s, c) ==
    /\ s \in known /\ ceremony[s].flow = "login" /\ c \in ceremony[s].allowed
    /\ device[c].count < MaxCounter
    /\ device' = [device EXCEPT ![c].count = @ + 1]
    /\ answers' = answers \cup {[session |-> s, passkey |-> c, count |-> device[c].count + 1]}
    /\ UNCHANGED <<now, rows, known, tx>>

-----------------------------------------------------------------------------
(* FinishWebAuthnRegistration: the session row, the user row and the       *)
(* passkeys are read by statements of their own.                           *)

FinishRegistration(r, s, c) ==
    /\ tx[r] = NoTx
    /\ device[c].session = s
    /\ s \in open /\ ceremony[s].flow = "registration"
    /\ now <= ceremony[s].expires
    /\ Work(r, [NoTx EXCEPT !.op = "finish_registration", !.stage = "read",
                            !.user = ceremony[s].user, !.session = s, !.passkey = c])

\* GetUserByID.  The handle read here is the one the library compares later; it is set
\* (ensureWebAuthnUserHandle finds nothing to do: FinishesFindHandle).
ReadUser(r) ==
    /\ tx[r].op \in {"finish_registration", "finish_login"} /\ tx[r].stage = "read"
    /\ Work(r, [tx[r] EXCEPT !.stage = "user", !.handle = handle[tx[r].user]])

PasskeyLocked(c) == \E q \in Request : tx[q].stage = "locked" /\ tx[q].passkey = c

\* CreateCredential of the library compares the user's handle with the session's.
SameHandle(r) == tx[r].handle = ceremony[tx[r].session].handle

\* Mutants: the insert without its unique index, and a refusal that only knows
\* the first reason.
StorePasskeyTwice(r) ==
    /\ tx[r].op = "finish_registration" /\ tx[r].stage = "user"
    /\ SameHandle(r)
    /\ Work(r, [tx[r] EXCEPT !.stage = "locked"])

PasskeyRefusedByHandle(r) ==
    /\ tx[r].op = "finish_registration" /\ tx[r].stage = "user"
    /\ ~SameHandle(r)
    /\ Rollback(r)

\* The insert waits for an uncommitted row with the same credential_id.
StorePasskey(r) ==
    /\ tx[r].op = "finish_registration" /\ tx[r].stage = "user"
    /\ SameHandle(r)
    /\ ~PasskeyLocked(tx[r].passkey)
    /\ owner[tx[r].passkey] = Nil
    /\ Work(r, [tx[r] EXCEPT !.stage = "locked"])

PasskeyRefused(r) ==
    /\ tx[r].op = "finish_registration" /\ tx[r].stage = "user"
    /\ \/ ~SameHandle(r)
       \/ ~PasskeyLocked(tx[r].passkey) /\ owner[tx[r].passkey] # Nil
    /\ Rollback(r)

\* The session row goes with the commit, the events are written.
CommitRegistration(r) ==
    /\ tx[r].op = "finish_registration" /\ tx[r].stage = "locked"
    /\ owner' = [owner EXCEPT ![tx[r].passkey] = tx[r].user]
    /\ open' = open \ {tx[r].session}
    /\ audit' = [audit EXCEPT ![<<"auth.webauthn.register", tx[r].passkey>>] = @ + 1]
    /\ End(r)
    /\ UNCHANGED <<now, handle, ceremony, counter, clients>>

-----------------------------------------------------------------------------
(* FinishWebAuthnLogin                                                     *)

FinishLogin(r, a) ==
    /\ tx[r] = NoTx
    /\ a.session \in open /\ ceremony[a.session].flow = "login"
    /\ now <= ceremony[a.session].expires
    /\ Work(r, [NoTx EXCEPT !.op = "finish_login", !.stage = "read",
                            !.user = ceremony[a.session].user, !.session = a.session,
                            !.passkey = a.passkey, !.count = a.count])

\* ValidateLogin of the library, on the passkeys listed now: the handles agree and the
\* passkey is the user's and was offered.
Valid(r) ==
    /\ SameHandle(r)
    /\ tx[r].handle = device[tx[r].passkey].handle
    /\ tx[r].passkey \in PasskeysOf(tx[r].user)
    /\ tx[r].passkey \in ceremony[tx[r].session].allowed

\* Mutant: the counter counts logins, not what the authenticator signed.
CountLogins(stored, signed) == stored + 1

\* A counter that did not grow is kept, not refused.
NewCounter(stored, signed) == IF signed > stored THEN signed ELSE stored

ValidateLogin(r) ==
    /\ tx[r].op = "finish_login" /\ tx[r].stage = "user"
    /\ Valid(r)
    /\ Work(r, [tx[r] EXCEPT !.stage = "ready",
                             !.count = NewCounter(counter[tx[r].passkey], @)])
LoginRefused(r) ==
    /\ tx[r].op = "finish_login" /\ tx[r].stage = "user"
    /\ ~Valid(r)
    /\ Rollback(r)

\* The UPDATE of the blob waits for the row and overwrites it.
UpdatePasskey(r) ==
    /\ tx[r].op = "finish_login" /\ tx[r].stage = "ready"
    /\ ~PasskeyLocked(tx[r].passkey)
    /\ Work(r, [tx[r] EXCEPT !.stage = "locked"])

\* The session of the user is issued as in Sessions; the ceremony's row is deleted,
\* and it is no error if it is gone already.
CommitLogin(r) ==
    /\ tx[r].op = "finish_login" /\ tx[r].stage = "locked"
    /\ counter' = [counter EXCEPT ![tx[r].passkey] = tx[r].count]
    /\ open' = open \ {tx[r].session}
    /\ audit' = [audit EXCEPT ![<<"auth.webauthn.login", tx[r].passkey>>] = @ + 1]
    /\ End(r)
    /\ UNCHANGED <<now, handle, ceremony, owner, clients>>

-----------------------------------------------------------------------------
Abort(r) == tx[r] # NoTx /\ Rollback(r)

Crash ==
    /\ \E r \in Request : tx[r] # NoTx
    /\ tx' = [r \in Request |-> NoTx]
    /\ UNCHANGED <<now, rows, clients>>

Tick ==
    /\ now < MaxTime
    /\ now' = now + 1
    /\ UNCHANGED <<rows, clients, tx>>

Registering(r) ==
    \/ \E u \in UserId : BeginRegistration(r, u)
    \/ \E ack \in BOOLEAN : CommitBeginRegistration(r, ack)
    \/ \E s \in Session, c \in Credential : FinishRegistration(r, s, c)
    \/ StorePasskey(r) \/ PasskeyRefused(r) \/ CommitRegistration(r)

LoggingIn(r) ==
    \/ \E u \in UserId : BeginLogin(r, u)
    \/ \E ack \in BOOLEAN : OpenLogin(r, ack)
    \/ NoPasskeys(r)
    \/ \E a \in answers : FinishLogin(r, a)
    \/ ValidateLogin(r) \/ LoginRefused(r) \/ UpdatePasskey(r) \/ CommitLogin(r)

Next ==
    \/ \E r \in Request : SetHandle(r) \/ ReadUser(r) \/ Registering(r) \/ LoggingIn(r) \/ Abort(r)
    \/ \E s \in Session : CreatePasskey(s) \/ \E c \in Credential : Sign(s, c)
    \/ Crash
    \/ Tick

Spec == Init /\ [][Next]_vars

\* A request in flight keeps running; the waiters of a row are served in turn.
Fairness == \A r \in Request :
    /\ WF_vars(\E ack \in BOOLEAN : CommitBeginRegistration(r, ack) \/ OpenLogin(r, ack))
    /\ WF_vars(NoPasskeys(r) \/ ReadUser(r) \/ CommitRegistration(r) \/ ValidateLogin(r)
               \/ LoginRefused(r) \/ CommitLogin(r))
    /\ SF_vars(SetHandle(r) \/ StorePasskey(r) \/ PasskeyRefused(r) \/ UpdatePasskey(r))
FairSpec == Spec /\ Fairness

-----------------------------------------------------------------------------
(* Properties                                                              *)

TypeOK ==
    /\ now \in Nat
    /\ handle \in [UserId -> Handle \cup {Nil}]
    /\ ceremony \in [Session -> Ceremony]
    /\ open \subseteq Session
    /\ owner \in [Credential -> UserId \cup {Nil}]
    /\ counter \in [Credential -> Nat]
    /\ audit \in [Event -> Nat]
    /\ device \in [Credential -> [session : Session \cup {Nil}, handle : Handle \cup {Nil},
                                  count : 0..MaxCounter]]
    /\ answers \subseteq Answer
    /\ known \subseteq Session
    /\ \A r \in Request :
         /\ tx[r].stage \in Stage
         /\ tx[r].user \in UserId \cup {Nil} /\ tx[r].handle \in Handle \cup {Nil}
         /\ tx[r].session \in Session \cup {Nil} /\ tx[r].passkey \in Credential \cup {Nil}

\* A passkey is registered at most once, for the user whose ceremony created it, and
\* the audit log says so exactly once, even when its finish request is sent again
\* while the first still runs (FinishWebAuthnRegistration, credential_id UNIQUE).
PasskeyRegisteredOnce ==
    \A c \in Credential :
      /\ audit[<<"auth.webauthn.register", c>>] = IF owner[c] = Nil THEN 0 ELSE 1
      /\ owner[c] # Nil => owner[c] = ceremony[device[c].session].user

\* The handle of a user is settled once it is set and no begin that found none still runs.
\* Then it is pinned: no later ceremony, of whatever kind and however many at once, replaces
\* the value the authenticators keep (ensureWebAuthnUserHandle).
Unsettled(r) == tx[r].op \in {"begin_registration", "begin_login"} /\ tx[r].stage \in {"read", "locked"}
Settled(u) == handle[u] # Nil /\ \A r \in Request : Unsettled(r) => tx[r].user # u
SettledHandlePinned ==
    [][\A u \in UserId : Settled(u) => Settled(u)' /\ handle'[u] = handle[u]]_vars

\* A login that passed its check is one of the user who registered the passkey, through a
\* ceremony that offered it, and the counter it is about to store is one the authenticator
\* has reached: whatever other requests commit between its reads and its commit, a second
\* finish of the same answer included (FinishWebAuthnLogin).
LoginIsOwners ==
    /\ \A r \in Request :
         tx[r].op = "finish_login" /\ tx[r].stage \in {"ready", "locked"} =>
           /\ tx[r].user = ceremony[tx[r].session].user
           /\ tx[r].user = owner[tx[r].passkey]
           /\ tx[r].user = ceremony[device[tx[r].passkey].session].user
           /\ tx[r].passkey \in ceremony[tx[r].session].allowed
           /\ device[tx[r].passkey].handle = ceremony[tx[r].session].handle
           /\ tx[r].count <= device[tx[r].passkey].count
    /\ \A c \in Credential : counter[c] <= device[c].count

\* A ceremony that has lost its handle stays refused: the handle it was begun with is
\* not the user's any more and no request will bring it back.
Stale(s) == ceremony[s] # NoCeremony /\ handle[ceremony[s].user] # ceremony[s].handle
StaleStaysStale == [][\A s \in Session : Stale(s) => Stale(s)']_vars

\* A finish request finds its user's handle set: the ensureWebAuthnUserHandle inside
\* webAuthnUserFromModel has nothing to write there and locks no user row.
FinishesFindHandle ==
    \A r \in Request : tx[r].op \in {"finish_registration", "finish_login"} =>
        /\ handle[tx[r].user] # Nil
        /\ tx[r].stage # "read" => tx[r].handle # Nil

\* Every request ends: a finish request that waited for the same passkey is let
\* through or refused.
EveryRequestEnds == \A r \in Request : tx[r] # NoTx ~> tx[r] = NoTx

\* "The server generates and pins a random user handle" (PROGRESS.md): once a user
\* has a handle it never changes (ensureWebAuthnUserHandle).
HandlePinned == [][\A u \in UserId : handle[u] # Nil => handle'[u] = handle[u]]_vars

\* "POST /v1/auth/webauthn/register/begin|finish" (PROGRESS.md): a begin answers with a
\* ceremony that a finish can still end (newWebAuthnManager, BeginWebAuthnRegistration).
CeremonyCanFinish == [][\A s \in known' \ known : now <= ceremony'[s].expires]_vars

\* Without deadlines every ceremony is born expired: no finish request gets past the check
\* of expires_at, so nobody ever registers a passkey or logs in with one.
NothingFinishes ==
    /\ \A r \in Request : tx[r].op \notin {"finish_registration", "finish_login"}
    /\ \A c \in Credential : owner[c] = Nil
=============================================================================
