-------------------------------- MODULE Totp --------------------------------
(***************************************************************************)
(* Two-factor codes: SetupTOTP, EnableTOTP, DisableTOTP and the check of   *)
(* Login in internal/auth/service.go, for the one row of                   *)
(* user_totp_credentials that a user has.  Rows of other users never meet  *)
(* it, so one user is enough.                                              *)
(*                                                                         *)
(* Enable, Disable and Login read the row, then the clock, and verify the  *)
(* client's code with both before they open a transaction; what they write *)
(* later names the user only, not the secret they verified.                *)
(***************************************************************************)
EXTENDS Integers, FiniteSets

CONSTANTS
    Secret,     \* TOTP secrets, random
    Request,    \* requests of the user that may run at a time
    Period,     \* totpPeriod, in seconds
    MaxTime,    \* bound on the clock
    MaxAudit,   \* MaxAudit[a]: bound on the audit rows of action a
    Nil

Action == {"auth.totp.setup", "auth.totp.enable", "auth.totp.disable", "auth.login"}

ASSUME TotpAssumption ==
    /\ Nil \notin Secret
    /\ Period \in Nat \ {0}
    /\ MaxTime \in Nat /\ MaxAudit \in [Action -> Nat]

VARIABLES
    now,        \* the wall clock, in seconds
    secret,     \* the decrypted secret of the row, Nil if there is no row
    enabled,    \* enabled_at is set
    audit,      \* audit[a]: how many audit_logs rows record action a
    drawn,      \* secrets that were generated
    delivered,  \* secrets the user has received and can compute codes of
    tx,         \* tx[r]: request r
    confirmed,  \* history: secrets a code of which an enable request verified
    overtaken   \* history: secrets stored while an enable request was running

row == <<secret, enabled>>
store == <<row, audit, drawn, delivered>>
vars == <<now, store, tx, confirmed, overtaken>>

\* A code is known by the secret and the period it was computed for.
LastPeriod == MaxTime \div Period + 1
Code == [secret : Secret, period : 0..LastPeriod]
NoCode == [secret |-> Nil, period |-> 0]

\* "read" has read the row, "checked" has verified its code, "written" holds the lock of
\* the row, "nothing" has deleted no row and locks nothing.  "secret" is what a setup
\* stores and what a check has read.
Stage == {"idle", "begun", "read", "checked", "written", "nothing"}
NoTx == [op |-> "none", stage |-> "idle", code |-> NoCode, secret |-> Nil]

Init ==
    /\ now = 0
    /\ secret = Nil
    /\ enabled = FALSE
    /\ audit = [a \in Action |-> 0]
    /\ drawn = {}
    /\ delivered = {}
    /\ tx = [r \in Request |-> NoTx]
    /\ confirmed = {}
    /\ overtaken = {}

\* The histories only watch.
Confirming(r) ==
    tx[r].op = "auth.totp.enable" /\ tx[r].stage = "read" /\ tx'[r].stage = "checked"
Witness ==
    /\ confirmed' = confirmed \cup {tx[r].code.secret : r \in {q \in Request : Confirming(q)}}
    /\ overtaken' = IF /\ secret' # secret
                       /\ \E r \in Request : tx[r].op = "auth.totp.enable"
                    THEN overtaken \cup {secret'} ELSE overtaken

\* Bound: action a is recorded only MaxAudit[a] times.
Budget(op) == audit[op] + Cardinality({r \in Request : tx[r].op = op}) < MaxAudit[op]

Work(r, x) == tx' = [tx EXCEPT ![r] = x] /\ UNCHANGED <<now, store>>
Rollback(r) == Work(r, NoTx)

End(r) ==
    /\ audit' = [audit EXCEPT ![tx[r].op] = @ + 1]
    /\ tx' = [tx EXCEPT ![r] = NoTx]
    /\ UNCHANGED <<now, drawn>>

RowLocked == \E q \in Request : tx[q].stage = "written"

-----------------------------------------------------------------------------
(* SetupTOTP: a new secret overwrites the row and turns the check off.     *)

Setup(r) ==
    /\ tx[r] = NoTx
    /\ Budget("auth.totp.setup")
    /\ \E s \in Secret \ drawn :
         /\ drawn' = drawn \cup {s}
         /\ tx' = [tx EXCEPT ![r] = [NoTx EXCEPT !.op = "auth.totp.setup",
                                                 !.stage = "begun", !.secret = s]]
    /\ UNCHANGED <<now, row, audit, delivered>>

UpsertCredential(r) ==
    /\ tx[r].op = "auth.totp.setup" /\ tx[r].stage = "begun"
    /\ ~RowLocked
    /\ Work(r, [tx[r] EXCEPT !.stage = "written"])

\* Mutant: the conflict clause forgets enabled_at.
CommitSetupKeepsEnabled(r, ack) ==
    /\ tx[r].op = "auth.totp.setup" /\ tx[r].stage = "written"
    /\ secret' = tx[r].secret
    /\ delivered' = IF ack THEN delivered \cup {tx[r].secret} ELSE delivered
    /\ End(r)
    /\ UNCHANGED enabled

\* ack tells whether the response with the secret arrives.
CommitSetup(r, ack) ==
    /\ tx[r].op = "auth.totp.setup" /\ tx[r].stage = "written"
    /\ secret' = tx[r].secret
    /\ enabled' = FALSE
    /\ delivered' = IF ack THEN delivered \cup {tx[r].secret} ELSE delivered
    /\ End(r)

-----------------------------------------------------------------------------
(* The checks: the row is read, and after it the clock.                    *)

Read(r, op, code) ==
    /\ tx[r] = NoTx
    /\ Budget(op)
    /\ Work(r, [op |-> op, stage |-> "read", code |-> code, secret |-> secret])

Enable(r, code) == secret # Nil /\ Read(r, "auth.totp.enable", code)
Disable(r, code) == secret # Nil /\ enabled /\ Read(r, "auth.totp.disable", code)

\* verifyTOTPIfEnabled: with an enabled row a login needs a code, without one any code,
\* or none, will do.
Login(r, code) == enabled /\ Read(r, "auth.login", code)
LoginWithoutCheck(r) ==
    /\ ~enabled
    /\ tx[r] = NoTx
    /\ Budget("auth.login")
    /\ Work(r, [NoTx EXCEPT !.op = "auth.login", !.stage = "checked"])

\* Mutant: the window ends with the current period.
InPastWindow(period) == \E offset \in {-1, 0} : period = now \div Period + offset

\* The client's clock may be off.  Counters below zero are skipped: no code has one.
InWindow(period) == \E offset \in {-1, 0, 1} : period = now \div Period + offset

VerifyCode(r) == tx[r].code.secret = tx[r].secret /\ InWindow(tx[r].code.period)

Verify(r) ==
    /\ tx[r].stage = "read"
    /\ VerifyCode(r)
    /\ Work(r, [tx[r] EXCEPT !.stage = "checked"])
Refuse(r) ==
    /\ tx[r].stage = "read"
    /\ ~VerifyCode(r)
    /\ Rollback(r)

-----------------------------------------------------------------------------
(* The writes: they wait for the lock of the row and find it as it is then. *)

EnableCredential(r) ==
    /\ tx[r].op = "auth.totp.enable" /\ tx[r].stage = "checked"
    /\ ~RowLocked
    /\ secret # Nil
    /\ Work(r, [tx[r] EXCEPT !.stage = "written"])

\* Mutant: the update is tried until a row is there.
WaitForCredential(r) ==
    /\ tx[r].op = "auth.totp.enable" /\ tx[r].stage = "checked"
    /\ ~RowLocked
    /\ secret = Nil
    /\ Work(r, tx[r])

\* The row is gone: an error, and the rollback.
NoCredential(r) ==
    /\ tx[r].op = "auth.totp.enable" /\ tx[r].stage = "checked"
    /\ ~RowLocked
    /\ secret = Nil
    /\ Rollback(r)

CommitEnable(r) ==
    /\ tx[r].op = "auth.totp.enable" /\ tx[r].stage = "written"
    /\ enabled' = TRUE
    /\ End(r)
    /\ UNCHANGED <<secret, delivered>>

\* Mutant: the DELETE runs on the pool, not in the transaction.
DeleteOutsideTx(r) ==
    /\ tx[r].op = "auth.totp.disable" /\ tx[r].stage = "checked"
    /\ ~RowLocked
    /\ secret' = Nil
    /\ enabled' = FALSE
    /\ tx' = [tx EXCEPT ![r].stage = "nothing"]
    /\ UNCHANGED <<now, audit, drawn, delivered>>

\* A DELETE that finds no row is no error.
DeleteCredential(r) ==
    /\ tx[r].op = "auth.totp.disable" /\ tx[r].stage = "checked"
    /\ ~RowLocked
    /\ Work(r, [tx[r] EXCEPT !.stage = IF secret = Nil THEN "nothing" ELSE "written"])

CommitDisable(r) ==
    /\ tx[r].op = "auth.totp.disable" /\ tx[r].stage \in {"written", "nothing"}
    /\ secret' = IF tx[r].stage = "written" THEN Nil ELSE secret
    /\ enabled' = IF tx[r].stage = "written" THEN FALSE ELSE enabled
    /\ End(r)
    /\ UNCHANGED delivered

\* The session is issued as in Sessions.
CommitLogin(r) ==
    /\ tx[r].op = "auth.login" /\ tx[r].stage = "checked"
    /\ End(r)
    /\ UNCHANGED <<row, delivered>>

-----------------------------------------------------------------------------
Abort(r) == tx[r] # NoTx /\ Rollback(r)

Crash ==
    /\ \E r \in Request : tx[r] # NoTx
    /\ tx' = [r \in Request |-> NoTx]
    /\ UNCHANGED <<now, store>>

Tick ==
    /\ now < MaxTime
    /\ now' = now + 1
    /\ UNCHANGED <<store, tx>>

\* A client can only compute codes of secrets it received.
KnownCode == {code \in Code : code.secret \in delivered}

Arrive(r) ==
    \/ Setup(r)
    \/ \E code \in KnownCode : Enable(r, code) \/ Disable(r, code)
    \/ \E code \in KnownCode : Login(r, code)
    \/ LoginWithoutCheck(r)

Statement(r) ==
    \/ Verify(r) \/ Refuse(r)
    \/ \E ack \in BOOLEAN : CommitSetup(r, ack)
    \/ CommitEnable(r) \/ CommitDisable(r) \/ CommitLogin(r)

LockingStatement(r) ==
    \/ UpsertCredential(r)
    \/ EnableCredential(r)
    \/ NoCredential(r)
    \/ DeleteCredential(r)

Step ==
    \/ \E r \in Request : Arrive(r) \/ Statement(r) \/ LockingStatement(r) \/ Abort(r)
    \/ Crash
    \/ Tick

Next == Step /\ Witness

Spec == Init /\ [][Next]_vars

\* A request in flight keeps running; the waiters of a row are served in turn.
Fairness == \A r \in Request :
    WF_vars(Statement(r) /\ Witness) /\ SF_vars(LockingStatement(r) /\ Witness)
FairSpec == Spec /\ Fairness

-----------------------------------------------------------------------------
(* Properties                                                              *)

TypeOK ==
    /\ now \in 0..MaxTime
    /\ secret \in Secret \cup {Nil}
    /\ enabled \in BOOLEAN
    /\ audit \in [Action -> Nat]
    /\ drawn \subseteq Secret /\ delivered \subseteq drawn
    /\ tx \in [Request -> [op : Action \cup {"none"}, stage : Stage,
                           code : Code \cup {NoCode}, secret : Secret \cup {Nil}]]
    /\ confirmed \subseteq Secret /\ overtaken \subseteq Secret \cup {Nil}

\* Codes are demanded only for a secret the user has proved to have: an enabled
\* secret was confirmed by a code, unless the user ran a second setup while the
\* confirmation of the first was still under way; no lost response, crash, repeated
\* setup or finished race can enable an unconfirmed one (SetupTOTP, EnableTOTP).
EnabledIsConfirmed == enabled => secret \in confirmed \cup overtaken

\* The window keeps its two promises whenever a check reads the clock, however long after
\* the request came: a code shown by a clock that is no more than one period off is in it,
\* and a code in it was shown by a clock less than two periods off, at the edges of
\* periods, too (VerifyCode in totp.go).
ShownAt(r, t) == tx[r].stage = "read" /\ tx[r].code.period = t \div Period
WindowHolds ==
    \A r \in Request, t \in 0..(MaxTime + Period) : ShownAt(r, t) =>
      /\ t - now \in (-Period)..Period => InWindow(tx[r].code.period)
      /\ InWindow(tx[r].code.period) => t - now \in (1 - 2 * Period)..(2 * Period - 1)

\* The check is demanded only where there is a secret to check against, and it is
\* turned on and off, and a secret is stored and deleted, only in a step that writes
\* the audit row of just that (the transactions of SetupTOTP, EnableTOTP, DisableTOTP).
RowTellsAudit ==
    [][/\ enabled' => secret' # Nil
       /\ ~enabled /\ enabled' => audit'["auth.totp.enable"] = audit["auth.totp.enable"] + 1
       /\ secret' # secret \/ (enabled /\ ~enabled') => \E a \in {"auth.totp.setup", "auth.totp.disable"} :
            audit'[a] = audit[a] + 1]_vars

\* Every request ends, also an enable whose row a disable has deleted meanwhile.
EveryRequestEnds == \A r \in Request : tx[r] # NoTx ~> tx[r] = NoTx
=============================================================================
