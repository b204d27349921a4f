----------------------------- MODULE TotpProofs ------------------------------
(***************************************************************************)
(* Proofs about Totp, for any number of requests and secrets and any clock *)
(* and period: what the early read of a handler is still worth when its    *)
(* transaction commits, because a secret that came in between is in the    *)
(* histories and the row is locked between a write and its commit; and     *)
(* what the window of codes promises.                                      *)
(***************************************************************************)
EXTENDS Totp, TLAPS

\* One transaction at a time holds the row, and holds it as it found it.
RowHeld ==
    /\ \A q, r \in Request : tx[q].stage = "written" /\ tx[r].stage = "written" => q = r
    /\ \A r \in Request : tx[r].op = "auth.totp.enable" /\ tx[r].stage = "written" => secret # Nil
    /\ \A r \in Request : tx[r].op = "auth.totp.setup" => tx[r].secret \in drawn
    /\ enabled => secret # Nil

Enables(r, stages) == tx[r].op = "auth.totp.enable" /\ tx[r].stage \in stages

\* What an enable has read is still stored, or is overtaken; once its code is verified, and
\* once it is through, what is stored was confirmed or came in between.
Confirmed ==
    /\ enabled \/ (\E r \in Request : Enables(r, {"checked", "written"})) =>
         secret \in confirmed \cup overtaken \cup {Nil}
    /\ \A r \in Request : Enables(r, {"read"}) =>
         secret \in overtaken \cup {tx[r].secret, Nil}

Tx == [op : Action \cup {"none"}, stage : Stage, code : Code \cup {NoCode},
       secret : Secret \cup {Nil}]
Histories == confirmed \subseteq Secret /\ overtaken \subseteq Secret \cup {Nil}
StoreOK ==
    /\ now \in 0..MaxTime
    /\ secret \in Secret \cup {Nil}
    /\ enabled \in BOOLEAN
    /\ audit \in [Action -> Nat]
    /\ drawn \subseteq Secret /\ delivered \subseteq drawn
    /\ tx \in [Request -> Tx]
\* Requests that confirm have a code of a secret, and no further stages.
Coded == \A r \in Request : tx[r].op = "auth.totp.enable" =>
    tx[r].code \in Code /\ tx[r].stage \in {"read", "checked", "written"}

Stored == StoreOK /\ Coded /\ RowHeld
IInv == Stored /\ Histories /\ Confirmed

-----------------------------------------------------------------------------
(* The store: the part that the histories do not enter                     *)

LEMMA NoTxIsTx == NoTx \in Tx /\ NoTx.op = "none" /\ NoTx.stage = "idle"
BY DEF NoTx, Tx, Stage

\* What a request writes into its own transaction, short of the lock of the row.
LEMMA WorkKeeps ==
    ASSUME Stored, NEW r \in Request, NEW x \in Tx, Work(r, x),
           x.op = "auth.totp.enable" => /\ x.code \in Code
                                        /\ x.stage \in {"read", "checked", "written"},
           x.op = "auth.totp.setup" => x.secret \in drawn,
           x.stage = "written" => /\ \A q \in Request \ {r} : tx[q].stage # "written"
                                  /\ x.op = "auth.totp.enable" => secret # Nil
    PROVE  Stored'
<1>1. /\ tx' = [tx EXCEPT ![r] = x]
      /\ UNCHANGED <<now, secret, enabled, audit, drawn, delivered>>
  BY DEF Work, store, row
<1>2. StoreOK'
  BY <1>1 DEF Stored, StoreOK
<1>3. \A q \in Request : tx'[q] = IF q = r THEN x ELSE tx[q]
  BY <1>1 DEF Stored, StoreOK
<1>4. Coded' /\ RowHeld'
  BY <1>1, <1>3 DEF Stored, Coded, RowHeld
<1> QED
  BY <1>2, <1>4 DEF Stored

LEMMA RollbackKeeps == ASSUME Stored, NEW r \in Request, Rollback(r) PROVE Stored'
BY WorkKeeps, NoTxIsTx DEF Rollback

LEMMA ReadKeeps == ASSUME Stored, NEW r \in Request, NEW op \in Action \ {"auth.totp.setup"},
                          NEW code \in Code, Read(r, op, code)
                   PROVE  Stored'
<1> DEFINE x == [op |-> op, stage |-> "read", code |-> code, secret |-> secret]
<1>1. x \in Tx
  BY DEF Tx, Stage, Stored, StoreOK
<1>2. Work(r, x)
  BY DEF Read
<1>3. x.op = op /\ x.stage = "read" /\ x.code = code
  OBVIOUS
<1> HIDE DEF x
<1> QED
  BY <1>1, <1>2, <1>3, WorkKeeps

\* A commit of r, once it has decided about the row.
LEMMA CommitKeeps ==
    ASSUME Stored, NEW r \in Request, tx[r].op \in Action, End(r),
           secret' \in Secret \cup {Nil}, enabled' \in BOOLEAN,
           delivered' \subseteq drawn,
           enabled' => secret' # Nil,
           secret' # secret => tx[r].stage = "written"
    PROVE  Stored'
<1>1. audit' = [audit EXCEPT ![tx[r].op] = @ + 1] /\ tx' = [tx EXCEPT ![r] = NoTx]
      /\ now' = now /\ drawn' = drawn
  BY DEF End
<1>2. StoreOK'
  BY <1>1, NoTxIsTx DEF Stored, StoreOK
<1>3. \A q \in Request : tx'[q] = IF q = r THEN NoTx ELSE tx[q]
  BY <1>1 DEF Stored, StoreOK
<1>4. Coded'
  BY <1>3, NoTxIsTx DEF Stored, Coded
<1>5. RowHeld'
  BY <1>1, <1>3, NoTxIsTx DEF Stored, RowHeld
<1> QED
  BY <1>2, <1>4, <1>5 DEF Stored

LEMMA StoredInductive == ASSUME Stored, Step \/ UNCHANGED vars PROVE Stored'
<1> USE TotpAssumption
<1> DEFINE Only(r) == \A q \in Request \ {r} : tx[q].stage # "written"
<1>1. ASSUME NEW r \in Request, Setup(r) PROVE Stored'
  <2>1. PICK s \in Secret \ drawn :
          /\ drawn' = drawn \cup {s}
          /\ tx' = [tx EXCEPT ![r] = [NoTx EXCEPT !.op = "auth.totp.setup",
                                                  !.stage = "begun", !.secret = s]]
    BY <1>1 DEF Setup
  <2> DEFINE x == [NoTx EXCEPT !.op = "auth.totp.setup", !.stage = "begun", !.secret = s]
  <2>2. x \in Tx
    BY DEF NoTx, Tx, Action, Stage
  <2>3. tx' = [tx EXCEPT ![r] = x]
    BY <2>1
  <2>4. UNCHANGED <<now, secret, enabled, audit, delivered>>
    BY <1>1 DEF Setup, row
  <2>5. x.op = "auth.totp.setup" /\ x.stage = "begun" /\ x.secret = s
    BY DEF NoTx
  <2> HIDE DEF x
  <2>6. StoreOK'
    BY <2>1, <2>2, <2>3, <2>4 DEF Stored, StoreOK
  <2>7. \A q \in Request : tx'[q] = IF q = r THEN x ELSE tx[q]
    BY <2>3 DEF Stored, StoreOK
  <2> QED
    BY <2>1, <2>4, <2>5, <2>6, <2>7 DEF Stored, Coded, RowHeld
<1>2. ASSUME NEW r \in Request, NEW code \in KnownCode, Enable(r, code) \/ Disable(r, code)
      PROVE  Stored'
  BY <1>2, ReadKeeps DEF Enable, Disable, KnownCode, Action
<1>3. ASSUME NEW r \in Request, NEW code \in KnownCode, Login(r, code) PROVE Stored'
  BY <1>3, ReadKeeps DEF Login, KnownCode, Action
<1>3a. ASSUME NEW r \in Request, LoginWithoutCheck(r) PROVE Stored'
  <2> DEFINE x == [NoTx EXCEPT !.op = "auth.login", !.stage = "checked"]
  <2>1. x \in Tx /\ x.op = "auth.login" /\ x.stage = "checked"
    BY DEF NoTx, Tx, Action, Stage
  <2>2. Work(r, x)
    BY <1>3a DEF LoginWithoutCheck
  <2> HIDE DEF x
  <2> QED
    BY <2>1, <2>2, WorkKeeps
<1>4. ASSUME NEW r \in Request, LockingStatement(r) PROVE Stored'
  <2>1. CASE NoCredential(r)
    BY <2>1, RollbackKeeps DEF NoCredential
  <2>2. CASE ~NoCredential(r)
    <3>1. PICK stage \in {"written", "nothing"} :
            /\ Work(r, [tx[r] EXCEPT !.stage = stage])
            /\ ~RowLocked
            /\ tx[r].op = "auth.totp.enable" => secret # Nil /\ stage = "written"
      BY <1>4, <2>2 DEF LockingStatement, UpsertCredential, EnableCredential, DeleteCredential
    <3> DEFINE x == [tx[r] EXCEPT !.stage = stage]
    <3>2. x \in Tx /\ x.op = tx[r].op /\ x.code = tx[r].code /\ x.secret = tx[r].secret /\ x.stage = stage
      BY DEF Stored, StoreOK, Tx, Stage
    <3>3. Work(r, x) /\ Only(r)
      BY <3>1 DEF RowLocked
    <3> HIDE DEF x
    <3> QED
      BY <3>1, <3>2, <3>3, WorkKeeps DEF Stored, Coded, RowHeld
  <2> QED BY <2>1, <2>2
<1>5. ASSUME NEW r \in Request, Statement(r) PROVE Stored'
  <2>1. CASE \E ack \in BOOLEAN : CommitSetup(r, ack)
    <3>1. tx[r].secret \in drawn /\ drawn \subseteq Secret /\ delivered \subseteq drawn
      BY <2>1 DEF Stored, StoreOK, RowHeld, CommitSetup
    <3> QED
      BY <2>1, <3>1, CommitKeeps DEF CommitSetup, Action
  <2>2. CASE CommitEnable(r)
    <3>1. secret # Nil /\ secret \in Secret \cup {Nil} /\ delivered \subseteq drawn
      BY <2>2 DEF Stored, StoreOK, RowHeld, CommitEnable
    <3> QED
      BY <2>2, <3>1, CommitKeeps DEF CommitEnable, Action
  <2>3. CASE CommitDisable(r)
    <3>1. /\ secret \in Secret \cup {Nil} /\ enabled \in BOOLEAN /\ delivered \subseteq drawn
          /\ enabled => secret # Nil
      BY DEF Stored, StoreOK, RowHeld
    <3> QED
      BY <2>3, <3>1, CommitKeeps DEF CommitDisable, Action
  <2>4. CASE CommitLogin(r)
    <3>1. /\ secret \in Secret \cup {Nil} /\ enabled \in BOOLEAN /\ delivered \subseteq drawn
          /\ enabled => secret # Nil
      BY DEF Stored, StoreOK, RowHeld
    <3> QED
      BY <2>4, <3>1, CommitKeeps DEF CommitLogin, Action, row
  <2>5. CASE Verify(r)
    <3> DEFINE x == [tx[r] EXCEPT !.stage = "checked"]
    <3>1. x \in Tx /\ x.op = tx[r].op /\ x.code = tx[r].code /\ x.secret = tx[r].secret /\ x.stage = "checked"
      BY DEF Stored, StoreOK, Tx, Stage
    <3>2. Work(r, x)
      BY <2>5 DEF Verify
    <3> HIDE DEF x
    <3> QED
      BY <3>1, <3>2, WorkKeeps DEF Stored, Coded, RowHeld
  <2>6. CASE Refuse(r)
    BY <2>6, RollbackKeeps DEF Refuse
  <2> QED
    BY <1>5, <2>1, <2>2, <2>3, <2>4, <2>5, <2>6 DEF Statement
<1>6. ASSUME NEW r \in Request, Abort(r) PROVE Stored'
  BY <1>6, RollbackKeeps DEF Abort
<1>7. CASE Crash
  <2>1. tx' = [r \in Request |-> NoTx] /\ UNCHANGED <<now, secret, enabled, audit, drawn, delivered>>
    BY <1>7 DEF Crash, store, row
  <2> QED
    BY <2>1, NoTxIsTx DEF Stored, StoreOK, Coded, RowHeld
<1>8. CASE Tick
  <2>1. tx' = tx /\ UNCHANGED <<secret, enabled, audit, drawn, delivered>> /\ now' \in 0..MaxTime
    BY <1>8 DEF Tick, store, row, Stored, StoreOK
  <2> QED
    BY <2>1 DEF Stored, StoreOK, Coded, RowHeld
<1>9. CASE UNCHANGED vars
  BY <1>9 DEF vars, store, row, Stored, StoreOK, Coded, RowHeld
<1> QED
  BY <1>1, <1>2, <1>3, <1>3a, <1>4, <1>5, <1>6, <1>7, <1>8, <1>9 DEF Step, Arrive

-----------------------------------------------------------------------------
(* The histories                                                           *)

\* What one step does to an enable: it comes with what is stored, goes on, or confirms.
LEMMA TxStep ==
    ASSUME Stored, Step, NEW r \in Request, tx'[r].op = "auth.totp.enable"
    PROVE  \/ tx'[r].stage = "read" /\ tx'[r].secret = secret /\ UNCHANGED row
           \/ /\ tx[r].op = "auth.totp.enable" /\ tx'[r].secret = tx[r].secret
              /\ tx'[r].stage = "read" <=> tx[r].stage = "read"
           \/ Confirming(r) /\ VerifyCode(r) /\ UNCHANGED row
<1> USE DEF Stored, StoreOK
<1>1. ASSUME NEW q \in Request, NEW x, tx' = [tx EXCEPT ![q] = x]
      PROVE  tx'[q] = x /\ (r # q => tx'[r] = tx[r])
  BY <1>1
<1>2. ASSUME NEW q \in Request, Setup(q) PROVE r # q /\ tx'[r] = tx[r]
  <2>1. PICK s \in Secret \ drawn :
          tx' = [tx EXCEPT ![q] = [NoTx EXCEPT !.op = "auth.totp.setup", !.stage = "begun", !.secret = s]]
    BY <1>2 DEF Setup
  <2> DEFINE x == [NoTx EXCEPT !.op = "auth.totp.setup", !.stage = "begun", !.secret = s]
  <2>2. tx' = [tx EXCEPT ![q] = x] /\ x.op = "auth.totp.setup"
    BY <2>1 DEF NoTx
  <2> HIDE DEF x
  <2> QED BY <2>2, <1>1
<1>3. ASSUME NEW q \in Request, NEW op, NEW code, Read(q, op, code)
      PROVE  /\ tx'[q].stage = "read" /\ tx'[q].secret = secret /\ UNCHANGED row
             /\ r # q => tx'[r] = tx[r]
  BY <1>1, <1>3 DEF Read, Work, store
<1>4. ASSUME NEW q \in Request, LoginWithoutCheck(q) PROVE r # q /\ tx'[r] = tx[r]
  <2> DEFINE x == [NoTx EXCEPT !.op = "auth.login", !.stage = "checked"]
  <2>1. tx' = [tx EXCEPT ![q] = x] /\ x.op = "auth.login"
    BY <1>4 DEF LoginWithoutCheck, Work, NoTx
  <2> HIDE DEF x
  <2> QED BY <2>1, <1>1
<1>5. ASSUME NEW q \in Request, Verify(q)
      PROVE  /\ tx'[q].op = tx[q].op /\ tx[q].stage = "read" /\ tx'[q].stage = "checked"
             /\ VerifyCode(q) /\ UNCHANGED row
             /\ r # q => tx'[r] = tx[r]
  BY <1>1, <1>5 DEF Verify, Work, Tx, store
<1>6. ASSUME NEW q \in Request, LockingStatement(q), r = q
      PROVE  /\ tx[r].op = "auth.totp.enable" /\ tx'[r].secret = tx[r].secret
             /\ tx'[r].stage # "read" /\ tx[r].stage # "read"
  <2>1. ~NoCredential(q)
    BY <1>6, <1>1, NoTxIsTx DEF NoCredential, Rollback, Work
  <2>2. PICK stage \in {"written", "nothing"} :
          Work(q, [tx[q] EXCEPT !.stage = stage]) /\ tx[q].stage # "read"
    BY <1>6, <2>1 DEF LockingStatement, UpsertCredential, EnableCredential, DeleteCredential
  <2> QED
    BY <1>6, <2>2 DEF Work, Tx
<1>7. ASSUME NEW q \in Request, LockingStatement(q), r # q PROVE tx'[r] = tx[r]
  BY <1>7 DEF LockingStatement, UpsertCredential, EnableCredential, NoCredential,
              DeleteCredential, Rollback, Work
<1>8. ASSUME NEW q \in Request, Statement(q) \/ Abort(q), ~Verify(q)
      PROVE  r # q /\ tx'[r] = tx[r]
  <2>1. tx' = [tx EXCEPT ![q] = NoTx]
    BY <1>8 DEF Statement, Abort, CommitSetup, CommitEnable, CommitDisable, CommitLogin,
                Refuse, End, Rollback, Work
  <2> QED BY <2>1, <1>1, NoTxIsTx
<1>9. ~Crash
  BY NoTxIsTx DEF Crash
<1>10. CASE Tick
  BY <1>10 DEF Tick
<1>11. ASSUME NEW q \in Request, Arrive(q)
       PROVE  \/ tx'[r] = tx[r]
              \/ tx'[r].stage = "read" /\ tx'[r].secret = secret /\ UNCHANGED row
  BY <1>11, <1>2, <1>3, <1>4 DEF Arrive, Enable, Disable, Login
<1>12. ASSUME NEW q \in Request, Verify(q)
       PROVE  tx'[r] = tx[r] \/ (Confirming(r) /\ VerifyCode(r) /\ UNCHANGED row)
  BY <1>12, <1>5 DEF Confirming
<1> QED
  BY <1>6, <1>7, <1>8, <1>9, <1>10, <1>11, <1>12 DEF Step

\* What one step does to the row: it is enabled by an enable that holds it, and a new secret
\* is off.
LEMMA RowStep == ASSUME Stored, Step
                 PROVE  /\ enabled' => enabled \/ \E r \in Request : Enables(r, {"written"})
                        /\ secret' # secret => ~enabled'
<1>1. ASSUME NEW r \in Request, Arrive(r) PROVE UNCHANGED row
  <2>1. CASE Setup(r) BY <2>1 DEF Setup
  <2>2. CASE ~Setup(r)
    BY <1>1, <2>2 DEF Arrive, Enable, Disable, Login, LoginWithoutCheck, Read, Work, store
  <2> QED BY <2>1, <2>2
<1>2. ASSUME NEW r \in Request, LockingStatement(r) \/ Abort(r) PROVE UNCHANGED row
  BY <1>2 DEF LockingStatement, Abort, UpsertCredential, EnableCredential, NoCredential,
              DeleteCredential, Rollback, Work, store
<1>3. ASSUME NEW r \in Request, Statement(r)
      PROVE  /\ enabled' => enabled \/ Enables(r, {"written"})
             /\ secret' # secret => ~enabled'
  <2>1. CASE \E ack \in BOOLEAN : CommitSetup(r, ack) BY <2>1 DEF CommitSetup
  <2>2. CASE CommitEnable(r) BY <2>2 DEF CommitEnable, Enables
  <2>3. CASE CommitDisable(r) BY <2>3 DEF CommitDisable
  <2>4. CASE CommitLogin(r) BY <2>4 DEF CommitLogin, row
  <2>5. CASE Verify(r) \/ Refuse(r) BY <2>5 DEF Verify, Refuse, Rollback, Work, store, row
  <2> QED BY <1>3, <2>1, <2>2, <2>3, <2>4, <2>5 DEF Statement
<1>4. CASE Crash \/ Tick
  BY <1>4 DEF Crash, Tick, store, row
<1> QED
  BY <1>1, <1>2, <1>3, <1>4 DEF Step, row

LEMMA ConfirmedInductive == ASSUME IInv, Step, Witness, Stored' PROVE Confirmed' /\ Histories'
<1>1. /\ confirmed' = confirmed \cup {tx[r].code.secret : r \in {q \in Request : Confirming(q)}}
      /\ overtaken \subseteq overtaken' /\ overtaken' \subseteq overtaken \cup {secret'}
      /\ secret' # secret /\ (\E r \in Request : tx[r].op = "auth.totp.enable") =>
           secret' \in overtaken'
  BY DEF Witness
<1>2. Histories'
  <2>1. \A r \in Request : Confirming(r) => tx[r].code.secret \in Secret
    BY DEF IInv, Stored, Coded, Code, Confirming
  <2> QED
    BY <1>1, <2>1 DEF IInv, Histories, Stored, StoreOK
<1>3. ASSUME NEW r \in Request, Enables(r, {"read"})'
      PROVE  secret' \in overtaken' \cup {tx'[r].secret, Nil}
  <2>1. CASE tx'[r].secret = secret /\ UNCHANGED row
    BY <2>1 DEF row
  <2>2. CASE /\ tx[r].op = "auth.totp.enable" /\ tx'[r].secret = tx[r].secret
             /\ tx[r].stage = "read"
    BY <1>1, <2>2 DEF IInv, Confirmed, Enables
  <2> QED
    BY <1>3, <2>1, <2>2, TxStep DEF IInv, Enables, Confirming
<1>4. ASSUME NEW r \in Request, Enables(r, {"checked", "written"})'
      PROVE  secret' \in confirmed' \cup overtaken' \cup {Nil}
  <2>1. CASE tx[r].op = "auth.totp.enable" /\ tx[r].stage # "read"
    <3>1. Enables(r, {"checked", "written"})
      BY <2>1 DEF IInv, Stored, Coded, Enables
    <3> QED
      BY <1>1, <2>1, <3>1 DEF IInv, Confirmed
  <2>2. CASE Confirming(r) /\ VerifyCode(r) /\ UNCHANGED row
    <3>1. tx[r].secret \in confirmed'
      BY <1>1, <2>2 DEF VerifyCode
    <3>2. secret \in overtaken \cup {tx[r].secret, Nil}
      BY <2>2 DEF IInv, Confirmed, Enables, Confirming
    <3> QED
      BY <1>1, <2>2, <3>1, <3>2 DEF row
  <2> QED
    BY <1>4, <2>1, <2>2, TxStep DEF IInv, Enables
<1>5. ASSUME enabled' PROVE secret' \in confirmed' \cup overtaken' \cup {Nil}
  BY <1>1, <1>5, RowStep DEF IInv, Confirmed, Enables
<1> QED
  BY <1>2, <1>3, <1>4, <1>5 DEF Confirmed

LEMMA Initially == Init => IInv
<1> SUFFICES ASSUME Init PROVE IInv
  OBVIOUS
<1>1. \A r \in Request : tx[r].op = "none" /\ tx[r].stage = "idle"
  BY NoTxIsTx DEF Init
<1>2. StoreOK
  <2>1. now \in 0..MaxTime /\ secret = Nil /\ enabled = FALSE /\ drawn = {} /\ delivered = {}
    BY TotpAssumption DEF Init
  <2>2. audit \in [Action -> Nat]
    BY DEF Init
  <2>3. tx \in [Request -> Tx]
    BY NoTxIsTx DEF Init
  <2> QED
    BY <2>1, <2>2, <2>3 DEF StoreOK
<1>3. enabled = FALSE /\ confirmed = {} /\ overtaken = {}
  BY DEF Init
<1>4. Coded /\ RowHeld
  BY <1>1, <1>3 DEF Coded, RowHeld
<1>5. Histories /\ Confirmed
  BY <1>1, <1>3 DEF Histories, Confirmed, Enables
<1> QED
  BY <1>2, <1>4, <1>5 DEF IInv, Stored

LEMMA Inductive == IInv /\ [Next]_vars => IInv'
<1> SUFFICES ASSUME IInv, [Next]_vars PROVE IInv'
  OBVIOUS
<1>1. Stored'
  BY StoredInductive DEF Next, IInv
<1>2. CASE Step /\ Witness
  BY <1>1, <1>2, ConfirmedInductive DEF IInv
<1>3. CASE UNCHANGED vars
  <2>1. UNCHANGED <<secret, enabled, tx, confirmed, overtaken>>
    BY <1>3 DEF vars, store, row
  <2> QED
    BY <1>1, <2>1 DEF IInv, Histories, Confirmed, Enables
<1> QED
  BY <1>2, <1>3 DEF Next

LEMMA Safe == Spec => []IInv
BY Initially, Inductive, PTL DEF Spec

-----------------------------------------------------------------------------
(* The arithmetic of the window                                            *)

LEMMA Division == ASSUME NEW t \in Nat, NEW P \in Nat \ {0}
                  PROVE  t \div P \in Nat /\ P * (t \div P) <= t /\ t < P * (t \div P) + P
OBVIOUS

LEMMA Multiples == ASSUME NEW P \in Nat, NEW c \in Int, NEW n \in Int, NEW k \in Int, n + k <= c
                   PROVE  P * n + P * k <= P * c
<1>1. P * (n + k) <= P * c
  OBVIOUS
<1>2. P * (n + k) = P * n + P * k
  OBVIOUS
<1> QED BY <1>1, <1>2

\* Periods of two instants are neighbours if the instants are a period apart, and only if they
\* are less than two.
LEMMA Neighbours ==
    ASSUME NEW t \in Nat, NEW u \in Nat, NEW P \in Nat \ {0}
    PROVE  /\ t - u \in (-P)..P => t \div P - u \div P \in -1..1
           /\ t \div P - u \div P \in -1..1 => t - u \in (1 - 2 * P)..(2 * P - 1)
<1> DEFINE c == t \div P
           n == u \div P
<1>1. /\ c \in Nat /\ P * c <= t /\ t < P * c + P
      /\ n \in Nat /\ P * n <= u /\ u < P * n + P
  BY Division
<1> HIDE DEF c, n
<1>2. P * n \in Nat /\ P * c \in Nat
  BY <1>1
<1>3. n + 2 <= c => P * n + P * 2 <= P * c
  BY <1>1, Multiples
<1>4. c + 2 <= n => P * c + P * 2 <= P * n
  BY <1>1, Multiples
<1>5. t - u \in (-P)..P => c - n \in -1..1
  BY <1>1, <1>2, <1>3, <1>4
<1>6. c - n \in -1..1 => P * c <= P * n + P /\ P * n <= P * c + P
  <2>1. c - n \in -1..1 => c = n \/ c + 1 = n \/ n + 1 = c
    BY <1>1
  <2>2. P * (c + 1) = P * c + P /\ P * (n + 1) = P * n + P
    BY <1>1
  <2> QED
    BY <1>2, <2>1, <2>2
<1>7. c - n \in -1..1 => t - u \in (1 - 2 * P)..(2 * P - 1)
  BY <1>1, <1>2, <1>6
<1> QED
  BY <1>5, <1>7 DEF c, n

-----------------------------------------------------------------------------
(* The theorems                                                            *)

\* Types; in particular clients know only secrets that were generated.
THEOREM TypeCorrect == Spec => []TypeOK
<1>1. IInv => TypeOK
  BY DEF IInv, Stored, StoreOK, Histories, TypeOK, Tx
<1> QED BY Safe, <1>1, PTL

\* What is enabled was confirmed by a code, or was set up while a confirmation was under way:
\* no other race, crash or lost response locks a user out (SetupTOTP, EnableTOTP).
THEOREM OnlyConfirmedEnabled == Spec => []EnabledIsConfirmed
<1>1. IInv => EnabledIsConfirmed
  BY DEF IInv, Stored, RowHeld, Confirmed, EnabledIsConfirmed
<1> QED BY Safe, <1>1, PTL

\* The window of codes keeps its promises at every instant a check reads the clock, for every
\* length of the period: it holds each code of a clock at most one period off, and none of a
\* clock two periods off (VerifyCode).
THEOREM WindowIsRight == Spec => []WindowHolds
<1> DEFINE Holds(r, t) ==
      /\ t - now \in (-Period)..Period => InWindow(tx[r].code.period)
      /\ InWindow(tx[r].code.period) => t - now \in (1 - 2 * Period)..(2 * Period - 1)
<1>1. ASSUME IInv, NEW r \in Request, NEW t \in 0..(MaxTime + Period), ShownAt(r, t)
      PROVE  Holds(r, t)
  <2>1. /\ now \in Nat /\ t \in Nat /\ Period \in Nat \ {0}
        /\ tx[r].code.period = t \div Period
    BY <1>1, TotpAssumption DEF IInv, Stored, StoreOK, ShownAt
  <2>2. /\ t - now \in (-Period)..Period => t \div Period - now \div Period \in -1..1
        /\ t \div Period - now \div Period \in -1..1 =>
             t - now \in (1 - 2 * Period)..(2 * Period - 1)
    BY <2>1, Neighbours
  <2>3. t \div Period \in Int /\ now \div Period \in Int
    BY <2>1, Division
  <2>4. InWindow(tx[r].code.period) <=> t \div Period - now \div Period \in -1..1
    BY <2>1, <2>3 DEF InWindow
  <2> QED
    BY <2>2, <2>4
<1>2. IInv => WindowHolds
  BY <1>1 DEF WindowHolds
<1> QED BY Safe, <1>2, PTL

\* The row changes only together with the audit row that tells of it (the transactions of
\* SetupTOTP, EnableTOTP and DisableTOTP).
THEOREM AuditTellsRow == Spec => RowTellsAudit
<1> DEFINE Told ==
      /\ enabled' => secret' # Nil
      /\ ~enabled /\ enabled' => audit'["auth.totp.enable"] = audit["auth.totp.enable"] + 1
      /\ secret' # secret \/ (enabled /\ ~enabled') =>
           \E a \in {"auth.totp.setup", "auth.totp.disable"} : audit'[a] = audit[a] + 1
<1>1. ASSUME IInv, Step PROVE Told
  <2>1. enabled' => secret' # Nil
    BY <1>1, StoredInductive DEF IInv, Stored, RowHeld
  <2>2. CASE UNCHANGED row
    BY <2>1, <2>2, <1>1 DEF row, IInv, Stored, StoreOK
  <2>3. ASSUME NEW r \in Request, Statement(r) PROVE Told
    <3>1. audit \in [Action -> Nat] /\ enabled \in BOOLEAN
      BY <1>1 DEF IInv, Stored, StoreOK
    <3>2. CASE \E ack \in BOOLEAN : CommitSetup(r, ack)
      BY <2>1, <3>1, <3>2 DEF CommitSetup, End, Action
    <3>3. CASE CommitEnable(r)
      BY <2>1, <3>1, <3>3 DEF CommitEnable, End, Action
    <3>4. CASE CommitDisable(r)
      BY <2>1, <3>1, <3>4 DEF CommitDisable, End, Action
    <3>5. CASE CommitLogin(r)
      BY <2>2, <3>5 DEF CommitLogin
    <3>6. CASE Verify(r) \/ Refuse(r)
      BY <2>2, <3>6 DEF Verify, Refuse, Rollback, Work, store
    <3> QED BY <2>3, <3>2, <3>3, <3>4, <3>5, <3>6 DEF Statement
  <2>4. ASSUME NEW r \in Request, Arrive(r) \/ LockingStatement(r) \/ Abort(r)
        PROVE  UNCHANGED row
    <3>1. CASE Setup(r) BY <3>1 DEF Setup
    <3>2. CASE ~Setup(r)
      BY <2>4, <3>2 DEF Arrive, Enable, Disable, Login, LoginWithoutCheck, Read, LockingStatement, Abort,
         UpsertCredential, EnableCredential, NoCredential, DeleteCredential, Rollback, Work, store
    <3> QED BY <3>1, <3>2
  <2>5. CASE Crash \/ Tick
    BY <2>2, <2>5 DEF Crash, Tick, store
  <2> QED
    BY <1>1, <2>2, <2>3, <2>4, <2>5 DEF Step
<1>2. IInv /\ [Next]_vars => [Told]_vars
  BY <1>1 DEF Next
<1> QED
  BY Safe, <1>2, PTL DEF Spec, RowTellsAudit
==============================================================================
