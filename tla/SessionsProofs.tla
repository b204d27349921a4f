--------------------------- MODULE SessionsProofs ---------------------------
(***************************************************************************)
(* Proofs about Sessions, for any sets of rows, requests and spellings and *)
(* any bound on the clock.                                                 *)
(*                                                                         *)
(* The inductive invariant SessionInv is proved in four layers: types and  *)
(* the shape of transactions, the unique keys, the token table, and what   *)
(* counts rows of whole tables: registrations and live tokens.             *)
(***************************************************************************)
EXTENDS Sessions, FiniteSetTheorems, TLAPS

Typed == TypeOK /\ TxShape

-----------------------------------------------------------------------------
(* Layer 1: types and shapes.                                              *)

LEMMA NoTxType == NoTx \in Transaction
BY DEF NoTx, Transaction, Stage

\* A statement of r's transaction keeps the types if the transaction is typed.
LEMMA WorkType ==
    ASSUME TypeOK, NEW r \in Request, NEW x \in Transaction, Work(r, x)
    PROVE  TypeOK'
BY DEF TypeOK, Work, accountVars, tokenVars

LEMMA RollbackTyped ==
    ASSUME Typed, NEW r \in Request, Rollback(r)
    PROVE  Typed'
<1>1. TypeOK'
  BY NoTxType DEF Typed, TypeOK, Rollback, accountVars, tokenVars
<1>2. TxShape'
  <2>1. tx' = [tx EXCEPT ![r] = NoTx] /\ tx \in [Request -> Transaction]
    BY DEF Rollback, Typed, TypeOK
  <2> QED BY <2>1 DEF Typed, TxShape, NoTx
<1> QED BY <1>1, <1>2 DEF Typed

\* A commit stores the token, counts the audit row and ends the transaction.
LEMMA CommitType ==
    ASSUME Typed, NEW r \in Request, NEW ack \in BOOLEAN, NEW e \in Event,
           tx[r].new \in Token, tx[r].user \in UserId,
           StoreToken(r), End(r, ack, e)
    PROVE  /\ user_id' \in [Token -> UserId \cup {Nil}]
           /\ expires_at' \in [Token -> Nat]
           /\ audit' \in [Event -> Nat]
           /\ delivered' \subseteq Token
           /\ tx' \in [Request -> Transaction]
           /\ now' \in Nat
           /\ revoked' \subseteq Token
           /\ TxShape'
<1>1. tx[r] \in Transaction /\ tx[r].expires \in Nat
  BY DEF Typed, TypeOK, Transaction
<1>2. user_id' \in [Token -> UserId \cup {Nil}] /\ expires_at' \in [Token -> Nat]
  BY <1>1 DEF StoreToken, Typed, TypeOK
<1>3. audit' \in [Event -> Nat]
  BY DEF End, Typed, TypeOK
<1>4. tx' = [tx EXCEPT ![r] = NoTx] /\ tx \in [Request -> Transaction]
  BY DEF End, Typed, TypeOK
<1>5. TxShape'
  BY <1>4 DEF Typed, TxShape, NoTx
<1> QED BY <1>2, <1>3, <1>4, <1>5, NoTxType DEF End, Typed, TypeOK

\* What a request that issued its session has in hand.
LEMMA IssuedShape ==
    ASSUME Typed, NEW r \in Request, tx[r].stage \in {"issued", "rotated"}
    PROVE  /\ tx[r].new \in Token
           /\ tx[r].user \in UserId
           /\ tx[r].op = "register" => tx[r].org \in OrgId /\ tx[r].slug \in Slug
                                       /\ tx[r].email \in Email
           /\ tx[r].op = "refresh" => tx[r].old \in Token
<1>1. tx[r] \in Transaction
  BY DEF Typed, TypeOK
<1> QED BY <1>1 DEF Typed, TxShape, Transaction

LEMMA TypedInit == Init => Typed
BY NoTxType DEF Init, Typed, TypeOK, TxShape, NoTx

LEMMA TypedStep == Typed /\ [Next]_vars => Typed'
<1> SUFFICES ASSUME Typed, [Next]_vars PROVE Typed'
  OBVIOUS
<1>a. /\ \A r \in Request : tx[r] \in Transaction
      /\ tx \in [Request -> Transaction]
  BY DEF Typed, TypeOK
<1>1. ASSUME NEW r \in Request, NEW e \in RawEmail, NEW s \in RawSlug,
             BeginRegister(r, e, s)
      PROVE  Typed'
  <2> DEFINE x == [NoTx EXCEPT !.op = "register", !.stage = "begun",
                               !.email = CanonicalEmail[e], !.slug = CanonicalSlug[s]]
  <2>1. CanonicalEmail[e] \in Email /\ CanonicalSlug[s] \in Slug
    BY NormalisationAssumption
  <2>2. x \in Transaction
    BY <2>1 DEF Transaction, NoTx, Stage
  <2>3. Work(r, x) /\ tx' = [tx EXCEPT ![r] = x]
    BY <1>1 DEF BeginRegister, Work
  <2>4. TxShape'
    BY <1>a, <2>1, <2>3, NilAssumption DEF Typed, TxShape, NoTx
  <2> QED BY <2>2, <2>3, <2>4, WorkType DEF Typed
<1>2. ASSUME NEW r \in Request, NEW u \in UserId, Login(r, u)
      PROVE  Typed'
  <2> DEFINE x == [NoTx EXCEPT !.op = "login", !.stage = "ready", !.user = u]
  <2>1. x \in Transaction
    BY DEF Transaction, NoTx, Stage
  <2>2. Work(r, x) /\ tx' = [tx EXCEPT ![r] = x]
    BY <1>2 DEF Login, Work
  <2>3. TxShape'
    BY <1>a, <2>2, NilAssumption DEF Typed, TxShape, NoTx
  <2> QED BY <2>1, <2>2, <2>3, WorkType DEF Typed
<1>3. ASSUME NEW r \in Request, NEW t \in Token, RefreshCheck(r, t)
      PROVE  Typed'
  <2> DEFINE x == [NoTx EXCEPT !.op = "refresh", !.stage = "ready",
                               !.user = user_id[t], !.old = t]
  <2>1. user_id[t] \in UserId
    BY <1>3 DEF RefreshCheck, Typed, TypeOK
  <2>2. x \in Transaction
    BY <2>1 DEF Transaction, NoTx, Stage
  <2>3. Work(r, x) /\ tx' = [tx EXCEPT ![r] = x]
    BY <1>3 DEF RefreshCheck, Work
  <2>4. TxShape'
    BY <1>a, <2>1, <2>3, NilAssumption DEF Typed, TxShape, NoTx
  <2> QED BY <2>2, <2>3, <2>4, WorkType DEF Typed
<1>4. ASSUME NEW r \in Request, IssueSession(r)
      PROVE  Typed'
  <2> PICK t \in Token : Work(r, [tx[r] EXCEPT !.stage = "issued", !.new = t,
                                               !.expires = now + RefreshTTL])
    BY <1>4 DEF IssueSession
  <2> DEFINE x == [tx[r] EXCEPT !.stage = "issued", !.new = t,
                                !.expires = now + RefreshTTL]
  <2>1. now + RefreshTTL \in Nat
    BY TimeAssumption DEF Typed, TypeOK
  <2>2. x \in Transaction
    BY <1>a, <2>1 DEF Transaction, Stage
  <2>3. tx' = [tx EXCEPT ![r] = x] /\ tx[r].stage = "ready"
    BY <1>4 DEF Work, IssueSession
  <2>4. TxShape'
    BY <1>a, <2>3, NilAssumption DEF Typed, TxShape, Transaction, NoTx
  <2> QED BY <2>2, <2>4, WorkType DEF Typed
<1>5. ASSUME NEW r \in Request, InsertUser(r)
      PROVE  Typed'
  <2> PICK u \in UserId : Work(r, [tx[r] EXCEPT !.stage = "user", !.user = u])
    BY <1>5 DEF InsertUser
  <2> DEFINE x == [tx[r] EXCEPT !.stage = "user", !.user = u]
  <2>1. x \in Transaction
    BY <1>a DEF Transaction, Stage
  <2>2. tx' = [tx EXCEPT ![r] = x] /\ tx[r].stage = "begun" /\ tx[r].op = "register"
    BY <1>5 DEF Work, InsertUser
  <2>3. TxShape'
    BY <1>a, <2>2, NilAssumption DEF Typed, TxShape, Transaction
  <2> QED BY <2>1, <2>3, WorkType DEF Typed
<1>6. ASSUME NEW r \in Request, InsertOrganization(r)
      PROVE  Typed'
  <2> PICK o \in OrgId : Work(r, [tx[r] EXCEPT !.stage = "ready", !.org = o])
    BY <1>6 DEF InsertOrganization
  <2> DEFINE x == [tx[r] EXCEPT !.stage = "ready", !.org = o]
  <2>1. x \in Transaction
    BY <1>a DEF Transaction, Stage
  <2>2. tx' = [tx EXCEPT ![r] = x] /\ tx[r].stage = "user" /\ tx[r].op = "register"
    BY <1>6 DEF Work, InsertOrganization
  <2>3. TxShape'
    BY <1>a, <2>2, NilAssumption DEF Typed, TxShape, Transaction
  <2> QED BY <2>1, <2>3, WorkType DEF Typed
<1>7. ASSUME NEW r \in Request, RotateAuthRefreshToken(r)
      PROVE  Typed'
  <2> DEFINE x == [tx[r] EXCEPT !.stage = "rotated"]
  <2>1. x \in Transaction
    BY <1>a DEF Transaction, Stage
  <2>2. /\ Work(r, x) /\ tx' = [tx EXCEPT ![r] = x]
        /\ tx[r].stage = "issued" /\ tx[r].op = "refresh"
    BY <1>7 DEF Work, RotateAuthRefreshToken
  <2>3. TxShape'
    BY <1>a, <2>2, NilAssumption DEF Typed, TxShape, Transaction
  <2> QED BY <2>1, <2>2, <2>3, WorkType DEF Typed
<1>8. ASSUME NEW r \in Request,
             EmailTaken(r) \/ SlugTaken(r) \/ RotateFindsNoRow(r) \/ Abort(r)
      PROVE  Typed'
  BY <1>8, RollbackTyped DEF EmailTaken, SlugTaken, RotateFindsNoRow, Abort
<1>9. ASSUME NEW r \in Request, NEW ack \in BOOLEAN, CommitRegister(r, ack)
      PROVE  Typed'
  <2>1. <<"auth.register", tx[r].user>> \in Event
    BY <1>9, IssuedShape DEF CommitRegister, Event
  <2>2. /\ users' \in [UserId -> Email \cup {Nil}]
        /\ orgs' \in [OrgId -> Slug \cup {Nil}]
        /\ memberships' \subseteq OrgId \X UserId
    BY <1>9, IssuedShape DEF CommitRegister, Typed, TypeOK
  <2>3. used' = used /\ replaced_by' = replaced_by
    BY <1>9 DEF CommitRegister
  <2> QED BY <1>9, <2>1, <2>2, <2>3, IssuedShape, CommitType DEF CommitRegister, Typed, TypeOK
<1>10. ASSUME NEW r \in Request, NEW ack \in BOOLEAN, CommitLogin(r, ack)
       PROVE  Typed'
  <2>1. <<"auth.login", tx[r].user>> \in Event
    BY <1>10, IssuedShape DEF CommitLogin, Event
  <2> QED BY <1>10, <2>1, IssuedShape, CommitType
          DEF CommitLogin, Typed, TypeOK, accountVars
<1>11. ASSUME NEW r \in Request, NEW ack \in BOOLEAN, CommitRefresh(r, ack)
       PROVE  Typed'
  <2>1. <<"auth.refresh", tx[r].old>> \in Event
    BY <1>11, IssuedShape DEF CommitRefresh, Event
  <2>2. used' \subseteq Token /\ replaced_by' \in [Token -> Token \cup {Nil}]
    BY <1>11, IssuedShape DEF CommitRefresh, Typed, TypeOK
  <2> QED BY <1>11, <2>1, <2>2, IssuedShape, CommitType
          DEF CommitRefresh, Typed, TypeOK, accountVars
<1>12. CASE Crash
  <2>1. TypeOK'
    BY <1>12, NoTxType DEF Crash, Typed, TypeOK, accountVars, tokenVars
  <2>2. TxShape'
    BY <1>12 DEF Crash, TxShape, NoTx
  <2> QED BY <2>1, <2>2 DEF Typed
<1>13. ASSUME NEW t \in Token, RevokeAuthRefreshToken(t)
       PROVE  Typed'
  BY <1>13 DEF RevokeAuthRefreshToken, Typed, TypeOK, TxShape, accountVars
<1>14. CASE Tick
  BY <1>14 DEF Tick, Typed, TypeOK, TxShape, accountVars, tokenVars
<1>15. CASE UNCHANGED vars
  BY <1>15 DEF vars, Typed, TypeOK, TxShape, accountVars, tokenVars
<1> QED
  BY <1>1, <1>2, <1>3, <1>4, <1>5, <1>6, <1>7, <1>8, <1>9, <1>10, <1>11, <1>12,
     <1>13, <1>14, <1>15
  DEF Next, Arrive, Statement, LockingStatement

LEMMA TypedAlways == Spec => []Typed
BY TypedInit, TypedStep, PTL DEF Spec

\* The program's state always has its type: rows, columns and transactions hold
\* only values of the right kind.
THEOREM TypeCorrect == Spec => []TypeOK
<1>1. Typed => TypeOK
  BY DEF Typed
<1> QED BY <1>1, TypedAlways, PTL

-----------------------------------------------------------------------------
(* Layer 2: the unique keys.                                               *)

\* A step that commits no account and inserts no key keeps the keys unique.
LEMMA AccountsKept ==
    ASSUME Typed, Typed', AccountInv, users' = users, orgs' = orgs,
           \A q \in Request :
             \/ tx'[q].op # "register"
             \/ tx'[q].user = Nil /\ tx'[q].org = Nil
             \/ /\ tx'[q].op = tx[q].op /\ tx'[q].user = tx[q].user /\ tx'[q].email = tx[q].email
                /\ tx'[q].org = tx[q].org /\ tx'[q].slug = tx[q].slug
    PROVE  AccountInv'
<1>1. \A q \in Request : tx'[q].op # "register" => tx'[q].email = Nil /\ tx'[q].slug = Nil
  BY DEF Typed, TxShape
<1>2. UniqueAccounts'
  BY DEF AccountInv, UniqueAccounts
<1>3. ASSUME NEW r \in Request, tx'[r].op = "register", tx'[r].user # Nil
      PROVE  /\ \A u \in UserId : users'[u] # tx'[r].email
             /\ \A q \in Request : q # r /\ tx'[q].user # Nil => tx'[q].email # tx'[r].email
  <2>1. tx'[r].email # Nil
    BY <1>3 DEF Typed, TxShape
  <2> QED BY <1>1, <1>3, <2>1 DEF AccountInv, Typed, TxShape
<1>4. ASSUME NEW r \in Request, tx'[r].op = "register", tx'[r].org # Nil
      PROVE  /\ \A o \in OrgId : orgs'[o] # tx'[r].slug
             /\ \A q \in Request : q # r /\ tx'[q].org # Nil => tx'[q].slug # tx'[r].slug
  <2>1. tx'[r].slug # Nil /\ tx'[r].user # Nil
    BY <1>4 DEF Typed, TxShape
  <2> QED BY <1>1, <1>4, <2>1 DEF AccountInv, Typed, TxShape
<1> QED BY <1>2, <1>3, <1>4 DEF AccountInv

LEMMA AccountStep == Typed /\ AccountInv /\ [Next]_vars => AccountInv'
<1> SUFFICES ASSUME Typed, AccountInv, [Next]_vars PROVE AccountInv'
  OBVIOUS
<1>a. Typed'
  BY TypedStep
<1>b. tx \in [Request -> Transaction] /\ \A r \in Request : tx[r] \in Transaction
  BY DEF Typed, TypeOK
<1>1. ASSUME NEW r \in Request, InsertUser(r)
      PROVE  AccountInv'
  <2> PICK u \in UserId : Work(r, [tx[r] EXCEPT !.stage = "user", !.user = u])
    BY <1>1 DEF InsertUser
  <2>1. /\ tx' = [tx EXCEPT ![r] = [tx[r] EXCEPT !.stage = "user", !.user = u]]
        /\ users' = users /\ orgs' = orgs
    BY DEF Work, accountVars
  <2>2. /\ tx'[r].email = tx[r].email /\ tx'[r].op = "register" /\ tx'[r].org = Nil
        /\ \A q \in Request : q # r => tx'[q] = tx[q]
    BY <1>1, <1>b, <2>1 DEF InsertUser, Typed, TxShape, Transaction
  <2>3. /\ \A v \in UserId : users[v] # tx[r].email
        /\ \A q \in Request : q # r /\ tx[q].user # Nil => tx[q].email # tx[r].email
    BY <1>1 DEF InsertUser, EmailClaimed
  <2>4. UniqueAccounts'
    BY <2>1 DEF AccountInv, UniqueAccounts
  <2> QED BY <2>1, <2>2, <2>3, <2>4 DEF AccountInv
<1>2. ASSUME NEW r \in Request, InsertOrganization(r)
      PROVE  AccountInv'
  <2> PICK o \in OrgId : Work(r, [tx[r] EXCEPT !.stage = "ready", !.org = o])
    BY <1>2 DEF InsertOrganization
  <2>1. /\ tx' = [tx EXCEPT ![r] = [tx[r] EXCEPT !.stage = "ready", !.org = o]]
        /\ users' = users /\ orgs' = orgs
    BY DEF Work, accountVars
  <2>2. /\ tx'[r].slug = tx[r].slug /\ tx'[r].email = tx[r].email /\ tx'[r].user = tx[r].user
        /\ tx[r].op = "register" /\ tx'[r].op = tx[r].op
        /\ \A q \in Request : q # r => tx'[q] = tx[q]
    BY <1>2, <1>b, <2>1 DEF InsertOrganization, Transaction
  <2>3. /\ \A p \in OrgId : orgs[p] # tx[r].slug
        /\ \A q \in Request : q # r /\ tx[q].org # Nil => tx[q].slug # tx[r].slug
    BY <1>2 DEF InsertOrganization, SlugClaimed
  <2>4. UniqueAccounts'
    BY <2>1 DEF AccountInv, UniqueAccounts
  <2> QED BY <2>1, <2>2, <2>3, <2>4 DEF AccountInv
<1>3. ASSUME NEW r \in Request, NEW ack \in BOOLEAN, CommitRegister(r, ack)
      PROVE  AccountInv'
  <2>1. /\ tx' = [tx EXCEPT ![r] = NoTx]
        /\ users' = [users EXCEPT ![tx[r].user] = tx[r].email]
        /\ orgs' = [orgs EXCEPT ![tx[r].org] = tx[r].slug]
    BY <1>3 DEF CommitRegister, End
  <2>2. tx'[r] = NoTx /\ \A q \in Request : q # r => tx'[q] = tx[q]
    BY <1>b, <2>1
  <2>3. tx[r].user # Nil /\ tx[r].org # Nil /\ tx[r].op = "register"
    BY <1>3 DEF CommitRegister, Typed, TxShape
  <2>4. users \in [UserId -> Email \cup {Nil}] /\ orgs \in [OrgId -> Slug \cup {Nil}]
    BY DEF Typed, TypeOK
  <2>5. UniqueAccounts'
    BY <2>1, <2>3, <2>4 DEF AccountInv, UniqueAccounts
  <2>6. ASSUME NEW q \in Request, tx'[q].op = "register", tx'[q].user # Nil
        PROVE  /\ \A u \in UserId : users'[u] # tx'[q].email
               /\ \A p \in Request : p # q /\ tx'[p].user # Nil => tx'[p].email # tx'[q].email
    <3>1. q # r /\ tx'[q] = tx[q]
      BY <2>2, <2>6 DEF NoTx
    <3>2. tx[q].email # tx[r].email
      BY <2>3, <2>6, <3>1 DEF AccountInv
    <3> QED BY <2>1, <2>2, <2>4, <2>6, <3>1, <3>2 DEF AccountInv, NoTx
  <2>7. ASSUME NEW q \in Request, tx'[q].op = "register", tx'[q].org # Nil
        PROVE  /\ \A o \in OrgId : orgs'[o] # tx'[q].slug
               /\ \A p \in Request : p # q /\ tx'[p].org # Nil => tx'[p].slug # tx'[q].slug
    <3>1. q # r /\ tx'[q] = tx[q]
      BY <2>2, <2>7 DEF NoTx
    <3>2. tx[q].slug # tx[r].slug
      BY <2>3, <2>7, <3>1 DEF AccountInv
    <3> QED BY <2>1, <2>2, <2>4, <2>7, <3>1, <3>2 DEF AccountInv, NoTx
  <2> QED BY <2>5, <2>6, <2>7 DEF AccountInv
<1>4. ASSUME NEW r \in Request,
             \/ IssueSession(r) \/ RotateAuthRefreshToken(r)
             \/ EmailTaken(r) \/ SlugTaken(r) \/ RotateFindsNoRow(r) \/ Abort(r)
      PROVE  AccountInv'
  <2>1. users' = users /\ orgs' = orgs
    BY <1>4 DEF IssueSession, RotateAuthRefreshToken, EmailTaken, SlugTaken,
                RotateFindsNoRow, Abort, Work, Rollback, accountVars
  <2>2. \/ tx' = [tx EXCEPT ![r] = NoTx]
        \/ \E t \in Token :
             tx' = [tx EXCEPT ![r] = [tx[r] EXCEPT !.stage = "issued", !.new = t,
                                                   !.expires = now + RefreshTTL]]
        \/ tx' = [tx EXCEPT ![r] = [tx[r] EXCEPT !.stage = "rotated"]]
    BY <1>4 DEF IssueSession, RotateAuthRefreshToken, EmailTaken, SlugTaken,
                RotateFindsNoRow, Abort, Work, Rollback
  <2>3. \A q \in Request :
          \/ tx'[q].op # "register"
          \/ /\ tx'[q].op = tx[q].op /\ tx'[q].user = tx[q].user /\ tx'[q].email = tx[q].email
             /\ tx'[q].org = tx[q].org /\ tx'[q].slug = tx[q].slug
    <3>1. CASE tx' = [tx EXCEPT ![r] = NoTx]
      BY <1>b, <3>1 DEF NoTx
    <3>2. CASE tx' = [tx EXCEPT ![r] = [tx[r] EXCEPT !.stage = "rotated"]]
      BY <1>b, <3>2 DEF Transaction
    <3>3. ASSUME NEW t \in Token, NEW e,
                 tx' = [tx EXCEPT ![r] = [tx[r] EXCEPT !.stage = "issued", !.new = t,
                                                       !.expires = e]]
          PROVE  \A q \in Request :
                   /\ tx'[q].op = tx[q].op /\ tx'[q].user = tx[q].user
                   /\ tx'[q].email = tx[q].email
                   /\ tx'[q].org = tx[q].org /\ tx'[q].slug = tx[q].slug
      BY <1>b, <3>3 DEF Transaction
    <3> QED BY <2>2, <3>1, <3>2, <3>3
  <2> QED BY <1>a, <2>1, <2>3, AccountsKept
<1>5. ASSUME NEW r \in Request, NEW e \in RawEmail, NEW s \in RawSlug,
             BeginRegister(r, e, s)
      PROVE  AccountInv'
  <2> DEFINE x == [NoTx EXCEPT !.op = "register", !.stage = "begun",
                               !.email = CanonicalEmail[e], !.slug = CanonicalSlug[s]]
  <2>x. x.user = Nil /\ x.org = Nil
    BY DEF NoTx
  <2>y. tx' = [tx EXCEPT ![r] = x] /\ users' = users /\ orgs' = orgs
    BY <1>5 DEF BeginRegister, Work, accountVars
  <2> HIDE DEF x
  <2>1. /\ users' = users /\ orgs' = orgs
        /\ \A q \in Request : tx'[q] = tx[q] \/ (tx'[q].user = Nil /\ tx'[q].org = Nil)
    BY <1>b, <2>x, <2>y
  <2> QED BY <1>a, <2>1, AccountsKept
<1>6. ASSUME NEW r \in Request,
             \/ \E u \in UserId : Login(r, u)
             \/ \E t \in Token : RefreshCheck(r, t)
             \/ \E ack \in BOOLEAN : CommitLogin(r, ack) \/ CommitRefresh(r, ack)
      PROVE  AccountInv'
  <2>x. users' = users /\ orgs' = orgs
    BY <1>6 DEF Login, RefreshCheck, CommitLogin, CommitRefresh, Work, accountVars
  <2> DEFINE NotRegistering == \E x : tx' = [tx EXCEPT ![r] = x] /\ x.op # "register"
  <2>y. NotRegistering
    <3>1. ASSUME NEW u \in UserId, Login(r, u) PROVE NotRegistering
      <4> DEFINE x == [NoTx EXCEPT !.op = "login", !.stage = "ready", !.user = u]
      <4>1. tx' = [tx EXCEPT ![r] = x] /\ x.op # "register"
        BY <3>1 DEF Login, Work, NoTx
      <4> QED BY <4>1
    <3>2. ASSUME NEW t \in Token, RefreshCheck(r, t) PROVE NotRegistering
      <4> DEFINE x == [NoTx EXCEPT !.op = "refresh", !.stage = "ready",
                                   !.user = user_id[t], !.old = t]
      <4>1. tx' = [tx EXCEPT ![r] = x] /\ x.op # "register"
        BY <3>2 DEF RefreshCheck, Work, NoTx
      <4> QED BY <4>1
    <3>3. CASE \E ack \in BOOLEAN : CommitLogin(r, ack) \/ CommitRefresh(r, ack)
      BY <3>3 DEF CommitLogin, CommitRefresh, End, NoTx
    <3> QED BY <1>6, <3>1, <3>2, <3>3
  <2>1. /\ users' = users /\ orgs' = orgs
        /\ \A q \in Request : tx'[q] = tx[q] \/ tx'[q].op # "register"
    BY <1>b, <2>x, <2>y
  <2> QED BY <1>a, <2>1, AccountsKept
<1>7. CASE Crash
  <2>1. /\ users' = users /\ orgs' = orgs
        /\ \A q \in Request : tx'[q].op # "register"
    BY <1>7 DEF Crash, accountVars, NoTx
  <2> QED BY <1>a, <2>1, AccountsKept
<1>8. CASE (\E t \in Token : RevokeAuthRefreshToken(t)) \/ Tick \/ UNCHANGED vars
  <2>1. users' = users /\ orgs' = orgs /\ tx' = tx
    BY <1>8 DEF RevokeAuthRefreshToken, Tick, vars, accountVars
  <2> QED BY <1>a, <2>1, AccountsKept
<1> QED
  BY <1>1, <1>2, <1>3, <1>4, <1>5, <1>6, <1>7, <1>8
  DEF Next, Arrive, Statement, LockingStatement

LEMMA AccountInvInit == Init => AccountInv
BY DEF Init, AccountInv, UniqueAccounts, NoTx

\* One account per mailbox and one organization per slug, whatever requests race.
THEOREM AccountsUnique == Spec => []UniqueAccounts
<1>1. AccountInv => UniqueAccounts
  BY DEF AccountInv
<1> QED BY <1>1, AccountInvInit, AccountStep, TypedAlways, PTL DEF Spec

-----------------------------------------------------------------------------
(* Layer 3: the token table.                                               *)

\* A statement inside r's transaction keeps the invariant if the new transaction
\* respects the tokens of the others.
LEMMA WorkTokens ==
    ASSUME Typed, TokenInv, NEW r \in Request, NEW x \in Transaction, Work(r, x),
           x.new # Nil =>
             /\ user_id[x.new] = Nil
             /\ x.expires <= now + RefreshTTL
             /\ \A q \in Request \ {r} : tx[q].new # x.new,
           x.op = "login" => users[x.user] # Nil,
           x.op = "refresh" =>
             /\ user_id[x.old] = x.user
             /\ x.new # Nil => x.expires >= expires_at[x.old],
           x.stage = "rotated" =>
             /\ x.old \notin used /\ x.old \notin revoked
             /\ \A q \in Request \ {r} : tx[q].stage = "rotated" => tx[q].old # x.old
    PROVE  TokenInv'
<1>1. /\ user_id' = user_id /\ expires_at' = expires_at /\ used' = used /\ revoked' = revoked
      /\ replaced_by' = replaced_by /\ now' = now /\ users' = users /\ audit' = audit
      /\ delivered' = delivered
  BY DEF Work, accountVars, tokenVars
<1>2. tx'[r] = x /\ \A q \in Request : q # r => tx'[q] = tx[q]
  BY DEF Work, Typed, TypeOK
<1>3. StoredTokens'
  BY <1>1 DEF TokenInv, StoredTokens, RotationChain, RefreshAudited, DeliveredDurable
<1>4. PendingTokens'
  BY <1>1, <1>2 DEF TokenInv, PendingTokens
<1> QED BY <1>3, <1>4 DEF TokenInv

LEMMA RollbackTokens ==
    ASSUME Typed, TokenInv, NEW r \in Request, Rollback(r)
    PROVE  TokenInv'
<1>1. Work(r, NoTx)
  BY DEF Rollback, Work
<1>2. NoTx.new = Nil /\ NoTx.op = "none" /\ NoTx.stage = "idle"
  BY DEF NoTx
<1> QED BY <1>1, <1>2, NoTxType, WorkTokens

\* What the three commits have in common: a new row appears and the transaction
\* is gone.
LEMMA CommitEffect ==
    ASSUME Typed, NEW r \in Request, NEW ack \in BOOLEAN, NEW e \in Event,
           tx[r].stage \in {"issued", "rotated"}, StoreToken(r), End(r, ack, e)
    PROVE  /\ now' = now /\ revoked' = revoked
           /\ user_id'[tx[r].new] = tx[r].user
           /\ expires_at'[tx[r].new] = tx[r].expires
           /\ \A t \in Token : t # tx[r].new =>
                user_id'[t] = user_id[t] /\ expires_at'[t] = expires_at[t]
           /\ tx'[r] = NoTx
           /\ \A q \in Request : q # r => tx'[q] = tx[q]
           /\ delivered' \subseteq delivered \cup {tx[r].new}
           /\ audit'[e] = audit[e] + 1
           /\ \A f \in Event : f # e => audit'[f] = audit[f]
BY IssuedShape DEF Typed, TypeOK, StoreToken, End

\* The pending part after a commit that used the tokens in gone.
LEMMA CommitPending ==
    ASSUME Typed, TokenInv, NEW r \in Request,
           tx[r].stage \in {"issued", "rotated"},
           now' = now, revoked' = revoked,
           used' \subseteq used \cup {tx[r].old},
           tx[r].stage = "issued" => used' = used,
           \A t \in Token : t # tx[r].new =>
             user_id'[t] = user_id[t] /\ expires_at'[t] = expires_at[t],
           \A u \in UserId : users[u] # Nil => users'[u] # Nil,
           tx'[r] = NoTx,
           \A q \in Request : q # r => tx'[q] = tx[q]
    PROVE  PendingTokens'
<1> SUFFICES ASSUME NEW q \in Request
             PROVE  /\ tx'[q].new # Nil =>
                         /\ user_id'[tx'[q].new] = Nil
                         /\ tx'[q].expires <= now' + RefreshTTL
                         /\ \A p \in Request : tx'[p].new = tx'[q].new => p = q
                    /\ tx'[q].op = "login" => users'[tx'[q].user] # Nil
                    /\ tx'[q].op = "refresh" =>
                         /\ user_id'[tx'[q].old] = tx'[q].user
                         /\ tx'[q].new # Nil => tx'[q].expires >= expires_at'[tx'[q].old]
                    /\ tx'[q].stage = "rotated" =>
                         /\ tx'[q].old \notin used' /\ tx'[q].old \notin revoked'
                         /\ \A p \in Request :
                              tx'[p].stage = "rotated" /\ tx'[p].old = tx'[q].old => p = q
  BY DEF PendingTokens
<1>1. CASE q = r
  BY <1>1 DEF NoTx
<1>2. CASE q # r
  <2>1. tx'[q] = tx[q] /\ tx[q] \in Transaction
    BY <1>2 DEF Typed, TypeOK
  <2>2. tx[r].new \in Token /\ user_id[tx[r].new] = Nil
    BY IssuedShape, NilAssumption DEF TokenInv, PendingTokens
  <2>3. tx[q].new # Nil => tx[q].new \in Token /\ tx[q].new # tx[r].new
    BY <1>2, <2>1, <2>2 DEF Transaction, TokenInv, PendingTokens
  <2>4. tx[q].new # Nil =>
          /\ user_id'[tx'[q].new] = Nil
          /\ tx'[q].expires <= now' + RefreshTTL
          /\ \A p \in Request : tx'[p].new = tx'[q].new => p = q
    BY <1>2, <2>1, <2>3 DEF TokenInv, PendingTokens, NoTx
  <2>5. tx[q].op = "login" => users'[tx'[q].user] # Nil
    BY <2>1 DEF TokenInv, PendingTokens, Typed, TxShape, Transaction
  <2>6. tx[q].op = "refresh" =>
          /\ tx[q].old \in Token /\ tx[q].user # Nil /\ tx[q].old # tx[r].new
          /\ user_id'[tx'[q].old] = tx'[q].user
          /\ tx'[q].new # Nil => tx'[q].expires >= expires_at'[tx'[q].old]
    BY <2>1, <2>2 DEF TokenInv, PendingTokens, Typed, TxShape, Transaction
  <2>7. tx[q].stage = "rotated" =>
          /\ tx'[q].old \notin used' /\ tx'[q].old \notin revoked'
          /\ \A p \in Request :
               tx'[p].stage = "rotated" /\ tx'[p].old = tx'[q].old => p = q
    <3>1. CASE tx[r].stage = "issued"
      BY <1>2, <2>1, <3>1 DEF TokenInv, PendingTokens, NoTx
    <3>2. CASE tx[r].stage = "rotated"
      BY <1>2, <2>1, <3>2 DEF TokenInv, PendingTokens, NoTx
    <3> QED BY <3>1, <3>2
  <2> QED BY <2>1, <2>4, <2>5, <2>6, <2>7
<1> QED BY <1>1, <1>2

\* The stored part after a commit that rotates nothing.
LEMMA OpenStored ==
    ASSUME Typed, TokenInv, NEW r \in Request, NEW ack \in BOOLEAN, NEW e \in Event,
           tx[r].stage = "issued", StoreToken(r), End(r, ack, e),
           e \notin {"auth.refresh"} \X Token,
           used' = used, replaced_by' = replaced_by,
           \A u \in UserId : users[u] # Nil => users'[u] # Nil,
           users'[tx[r].user] # Nil
    PROVE  StoredTokens'
<1> DEFINE n == tx[r].new
<1>1. /\ n \in Token /\ user_id[n] = Nil /\ tx[r].user \in UserId
      /\ tx[r].expires <= now + RefreshTTL
  BY IssuedShape, NilAssumption DEF TokenInv, PendingTokens
<1>2. /\ now' = now /\ revoked' = revoked
      /\ user_id'[n] = tx[r].user /\ expires_at'[n] = tx[r].expires
      /\ \A t \in Token : t # n =>
           user_id'[t] = user_id[t] /\ expires_at'[t] = expires_at[t]
      /\ delivered' \subseteq delivered \cup {n}
      /\ \A f \in Event : f # e => audit'[f] = audit[f]
  BY CommitEffect
<1>3. user_id \in [Token -> UserId \cup {Nil}] /\ used \subseteq Token /\ delivered \subseteq Token
      /\ replaced_by \in [Token -> Token \cup {Nil}]
  BY DEF Typed, TypeOK
<1>4. \A t \in used : t # n /\ replaced_by[t] # n /\ replaced_by[t] \in Token
  BY <1>1, <1>3, NilAssumption DEF TokenInv, StoredTokens, RotationChain
<1>5. RotationChain'
  BY <1>2, <1>3, <1>4 DEF TokenInv, StoredTokens, RotationChain
<1>6. RefreshAudited'
  <2>1. ASSUME NEW t \in Token PROVE audit'[<<"auth.refresh", t>>] = audit[<<"auth.refresh", t>>]
    <3>1. <<"auth.refresh", t>> \in Event /\ <<"auth.refresh", t>> # e
      BY DEF Event
    <3> QED BY <1>2, <3>1
  <2> QED BY <2>1 DEF TokenInv, StoredTokens, RefreshAudited
<1>7. DeliveredDurable'
  BY <1>1, <1>2, <1>3 DEF TokenInv, StoredTokens, DeliveredDurable
<1>8. /\ (\A t \in Token : user_id[t] = Nil => t \notin revoked)'
      /\ (\A t \in Token : user_id[t] # Nil =>
           expires_at[t] <= now + RefreshTTL /\ users[user_id[t]] # Nil)'
  BY <1>1, <1>2, <1>3 DEF TokenInv, StoredTokens
<1> QED BY <1>5, <1>6, <1>7, <1>8 DEF StoredTokens

\* The stored part after a rotation.
LEMMA RotateStored ==
    ASSUME Typed, TokenInv, NEW r \in Request, NEW ack \in BOOLEAN, CommitRefresh(r, ack)
    PROVE  StoredTokens'
<1> DEFINE n == tx[r].new
           o == tx[r].old
           e == <<"auth.refresh", tx[r].old>>
<1>0. tx[r].op = "refresh" /\ tx[r].stage = "rotated"
  BY DEF CommitRefresh
<1>1. /\ n \in Token /\ o \in Token /\ user_id[n] = Nil /\ tx[r].user \in UserId
      /\ n # Nil /\ n # o
      /\ tx[r].expires <= now + RefreshTTL
      /\ user_id[o] = tx[r].user /\ tx[r].expires >= expires_at[o]
      /\ o \notin used
  BY <1>0, IssuedShape, NilAssumption DEF TokenInv, PendingTokens
<1>2. e \in Event
  BY <1>1 DEF Event
<1>3. /\ now' = now /\ revoked' = revoked
      /\ user_id'[n] = tx[r].user /\ expires_at'[n] = tx[r].expires
      /\ \A t \in Token : t # n =>
           user_id'[t] = user_id[t] /\ expires_at'[t] = expires_at[t]
      /\ delivered' \subseteq delivered \cup {n}
      /\ audit'[e] = audit[e] + 1
      /\ \A f \in Event : f # e => audit'[f] = audit[f]
  BY <1>0, <1>2, CommitEffect DEF CommitRefresh
<1>4. /\ user_id \in [Token -> UserId \cup {Nil}] /\ used \subseteq Token /\ delivered \subseteq Token
      /\ replaced_by \in [Token -> Token \cup {Nil}]
  BY DEF Typed, TypeOK
<1>5. /\ used' = used \cup {o} /\ users' = users
      /\ replaced_by'[o] = n /\ \A t \in Token : t # o => replaced_by'[t] = replaced_by[t]
  BY <1>1, <1>4 DEF CommitRefresh, accountVars
<1>6. \A t \in used : t # n /\ replaced_by[t] # n /\ replaced_by[t] \in Token
  BY <1>1, <1>4, NilAssumption DEF TokenInv, StoredTokens, RotationChain
<1>7. RotationChain'
  <2>1. (\A t \in Token : t \in used <=> replaced_by[t] # Nil)'
    BY <1>1, <1>5 DEF TokenInv, StoredTokens, RotationChain
  <2>2. ASSUME NEW t \in used
        PROVE  /\ t # o /\ replaced_by'[t] = replaced_by[t]
               /\ user_id'[t] # Nil
               /\ user_id'[replaced_by'[t]] = user_id'[t]
               /\ expires_at'[replaced_by'[t]] >= expires_at'[t]
    BY <1>1, <1>3, <1>4, <1>5, <1>6 DEF TokenInv, StoredTokens, RotationChain
  <2>3. /\ user_id'[o] # Nil
        /\ user_id'[replaced_by'[o]] = user_id'[o]
        /\ expires_at'[replaced_by'[o]] >= expires_at'[o]
    BY <1>1, <1>3, <1>5, NilAssumption
  <2>4. ASSUME NEW s \in used', NEW t \in used', replaced_by'[s] = replaced_by'[t]
        PROVE  s = t
    BY <1>5, <1>6, <2>2, <2>4 DEF TokenInv, StoredTokens, RotationChain
  <2> QED BY <1>5, <2>1, <2>2, <2>3, <2>4 DEF RotationChain
<1>8. RefreshAudited'
  <2>1. ASSUME NEW t \in Token
        PROVE  audit'[<<"auth.refresh", t>>] = IF t \in used' THEN 1 ELSE 0
    <3>1. <<"auth.refresh", t>> \in Event /\ (t # o => <<"auth.refresh", t>> # e)
      BY DEF Event
    <3>2. audit[<<"auth.refresh", t>>] = IF t \in used THEN 1 ELSE 0
      BY DEF TokenInv, StoredTokens, RefreshAudited
    <3> QED BY <1>1, <1>3, <1>5, <3>1, <3>2
  <2> QED BY <2>1 DEF RefreshAudited
<1>u. users[tx[r].user] # Nil
  BY <1>1, NilAssumption DEF TokenInv, StoredTokens
<1>9. DeliveredDurable'
  BY <1>1, <1>3, <1>4, <1>5, <1>u, NilAssumption DEF TokenInv, StoredTokens, DeliveredDurable
<1>10. /\ (\A t \in Token : user_id[t] = Nil => t \notin revoked)'
       /\ (\A t \in Token : user_id[t] # Nil =>
            expires_at[t] <= now + RefreshTTL /\ users[user_id[t]] # Nil)'
  BY <1>1, <1>3, <1>5, <1>u DEF TokenInv, StoredTokens
<1> QED BY <1>7, <1>8, <1>9, <1>10 DEF StoredTokens

LEMMA TokenStep == Typed /\ TokenInv /\ [Next]_vars => TokenInv'
<1> SUFFICES ASSUME Typed, TokenInv, [Next]_vars PROVE TokenInv'
  OBVIOUS
<1>a. tx \in [Request -> Transaction] /\ \A r \in Request : tx[r] \in Transaction
  BY DEF Typed, TypeOK
<1>1. ASSUME NEW r \in Request, NEW e \in RawEmail, NEW s \in RawSlug,
             BeginRegister(r, e, s)
      PROVE  TokenInv'
  <2> DEFINE x == [NoTx EXCEPT !.op = "register", !.stage = "begun",
                               !.email = CanonicalEmail[e], !.slug = CanonicalSlug[s]]
  <2>1. x \in Transaction
    BY NormalisationAssumption, NoTxType DEF Transaction, Stage
  <2>2. x.new = Nil /\ x.op = "register" /\ x.stage = "begun" /\ Work(r, x)
    BY <1>1 DEF NoTx, BeginRegister
  <2> HIDE DEF x
  <2> QED BY <2>1, <2>2, WorkTokens
<1>2. ASSUME NEW r \in Request, NEW u \in UserId, Login(r, u)
      PROVE  TokenInv'
  <2> DEFINE x == [NoTx EXCEPT !.op = "login", !.stage = "ready", !.user = u]
  <2>1. x \in Transaction
    BY NoTxType DEF Transaction, Stage
  <2>2. /\ x.new = Nil /\ x.op = "login" /\ x.stage = "ready" /\ x.user = u
        /\ users[u] # Nil /\ Work(r, x)
    BY <1>2 DEF NoTx, Login
  <2> HIDE DEF x
  <2> QED BY <2>1, <2>2, WorkTokens
<1>3. ASSUME NEW r \in Request, NEW t \in Token, RefreshCheck(r, t)
      PROVE  TokenInv'
  <2> DEFINE x == [NoTx EXCEPT !.op = "refresh", !.stage = "ready",
                               !.user = user_id[t], !.old = t]
  <2>1. x \in Transaction
    BY NoTxType DEF Transaction, Stage, Typed, TypeOK
  <2>2. /\ x.new = Nil /\ x.op = "refresh" /\ x.stage = "ready"
        /\ x.user = user_id[x.old] /\ Work(r, x)
    BY <1>3 DEF NoTx, RefreshCheck
  <2> HIDE DEF x
  <2> QED BY <2>1, <2>2, WorkTokens
<1>4. ASSUME NEW r \in Request, IssueSession(r)
      PROVE  TokenInv'
  <2> PICK t \in Token : /\ Free(t)
                         /\ Work(r, [tx[r] EXCEPT !.stage = "issued", !.new = t,
                                                  !.expires = now + RefreshTTL])
    BY <1>4 DEF IssueSession
  <2> DEFINE x == [tx[r] EXCEPT !.stage = "issued", !.new = t,
                                !.expires = now + RefreshTTL]
  <2>1. now + RefreshTTL \in Nat
    BY TimeAssumption DEF Typed, TypeOK
  <2>2. x \in Transaction
    BY <1>a, <2>1 DEF Transaction, Stage
  <2>3. /\ x.new = t /\ x.op = tx[r].op /\ x.stage = "issued" /\ x.user = tx[r].user
        /\ x.old = tx[r].old /\ x.expires = now + RefreshTTL
    BY <1>a DEF Transaction
  <2>4. Work(r, x)
    OBVIOUS
  <2> HIDE DEF x
  <2>5. x.new # Nil =>
          /\ user_id[x.new] = Nil
          /\ x.expires <= now + RefreshTTL
          /\ \A q \in Request \ {r} : tx[q].new # x.new
    BY <2>1, <2>3 DEF Free
  <2>6. x.op = "login" => users[x.user] # Nil
    BY <2>3 DEF TokenInv, PendingTokens
  <2>7. x.op = "refresh" =>
          /\ user_id[x.old] = x.user
          /\ x.new # Nil => x.expires >= expires_at[x.old]
    <3> SUFFICES ASSUME x.op = "refresh"
                 PROVE  /\ user_id[x.old] = x.user
                        /\ x.expires >= expires_at[x.old]
      OBVIOUS
    <3>1. x.old \in Token /\ user_id[x.old] = x.user /\ x.user # Nil
      BY <1>a, <2>3, NilAssumption DEF TokenInv, PendingTokens, Typed, TxShape, Transaction
    <3>2. expires_at[x.old] \in Nat /\ expires_at[x.old] <= now + RefreshTTL
      BY <3>1 DEF TokenInv, StoredTokens, Typed, TypeOK
    <3> QED BY <2>1, <2>3, <3>1, <3>2
  <2> QED BY <2>2, <2>3, <2>4, <2>5, <2>6, <2>7, WorkTokens
<1>5. ASSUME NEW r \in Request, InsertUser(r)
      PROVE  TokenInv'
  <2> PICK u \in UserId : Work(r, [tx[r] EXCEPT !.stage = "user", !.user = u])
    BY <1>5 DEF InsertUser
  <2> DEFINE x == [tx[r] EXCEPT !.stage = "user", !.user = u]
  <2>1. /\ x \in Transaction /\ x.new = Nil /\ x.op = "register" /\ x.stage = "user"
    BY ZenonT(30), <1>5, <1>a DEF InsertUser, Typed, TxShape, Transaction, Stage
  <2>2. Work(r, x)
    OBVIOUS
  <2> HIDE DEF x
  <2> QED BY <2>1, <2>2, WorkTokens
<1>6. ASSUME NEW r \in Request, InsertOrganization(r)
      PROVE  TokenInv'
  <2> PICK o \in OrgId : Work(r, [tx[r] EXCEPT !.stage = "ready", !.org = o])
    BY <1>6 DEF InsertOrganization
  <2> DEFINE x == [tx[r] EXCEPT !.stage = "ready", !.org = o]
  <2>1. /\ x \in Transaction /\ x.new = Nil /\ x.op = "register" /\ x.stage = "ready"
    BY ZenonT(30), <1>6, <1>a DEF InsertOrganization, Typed, TxShape, Transaction, Stage
  <2>2. Work(r, x)
    OBVIOUS
  <2> HIDE DEF x
  <2> QED BY <2>1, <2>2, WorkTokens
<1>7. ASSUME NEW r \in Request, RotateAuthRefreshToken(r)
      PROVE  TokenInv'
  <2> DEFINE x == [tx[r] EXCEPT !.stage = "rotated"]
  <2>1. /\ x \in Transaction /\ x.stage = "rotated" /\ x.op = "refresh"
        /\ x.new = tx[r].new /\ x.old = tx[r].old /\ x.user = tx[r].user
        /\ x.expires = tx[r].expires /\ tx[r].op = "refresh"
    BY <1>7, <1>a DEF RotateAuthRefreshToken, Transaction, Stage
  <2>2. Work(r, x)
    BY <1>7 DEF RotateAuthRefreshToken
  <2> HIDE DEF x
  <2>3. /\ x.old \notin used /\ x.old \notin revoked
        /\ \A q \in Request \ {r} : tx[q].stage = "rotated" => tx[q].old # x.old
    BY <1>7, <2>1 DEF RotateAuthRefreshToken, RowLocked
  <2> QED BY <2>1, <2>2, <2>3, WorkTokens DEF TokenInv, PendingTokens
<1>8. ASSUME NEW r \in Request,
             EmailTaken(r) \/ SlugTaken(r) \/ RotateFindsNoRow(r) \/ Abort(r)
      PROVE  TokenInv'
  BY <1>8, RollbackTokens DEF EmailTaken, SlugTaken, RotateFindsNoRow, Abort
<1>9. ASSUME NEW r \in Request, NEW ack \in BOOLEAN, CommitRegister(r, ack)
      PROVE  TokenInv'
  <2> DEFINE e == <<"auth.register", tx[r].user>>
  <2>1. e \in Event /\ e \notin {"auth.refresh"} \X Token
    BY <1>9, IssuedShape DEF CommitRegister, Event
  <2>2. /\ tx[r].stage = "issued" /\ StoreToken(r) /\ End(r, ack, e)
        /\ used' = used /\ replaced_by' = replaced_by
        /\ users' = [users EXCEPT ![tx[r].user] = tx[r].email]
        /\ tx[r].email # Nil /\ tx[r].user \in UserId
    BY <1>9, IssuedShape DEF CommitRegister, Typed, TxShape
  <2>3. /\ \A u \in UserId : users[u] # Nil => users'[u] # Nil
        /\ users'[tx[r].user] # Nil
    BY <2>2 DEF Typed, TypeOK
  <2> HIDE DEF e
  <2>4. StoredTokens'
    BY <2>1, <2>2, <2>3, OpenStored
  <2>5. PendingTokens'
    BY <2>1, <2>2, <2>3, CommitEffect, CommitPending
  <2> QED BY <2>4, <2>5 DEF TokenInv
<1>10. ASSUME NEW r \in Request, NEW ack \in BOOLEAN, CommitLogin(r, ack)
       PROVE  TokenInv'
  <2> DEFINE e == <<"auth.login", tx[r].user>>
  <2>1. e \in Event /\ e \notin {"auth.refresh"} \X Token
    BY <1>10, IssuedShape DEF CommitLogin, Event
  <2>2. /\ tx[r].stage = "issued" /\ StoreToken(r) /\ End(r, ack, e)
        /\ used' = used /\ replaced_by' = replaced_by /\ users' = users
        /\ users[tx[r].user] # Nil
    BY <1>10 DEF CommitLogin, accountVars, TokenInv, PendingTokens
  <2> HIDE DEF e
  <2>3. StoredTokens'
    BY <2>1, <2>2, OpenStored
  <2>4. PendingTokens'
    BY <2>1, <2>2, CommitEffect, CommitPending
  <2> QED BY <2>3, <2>4 DEF TokenInv
<1>11. ASSUME NEW r \in Request, NEW ack \in BOOLEAN, CommitRefresh(r, ack)
       PROVE  TokenInv'
  <2> DEFINE e == <<"auth.refresh", tx[r].old>>
  <2>1. e \in Event
    BY <1>11, IssuedShape DEF CommitRefresh, Event
  <2>2. /\ tx[r].stage = "rotated" /\ StoreToken(r) /\ End(r, ack, e)
        /\ used' = used \cup {tx[r].old} /\ users' = users
    BY <1>11 DEF CommitRefresh, accountVars
  <2> HIDE DEF e
  <2>3. PendingTokens'
    BY <2>1, <2>2, CommitEffect, CommitPending
  <2> QED BY <1>11, <2>3, RotateStored DEF TokenInv
<1>12. CASE Crash
  <2>1. /\ user_id' = user_id /\ expires_at' = expires_at /\ used' = used
        /\ revoked' = revoked /\ replaced_by' = replaced_by /\ now' = now
        /\ users' = users /\ audit' = audit /\ delivered' = delivered
        /\ \A r \in Request : tx'[r] = NoTx
    BY <1>12 DEF Crash, accountVars, tokenVars
  <2>2. StoredTokens'
    BY <2>1 DEF TokenInv, StoredTokens, RotationChain, RefreshAudited, DeliveredDurable
  <2>3. PendingTokens'
    BY <2>1 DEF PendingTokens, NoTx
  <2> QED BY <2>2, <2>3 DEF TokenInv
<1>13. ASSUME NEW t \in Token, RevokeAuthRefreshToken(t)
       PROVE  TokenInv'
  <2>1. /\ user_id' = user_id /\ expires_at' = expires_at /\ used' = used
        /\ revoked' = revoked \cup {t} /\ replaced_by' = replaced_by /\ now' = now
        /\ users' = users /\ audit' = audit /\ delivered' = delivered /\ tx' = tx
    BY <1>13 DEF RevokeAuthRefreshToken, accountVars
  <2>2. user_id[t] # Nil /\ \A r \in Request : tx[r].stage = "rotated" => tx[r].old # t
    BY <1>13 DEF RevokeAuthRefreshToken, RowLocked
  <2>3. StoredTokens'
    BY <2>1, <2>2 DEF TokenInv, StoredTokens, RotationChain, RefreshAudited, DeliveredDurable
  <2>4. PendingTokens'
    BY <2>1, <2>2 DEF TokenInv, PendingTokens
  <2> QED BY <2>3, <2>4 DEF TokenInv
<1>14. CASE Tick
  <2>1. /\ user_id' = user_id /\ expires_at' = expires_at /\ used' = used
        /\ revoked' = revoked /\ replaced_by' = replaced_by /\ now' = now + 1
        /\ users' = users /\ audit' = audit /\ delivered' = delivered /\ tx' = tx
    BY <1>14 DEF Tick, accountVars, tokenVars
  <2>2. /\ now \in Nat /\ RefreshTTL \in Nat /\ expires_at \in [Token -> Nat]
        /\ \A r \in Request : tx[r].expires \in Nat
    BY <1>a, TimeAssumption DEF Typed, TypeOK, Transaction
  <2>3. StoredTokens'
    BY <2>1, <2>2 DEF TokenInv, StoredTokens, RotationChain, RefreshAudited, DeliveredDurable
  <2>4. PendingTokens'
    BY <2>1, <2>2 DEF TokenInv, PendingTokens
  <2> QED BY <2>3, <2>4 DEF TokenInv
<1>15. CASE UNCHANGED vars
  BY <1>15 DEF vars, accountVars, tokenVars, TokenInv, StoredTokens, PendingTokens,
               RotationChain, RefreshAudited, DeliveredDurable
<1> QED
  BY <1>1, <1>2, <1>3, <1>4, <1>5, <1>6, <1>7, <1>8, <1>9, <1>10, <1>11, <1>12,
     <1>13, <1>14, <1>15
  DEF Next, Arrive, Statement, LockingStatement

LEMMA TokenInvInit == Init => TokenInv
BY DEF Init, TokenInv, StoredTokens, PendingTokens, RotationChain, RefreshAudited,
       DeliveredDurable, Event, NoTx

-----------------------------------------------------------------------------
(* Layer 4: registrations, and the number of live tokens.                  *)

\* A step that commits no account and no session.
Quiet ==
    /\ users' = users /\ orgs' = orgs /\ memberships' = memberships
    /\ user_id' = user_id /\ used' = used /\ audit' = audit

\* What a statement may put into r's transaction: rows it has already, or new ones; and a
\* user that is there if it does not register one.
OwnRows(r, x) ==
    /\ x.op = "register" /\ x.user # Nil =>
         \/ tx[r].op = "register" /\ x.user = tx[r].user
         \/ users[x.user] = Nil /\ \A q \in Request : tx[q].user # x.user
    /\ x.op # "register" /\ x.user # Nil => users[x.user] # Nil
    /\ x.org # Nil =>
         \/ x.org = tx[r].org
         \/ orgs[x.org] = Nil /\ \A q \in Request : tx[q].org # x.org

LEMMA UserInHand ==
    ASSUME Typed, TokenInv, NEW r \in Request, tx[r].op \in {"login", "refresh"}
    PROVE  users[tx[r].user] # Nil
<1>1. CASE tx[r].op = "login"
  BY <1>1 DEF TokenInv, PendingTokens
<1>2. CASE tx[r].op = "refresh"
  <2>1. tx[r].old \in Token /\ user_id[tx[r].old] = tx[r].user /\ tx[r].user # Nil
    BY <1>2 DEF TokenInv, PendingTokens, Typed, TypeOK, TxShape, Transaction
  <2> QED BY <2>1 DEF TokenInv, StoredTokens
<1> QED BY <1>1, <1>2

\* The rows of a transaction that goes on are its own.
LEMMA SameRowsOwn ==
    ASSUME Typed, TokenInv, NEW r \in Request, NEW x,
           x.op = tx[r].op, x.user = tx[r].user, x.org = tx[r].org
    PROVE  OwnRows(r, x)
<1>1. tx[r].op \in {"none", "register", "login", "refresh"}
  BY DEF Typed, TypeOK, Transaction
<1>2. tx[r].op = "none" => tx[r].user = Nil
  BY DEF Typed, TxShape, NoTx
<1> QED BY <1>1, <1>2, UserInHand DEF OwnRows

\* A transaction without rows.
LEMMA NoRowsOwn ==
    ASSUME NEW r \in Request, NEW x, x.user = Nil, x.org = Nil
    PROVE  OwnRows(r, x)
BY DEF OwnRows

LEMMA WorkIsQuiet ==
    ASSUME NEW r \in Request, NEW x, Work(r, x)
    PROVE  Quiet /\ tx' = [tx EXCEPT ![r] = x]
BY DEF Work, Quiet, accountVars, tokenVars

\* Every statement before the commit works on rows of its own.
LEMMA StatementsOwn ==
    ASSUME Typed, TokenInv, NEW r \in Request,
           Arrive(r) \/ IssueSession(r) \/ LockingStatement(r) \/ Abort(r)
    PROVE  \E x : Work(r, x) /\ OwnRows(r, x)
<1>a. tx[r] \in Transaction
  BY DEF Typed, TypeOK
<1>b. NoTx.op = "none" /\ NoTx.user = Nil /\ NoTx.org = Nil
  BY DEF NoTx
<1>1. CASE \E e \in RawEmail, s \in RawSlug : BeginRegister(r, e, s)
  <2> PICK e \in RawEmail, s \in RawSlug : BeginRegister(r, e, s)
    BY <1>1
  <2> DEFINE x == [NoTx EXCEPT !.op = "register", !.stage = "begun",
                               !.email = CanonicalEmail[e], !.slug = CanonicalSlug[s]]
  <2>1. x.user = Nil /\ x.org = Nil
    BY DEF NoTx
  <2>2. Work(r, x)
    BY DEF BeginRegister
  <2> QED BY <2>1, <2>2, NoRowsOwn
<1>2. CASE \E u \in UserId : Login(r, u)
  <2> PICK u \in UserId : Login(r, u)
    BY <1>2
  <2> DEFINE x == [NoTx EXCEPT !.op = "login", !.stage = "ready", !.user = u]
  <2>1. x.op = "login" /\ x.user = u /\ x.org = Nil
    BY DEF NoTx
  <2>2. Work(r, x) /\ users[u] # Nil
    BY DEF Login
  <2> HIDE DEF x
  <2>3. OwnRows(r, x)
    BY <2>1, <2>2 DEF OwnRows
  <2> QED BY <2>2, <2>3
<1>3. CASE \E t \in Token : RefreshCheck(r, t)
  <2> PICK t \in Token : RefreshCheck(r, t)
    BY <1>3
  <2> DEFINE x == [NoTx EXCEPT !.op = "refresh", !.stage = "ready",
                               !.user = user_id[t], !.old = t]
  <2>1. x.op = "refresh" /\ x.user = user_id[t] /\ x.org = Nil
    BY DEF NoTx
  <2>2. Work(r, x) /\ users[user_id[t]] # Nil
    BY DEF RefreshCheck, TokenInv, StoredTokens
  <2> HIDE DEF x
  <2>3. OwnRows(r, x)
    BY <2>1, <2>2 DEF OwnRows
  <2> QED BY <2>2, <2>3
<1>4. CASE IssueSession(r)
  <2> PICK t \in Token : Work(r, [tx[r] EXCEPT !.stage = "issued", !.new = t,
                                               !.expires = now + RefreshTTL])
    BY <1>4 DEF IssueSession
  <2> DEFINE x == [tx[r] EXCEPT !.stage = "issued", !.new = t, !.expires = now + RefreshTTL]
  <2>1. x.op = tx[r].op /\ x.user = tx[r].user /\ x.org = tx[r].org
    BY <1>a DEF Transaction
  <2> HIDE DEF x
  <2>2. OwnRows(r, x)
    BY <2>1, SameRowsOwn
  <2> QED BY <2>2 DEF x
<1>5. CASE InsertUser(r)
  <2> PICK u \in UserId : /\ users[u] = Nil
                          /\ \A q \in Request : tx[q].user # u
                          /\ Work(r, [tx[r] EXCEPT !.stage = "user", !.user = u])
    BY <1>5 DEF InsertUser
  <2> DEFINE x == [tx[r] EXCEPT !.stage = "user", !.user = u]
  <2>1. x.op = "register" /\ x.user = u /\ x.org = tx[r].org
    BY <1>5, <1>a DEF Transaction, InsertUser
  <2> HIDE DEF x
  <2>2. OwnRows(r, x)
    BY <2>1 DEF OwnRows
  <2> QED BY <2>2 DEF x
<1>6. CASE InsertOrganization(r)
  <2> PICK o \in OrgId : /\ orgs[o] = Nil
                         /\ \A q \in Request : tx[q].org # o
                         /\ Work(r, [tx[r] EXCEPT !.stage = "ready", !.org = o])
    BY <1>6 DEF InsertOrganization
  <2> DEFINE x == [tx[r] EXCEPT !.stage = "ready", !.org = o]
  <2>1. x.op = "register" /\ tx[r].op = "register" /\ x.user = tx[r].user /\ x.org = o
    BY <1>6, <1>a DEF Transaction, InsertOrganization
  <2> HIDE DEF x
  <2>2. OwnRows(r, x)
    BY <2>1 DEF OwnRows
  <2> QED BY <2>2 DEF x
<1>7. CASE RotateAuthRefreshToken(r)
  <2> DEFINE x == [tx[r] EXCEPT !.stage = "rotated"]
  <2>1. x.op = tx[r].op /\ x.user = tx[r].user /\ x.org = tx[r].org
    BY <1>a DEF Transaction
  <2>2. Work(r, x)
    BY <1>7 DEF RotateAuthRefreshToken
  <2> HIDE DEF x
  <2>3. OwnRows(r, x)
    BY <2>1, SameRowsOwn
  <2> QED BY <2>2, <2>3
<1>8. CASE EmailTaken(r) \/ SlugTaken(r) \/ RotateFindsNoRow(r) \/ Abort(r)
  <2>1. Work(r, NoTx)
    BY <1>8 DEF EmailTaken, SlugTaken, RotateFindsNoRow, Abort, Rollback, Work
  <2> QED BY <1>b, <2>1, NoRowsOwn
<1> QED BY <1>1, <1>2, <1>3, <1>4, <1>5, <1>6, <1>7, <1>8 DEF Arrive, LockingStatement

LEMMA RestIsQuiet ==
    ASSUME Crash \/ (\E t \in Token : RevokeAuthRefreshToken(t)) \/ Tick \/ UNCHANGED vars
    PROVE  Quiet
BY DEF Crash, RevokeAuthRefreshToken, Tick, vars, accountVars, tokenVars, Quiet

LEMMA QuietCounted == ASSUME SessionsCounted, Quiet PROVE SessionsCounted'
BY DEF SessionsCounted, OneLiveTokenPerSession, LiveTokens, Opened, Quiet

\* A finite set that gains an element, and one in which an element takes the place of another.
LEMMA OneMore ==
    ASSUME NEW S, IsFiniteSet(S), NEW x, x \notin S
    PROVE  IsFiniteSet(S \cup {x}) /\ Cardinality(S \cup {x}) = Cardinality(S) + 1
BY FS_AddElement

LEMMA Swapped ==
    ASSUME NEW S, IsFiniteSet(S), NEW x, x \notin S, NEW y \in S
    PROVE  /\ IsFiniteSet((S \ {y}) \cup {x})
           /\ Cardinality((S \ {y}) \cup {x}) = Cardinality(S)
<1>1. IsFiniteSet(S \ {y}) /\ Cardinality(S \ {y}) = Cardinality(S) - 1
  BY FS_RemoveElement
<1>2. Cardinality(S) \in Nat
  BY FS_CardinalityType
<1> QED BY <1>1, <1>2, OneMore

LEMMA CommitOpensOne ==
    ASSUME Typed, TokenInv, SessionsCounted, NEW r \in Request, NEW ack \in BOOLEAN,
           CommitRegister(r, ack) \/ CommitLogin(r, ack)
    PROVE  SessionsCounted'
<1> DEFINE n == tx[r].new
           v == tx[r].user
<1>1. tx[r].stage = "issued" /\ used' = used /\ StoreToken(r)
  BY DEF CommitRegister, CommitLogin
<1>2. n \in Token /\ v \in UserId /\ user_id[n] = Nil
  BY <1>1, IssuedShape, NilAssumption DEF TokenInv, PendingTokens
<1>3. n \notin used
  BY <1>2 DEF TokenInv, StoredTokens, RotationChain
<1>4. PICK a \in {"auth.register", "auth.login"} : End(r, ack, <<a, v>>)
  BY DEF CommitRegister, CommitLogin
<1>5. audit' = [audit EXCEPT ![<<a, v>>] = @ + 1] /\ audit \in [Event -> Nat]
  BY <1>4 DEF End, Typed, TypeOK
<1>6. user_id' = [user_id EXCEPT ![n] = v] /\ user_id \in [Token -> UserId \cup {Nil}]
  BY <1>1 DEF StoreToken, Typed, TypeOK
<1> SUFFICES ASSUME NEW u \in UserId
             PROVE  IsFiniteSet(LiveTokens(u))' /\ Cardinality(LiveTokens(u))' = Opened(u)'
  BY DEF SessionsCounted, OneLiveTokenPerSession
<1>7. /\ IsFiniteSet(LiveTokens(u)) /\ Cardinality(LiveTokens(u)) = Opened(u)
      /\ n \notin LiveTokens(u)
  BY <1>2, NilAssumption DEF SessionsCounted, OneLiveTokenPerSession, LiveTokens
<1>8. /\ <<"auth.register", u>> \in Event /\ audit[<<"auth.register", u>>] \in Nat
      /\ <<"auth.login", u>> \in Event /\ audit[<<"auth.login", u>>] \in Nat
  BY <1>5 DEF Event
<1>9. CASE u = v
  <2>1. LiveTokens(u)' = LiveTokens(u) \cup {n}
    BY <1>1, <1>2, <1>3, <1>6, <1>9 DEF LiveTokens
  <2>2. Opened(u)' = Opened(u) + 1
    BY <1>5, <1>8, <1>9 DEF Opened
  <2> QED BY <1>7, <2>1, <2>2, OneMore
<1>10. CASE u # v
  <2>1. LiveTokens(u)' = LiveTokens(u)
    BY <1>1, <1>2, <1>6, <1>10, NilAssumption DEF LiveTokens
  <2>2. Opened(u)' = Opened(u)
    BY <1>5, <1>8, <1>10 DEF Opened
  <2> QED BY <1>7, <2>1, <2>2
<1> QED BY <1>9, <1>10

LEMMA CommitSwapsOne ==
    ASSUME Typed, TokenInv, SessionsCounted, NEW r \in Request, NEW ack \in BOOLEAN,
           CommitRefresh(r, ack)
    PROVE  SessionsCounted'
<1> DEFINE n == tx[r].new
           o == tx[r].old
           v == tx[r].user
<1>1. /\ tx[r].op = "refresh" /\ tx[r].stage = "rotated" /\ StoreToken(r)
      /\ used' = used \cup {o} /\ End(r, ack, <<"auth.refresh", o>>)
  BY DEF CommitRefresh
<1>2. /\ n \in Token /\ o \in Token /\ v \in UserId
      /\ user_id[n] = Nil /\ user_id[o] = v /\ o \notin used
  BY <1>1, IssuedShape, NilAssumption DEF TokenInv, PendingTokens
<1>3. n \notin used /\ n # o /\ v # Nil
  BY <1>2, NilAssumption DEF TokenInv, StoredTokens, RotationChain
<1>4. audit' = [audit EXCEPT ![<<"auth.refresh", o>>] = @ + 1] /\ audit \in [Event -> Nat]
  BY <1>1 DEF End, Typed, TypeOK
<1>5. user_id' = [user_id EXCEPT ![n] = v] /\ user_id \in [Token -> UserId \cup {Nil}]
  BY <1>1 DEF StoreToken, Typed, TypeOK
<1> SUFFICES ASSUME NEW u \in UserId
             PROVE  IsFiniteSet(LiveTokens(u))' /\ Cardinality(LiveTokens(u))' = Opened(u)'
  BY DEF SessionsCounted, OneLiveTokenPerSession
<1>6. /\ IsFiniteSet(LiveTokens(u)) /\ Cardinality(LiveTokens(u)) = Opened(u)
      /\ n \notin LiveTokens(u)
  BY <1>2, NilAssumption DEF SessionsCounted, OneLiveTokenPerSession, LiveTokens
<1>7. Opened(u)' = Opened(u)
  <2>1. <<"auth.register", u>> \in Event /\ <<"auth.login", u>> \in Event
    BY DEF Event
  <2> QED BY <1>4, <2>1 DEF Opened
<1>8. CASE u = v
  <2>1. LiveTokens(u)' = (LiveTokens(u) \ {o}) \cup {n} /\ o \in LiveTokens(u)
    BY <1>1, <1>2, <1>3, <1>5, <1>8 DEF LiveTokens
  <2> QED BY <1>6, <1>7, <2>1, Swapped
<1>9. CASE u # v
  <2>1. LiveTokens(u)' = LiveTokens(u)
    BY <1>1, <1>2, <1>3, <1>5, <1>9, NilAssumption DEF LiveTokens
  <2> QED BY <1>6, <1>7, <2>1
<1> QED BY <1>8, <1>9

LEMMA CountedStep == Typed /\ TokenInv /\ SessionsCounted /\ [Next]_vars => SessionsCounted'
<1> SUFFICES ASSUME Typed, TokenInv, SessionsCounted, [Next]_vars PROVE SessionsCounted'
  OBVIOUS
<1>1. ASSUME NEW r \in Request,
             Arrive(r) \/ IssueSession(r) \/ LockingStatement(r) \/ Abort(r)
      PROVE  SessionsCounted'
  BY <1>1, StatementsOwn, WorkIsQuiet, QuietCounted
<1>2. ASSUME NEW r \in Request, NEW ack \in BOOLEAN,
             CommitRegister(r, ack) \/ CommitLogin(r, ack) \/ CommitRefresh(r, ack)
      PROVE  SessionsCounted'
  BY <1>2, CommitOpensOne, CommitSwapsOne
<1>3. CASE Crash \/ (\E t \in Token : RevokeAuthRefreshToken(t)) \/ Tick \/ UNCHANGED vars
  BY <1>3, RestIsQuiet, QuietCounted
<1> QED BY <1>1, <1>2, <1>3 DEF Next, Statement

LEMMA CountedInit == Init => SessionsCounted
<1> SUFFICES ASSUME Init, NEW u \in UserId
             PROVE  IsFiniteSet(LiveTokens(u)) /\ Cardinality(LiveTokens(u)) = Opened(u)
  BY DEF SessionsCounted, OneLiveTokenPerSession
<1>1. LiveTokens(u) = {}
  BY NilAssumption DEF Init, LiveTokens
<1>2. Opened(u) = 0
  BY DEF Init, Opened, Event
<1> QED BY <1>1, <1>2, FS_EmptySet

LEMMA OwnRowsKeep ==
    ASSUME Typed, RegistrationInv, NEW r \in Request, NEW x,
           Quiet, tx' = [tx EXCEPT ![r] = x], OwnRows(r, x)
    PROVE  RegistrationInv'
<1>1. \A q \in Request : tx'[q] = IF q = r THEN x ELSE tx[q]
  BY DEF Typed, TypeOK
<1>2. RegistrationAtomic' /\ (\A m \in memberships : users[m[2]] # Nil /\ orgs[m[1]] # Nil)'
  BY SMTT(20) DEF Quiet, RegistrationInv, RegistrationAtomic
<1>3. ASSUME NEW q \in Request, tx'[q].op = "register", tx'[q].user # Nil
      PROVE  /\ users'[tx'[q].user] = Nil
             /\ \A p \in Request : tx'[p].user = tx'[q].user => p = q
  <2>1. users'[tx'[q].user] = Nil
    BY <1>1, <1>3 DEF Quiet, RegistrationInv, OwnRows
  <2>2. ASSUME NEW p \in Request, tx'[p].user = tx'[q].user, p # q PROVE FALSE
    <3>1. CASE q = r
      BY <1>1, <1>3, <2>2, <3>1 DEF RegistrationInv, OwnRows
    <3>2. CASE p = r
      BY <1>1, <1>3, <2>1, <2>2, <3>2 DEF Quiet, RegistrationInv, OwnRows
    <3>3. CASE p # r /\ q # r
      BY <1>1, <1>3, <2>2, <3>3 DEF RegistrationInv
    <3> QED BY <3>1, <3>2, <3>3
  <2> QED BY <2>1, <2>2
<1>4. ASSUME NEW q \in Request, tx'[q].org # Nil
      PROVE  /\ orgs'[tx'[q].org] = Nil
             /\ \A p \in Request : tx'[p].org = tx'[q].org => p = q
  BY <1>1, <1>4 DEF Quiet, RegistrationInv, OwnRows
<1> QED BY <1>2, <1>3, <1>4 DEF RegistrationInv

\* A transaction that ends without an account.
LEMMA EndKeepsRows ==
    ASSUME Typed, RegistrationInv, UNCHANGED <<users, orgs, memberships>>,
           \A q \in Request : tx'[q] \in {tx[q], NoTx}, RegistrationAtomic'
    PROVE  RegistrationInv'
<1>1. NoTx.op = "none" /\ NoTx.user = Nil /\ NoTx.org = Nil
  BY DEF NoTx
<1> QED BY <1>1 DEF RegistrationInv

LEMMA CommitRegisterWhole ==
    ASSUME Typed, TokenInv, RegistrationInv, NEW r \in Request, NEW ack \in BOOLEAN,
           CommitRegister(r, ack)
    PROVE  RegistrationInv'
<1> DEFINE n == tx[r].new
           v == tx[r].user
           w == tx[r].org
           Owned(u) == {o \in OrgId : <<o, u>> \in memberships}
           e == <<"auth.register", v>>
<1>1. /\ tx[r].op = "register" /\ tx[r].stage = "issued" /\ StoreToken(r) /\ End(r, ack, e)
      /\ users' = [users EXCEPT ![v] = tx[r].email]
      /\ orgs' = [orgs EXCEPT ![w] = tx[r].slug]
      /\ memberships' = memberships \cup {<<w, v>>}
  BY DEF CommitRegister
<1>2. /\ n \in Token /\ v \in UserId /\ w \in OrgId /\ user_id[n] = Nil
      /\ tx[r].email # Nil /\ tx[r].slug # Nil /\ v # Nil /\ w # Nil
  BY <1>1, IssuedShape, NilAssumption DEF TokenInv, PendingTokens
<1>3. users[v] = Nil /\ orgs[w] = Nil
  BY <1>1, <1>2 DEF RegistrationInv
<1>4. /\ \A u \in UserId : users'[u] = IF u = v THEN tx[r].email ELSE users[u]
      /\ \A o \in OrgId : orgs'[o] = IF o = w THEN tx[r].slug ELSE orgs[o]
  BY <1>1, <1>2 DEF Typed, TypeOK
<1>5. \A t \in Token : user_id'[t] = IF t = n THEN v ELSE user_id[t]
  BY <1>1, <1>2 DEF StoreToken, Typed, TypeOK
<1>6. \A q \in Request : tx'[q] = IF q = r THEN NoTx ELSE tx[q]
  BY <1>1 DEF End, Typed, TypeOK
<1>7. memberships \subseteq OrgId \X UserId
  BY DEF Typed, TypeOK
<1>8. ASSUME NEW u \in UserId
      PROVE  audit'[<<"auth.register", u>>] = IF u = v THEN audit[<<"auth.register", u>>] + 1
                                              ELSE audit[<<"auth.register", u>>]
  <2>1. <<"auth.register", u>> \in Event /\ e \in Event
    BY <1>2 DEF Event
  <2> QED BY <1>1, <2>1 DEF End, Typed, TypeOK
<1>9. ASSUME NEW u \in UserId
      PROVE  IF users'[u] = Nil
             THEN Owned(u)' = {} /\ audit'[<<"auth.register", u>>] = 0
             ELSE /\ Cardinality(Owned(u)') = 1
                  /\ audit'[<<"auth.register", u>>] = 1
                  /\ \E t \in Token : user_id'[t] = u
  <2>1. IF users[u] = Nil
        THEN Owned(u) = {} /\ audit[<<"auth.register", u>>] = 0
        ELSE /\ Cardinality(Owned(u)) = 1
             /\ audit[<<"auth.register", u>>] = 1
             /\ \E t \in Token : user_id[t] = u
    BY DEF RegistrationInv, RegistrationAtomic
  <2>2. CASE u = v
    <3>1. Owned(u)' = {w}
      BY <1>1, <1>2, <1>3, <2>1, <2>2
    <3>2. Cardinality({w}) = 1
      BY FS_Singleton
    <3>3. users[u] = Nil /\ users'[u] # Nil /\ user_id'[n] = u
      BY <1>2, <1>3, <1>4, <1>5, <2>2
    <3>4. audit'[<<"auth.register", u>>] = 1
      BY <1>8, <2>1, <2>2, <3>3
    <3>5. Cardinality(Owned(u)') = 1
      BY <3>1, <3>2
    <3> QED BY <1>2, <3>3, <3>4, <3>5
  <2>3. CASE u # v
    <3>1. Owned(u)' = Owned(u)
      BY <1>1, <2>3
    <3>2. \A t \in Token : user_id[t] = u => user_id'[t] = u
      BY <1>2, <1>5, NilAssumption
    <3> HIDE DEF Owned
    <3> QED BY <1>4, <1>8, <2>1, <2>3, <3>1, <3>2
  <2> QED BY <2>2, <2>3
<1>10. ASSUME NEW o \in OrgId
       PROVE  orgs'[o] # Nil <=> \E u \in UserId : <<o, u>> \in memberships'
  BY SMTT(20), <1>1, <1>2, <1>4 DEF RegistrationInv, RegistrationAtomic
<1>11. RegistrationAtomic'
  BY <1>9, <1>10 DEF RegistrationAtomic
<1>12. ASSUME NEW m \in memberships' PROVE users'[m[2]] # Nil /\ orgs'[m[1]] # Nil
  <2>1. CASE m = <<w, v>>
    BY <1>2, <1>4, <2>1
  <2>2. CASE m \in memberships
    <3>1. m[2] \in UserId /\ m[1] \in OrgId
      BY <1>7, <2>2
    <3> QED BY <1>2, <1>4, <2>2, <3>1 DEF RegistrationInv
  <2> QED BY <1>1, <2>1, <2>2
<1>13. NoTx.op = "none" /\ NoTx.user = Nil /\ NoTx.org = Nil
  BY DEF NoTx
<1>14. ASSUME NEW q \in Request, tx'[q].op = "register", tx'[q].user # Nil
       PROVE  /\ users'[tx'[q].user] = Nil
              /\ \A p \in Request : tx'[p].user = tx'[q].user => p = q
  <2>1. q # r /\ tx'[q] = tx[q] /\ tx[q].user # v /\ tx[q].user \in UserId
    BY <1>6, <1>13, <1>14 DEF RegistrationInv, Typed, TypeOK, Transaction
  <2> QED BY <1>4, <1>6, <1>13, <1>14, <2>1 DEF RegistrationInv
<1>15. ASSUME NEW q \in Request, tx'[q].org # Nil
       PROVE  /\ orgs'[tx'[q].org] = Nil
              /\ \A p \in Request : tx'[p].org = tx'[q].org => p = q
  <2>1. q # r /\ tx'[q] = tx[q] /\ tx[q].org # w /\ tx[q].org \in OrgId
    BY <1>6, <1>13, <1>15 DEF RegistrationInv, Typed, TypeOK, Transaction
  <2> QED BY <1>4, <1>6, <1>13, <1>15, <2>1 DEF RegistrationInv
<1> QED BY <1>11, <1>12, <1>14, <1>15 DEF RegistrationInv

\* Registrations stay whole while the accounts stay and no user loses the last token.
LEMMA SameAccountsWhole ==
    ASSUME RegistrationInv, UNCHANGED <<users, orgs, memberships>>,
           \A u \in UserId : audit'[<<"auth.register", u>>] = audit[<<"auth.register", u>>],
           \A u \in UserId : (\E t \in Token : user_id[t] = u) => \E t \in Token : user_id'[t] = u
    PROVE  RegistrationAtomic'
<1> DEFINE Owned(u) == {o \in OrgId : <<o, u>> \in memberships}
<1>1. ASSUME NEW u \in UserId
      PROVE  IF users'[u] = Nil
             THEN Owned(u)' = {} /\ audit'[<<"auth.register", u>>] = 0
             ELSE /\ Cardinality(Owned(u)') = 1
                  /\ audit'[<<"auth.register", u>>] = 1
                  /\ \E t \in Token : user_id'[t] = u
  <2>1. IF users[u] = Nil
        THEN Owned(u) = {} /\ audit[<<"auth.register", u>>] = 0
        ELSE /\ Cardinality(Owned(u)) = 1
             /\ audit[<<"auth.register", u>>] = 1
             /\ \E t \in Token : user_id[t] = u
    BY DEF RegistrationInv, RegistrationAtomic
  <2>2. Owned(u)' = Owned(u)
    OBVIOUS
  <2> HIDE DEF Owned
  <2> QED BY <2>1, <2>2
<1>2. \A o \in OrgId : orgs'[o] # Nil <=> \E u \in UserId : <<o, u>> \in memberships'
  BY DEF RegistrationInv, RegistrationAtomic
<1> QED BY <1>1, <1>2 DEF RegistrationAtomic

LEMMA CommitSessionWhole ==
    ASSUME Typed, TokenInv, RegistrationInv, NEW r \in Request, NEW ack \in BOOLEAN,
           CommitLogin(r, ack) \/ CommitRefresh(r, ack)
    PROVE  RegistrationInv'
<1> DEFINE n == tx[r].new
<1>1. /\ tx[r].stage \in {"issued", "rotated"} /\ StoreToken(r)
      /\ UNCHANGED <<users, orgs, memberships>>
  BY DEF CommitLogin, CommitRefresh, accountVars
<1>2. n \in Token /\ tx[r].user \in UserId /\ user_id[n] = Nil
  BY <1>1, IssuedShape, NilAssumption DEF TokenInv, PendingTokens
<1>3. PICK e : End(r, ack, e) /\ \A u \in UserId : e # <<"auth.register", u>>
  <2>1. CASE CommitLogin(r, ack)
    <3>1. End(r, ack, <<"auth.login", tx[r].user>>)
      BY <2>1 DEF CommitLogin
    <3> QED BY <3>1
  <2>2. CASE CommitRefresh(r, ack)
    <3>1. End(r, ack, <<"auth.refresh", tx[r].old>>)
      BY <2>2 DEF CommitRefresh
    <3> QED BY <3>1
  <2> QED BY <2>1, <2>2
<1>4. \A u \in UserId : audit'[<<"auth.register", u>>] = audit[<<"auth.register", u>>]
  <2>1. \A u \in UserId : <<"auth.register", u>> \in Event
    BY DEF Event
  <2> QED BY <1>3, <2>1 DEF End, Typed, TypeOK
<1>5. \A t \in Token : user_id[t] # Nil => user_id'[t] = user_id[t]
  BY <1>1, <1>2 DEF StoreToken, Typed, TypeOK
<1>6. \A q \in Request : tx'[q] \in {tx[q], NoTx}
  BY <1>3 DEF End, Typed, TypeOK
<1>7. \A u \in UserId : (\E t \in Token : user_id[t] = u) => \E t \in Token : user_id'[t] = u
  BY <1>5, NilAssumption
<1>8. RegistrationAtomic'
  BY <1>1, <1>4, <1>7, SameAccountsWhole
<1> QED BY <1>1, <1>6, <1>8, EndKeepsRows

LEMMA RegistrationStep == Typed /\ TokenInv /\ RegistrationInv /\ [Next]_vars => RegistrationInv'
<1> SUFFICES ASSUME Typed, TokenInv, RegistrationInv, [Next]_vars PROVE RegistrationInv'
  OBVIOUS
<1>1. ASSUME NEW r \in Request,
             Arrive(r) \/ IssueSession(r) \/ LockingStatement(r) \/ Abort(r)
      PROVE  RegistrationInv'
  BY <1>1, StatementsOwn, WorkIsQuiet, OwnRowsKeep
<1>2. ASSUME NEW r \in Request, NEW ack \in BOOLEAN,
             CommitRegister(r, ack) \/ CommitLogin(r, ack) \/ CommitRefresh(r, ack)
      PROVE  RegistrationInv'
  BY <1>2, CommitRegisterWhole, CommitSessionWhole
<1>3. CASE Crash \/ (\E t \in Token : RevokeAuthRefreshToken(t)) \/ Tick \/ UNCHANGED vars
  <2>1. Quiet
    BY <1>3, RestIsQuiet
  <2>2. tx' = tx \/ tx' = [q \in Request |-> NoTx]
    BY <1>3 DEF Crash, RevokeAuthRefreshToken, Tick, vars
  <2>3. \A q \in Request : tx'[q] \in {tx[q], NoTx}
    BY <2>2
  <2>4. RegistrationAtomic'
    BY <2>1, SameAccountsWhole DEF Quiet
  <2> QED BY <2>1, <2>3, <2>4, EndKeepsRows DEF Quiet
<1> QED BY <1>1, <1>2, <1>3 DEF Next, Statement

LEMMA RegistrationInit == Init => RegistrationInv
BY NilAssumption DEF Init, RegistrationInv, RegistrationAtomic, Event, NoTx

-----------------------------------------------------------------------------
(* The theorems.                                                           *)

LEMMA TokenInvAlways == Spec => []TokenInv
BY TypedAlways, TokenInvInit, TokenStep, PTL DEF Spec

LEMMA RegistrationAlways == Spec => []RegistrationInv
BY TypedAlways, TokenInvAlways, RegistrationInit, RegistrationStep, PTL DEF Spec

LEMMA CountedAlways == Spec => []SessionsCounted
BY TypedAlways, TokenInvAlways, CountedInit, CountedStep, PTL DEF Spec

\* The inductive invariant holds.
THEOREM InvariantHolds == Spec => []SessionInv
<1>1. Typed /\ AccountInv /\ TokenInv /\ RegistrationInv /\ SessionsCounted => SessionInv
  BY DEF Typed, SessionInv
<1> QED BY <1>1, TypedAlways, AccountInvInit, AccountStep, TokenInvAlways,
           RegistrationAlways, CountedAlways, PTL DEF Spec

\* A registration is all or nothing, for any number of users, organizations and requests: one
\* organization, one audit row and a session for each user, and no organization without an
\* owner (the transaction of Register).
THEOREM RegistrationsAreWhole == Spec => []RegistrationAtomic
<1>1. RegistrationInv => RegistrationAtomic
  BY DEF RegistrationInv
<1> QED BY <1>1, RegistrationAlways, PTL

\* However many requests refresh one token at once, a user has as many live tokens as sessions
\* were opened, and finitely many even where there is no bound on tokens (Refresh).
THEOREM SessionsNeverFork == Spec => []OneLiveTokenPerSession
<1>1. SessionsCounted => OneLiveTokenPerSession
  BY DEF SessionsCounted
<1> QED BY <1>1, CountedAlways, PTL

\* Rotation builds chains of stored tokens of one user, whatever refreshes race.
THEOREM RotationBuildsChains == Spec => []RotationChain
<1>1. TokenInv => RotationChain
  BY DEF TokenInv, StoredTokens
<1> QED BY <1>1, TokenInvAlways, PTL

\* The audit log counts every rotation once.
THEOREM RotationsAudited == Spec => []RefreshAudited
<1>1. TokenInv => RefreshAudited
  BY DEF TokenInv, StoredTokens
<1> QED BY <1>1, TokenInvAlways, PTL

\* No session is lost after its response left.
THEOREM DeliveredSurvives == Spec => []DeliveredDurable
<1>1. TokenInv => DeliveredDurable
  BY DEF TokenInv, StoredTokens
<1> QED BY <1>1, TokenInvAlways, PTL

\* What a step can do to the token table: nothing, one new row, a new row and a
\* rotation, or a revocation.
NewRow == \E r \in Request, t \in Token :
    /\ tx[r].new = t /\ user_id[t] = Nil
    /\ tx[r].user \in UserId
    /\ user_id' = [user_id EXCEPT ![t] = tx[r].user]
    /\ expires_at' = [expires_at EXCEPT ![t] = tx[r].expires]
    /\ used' = used /\ revoked' = revoked /\ replaced_by' = replaced_by

RotatedRow == \E r \in Request, o, t \in Token :
    /\ tx[r].old = o /\ tx[r].new = t /\ user_id[t] = Nil
    /\ user_id[o] # Nil /\ o \notin used /\ o \notin revoked
    /\ user_id' = [user_id EXCEPT ![t] = user_id[o]]
    /\ expires_at' = [expires_at EXCEPT ![t] = tx[r].expires]
    /\ used' = used \cup {o} /\ revoked' = revoked
    /\ replaced_by' = [replaced_by EXCEPT ![o] = t]

RevokedRow == \E t \in Token :
    /\ user_id[t] # Nil
    /\ revoked' = revoked \cup {t}
    /\ user_id' = user_id /\ expires_at' = expires_at
    /\ used' = used /\ replaced_by' = replaced_by

TableChange == UNCHANGED tokenVars \/ NewRow \/ RotatedRow \/ RevokedRow

LEMMA TableStep ==
    ASSUME Typed, TokenInv, [Next]_vars
    PROVE  TableChange
<1>1. ASSUME NEW r \in Request, NEW ack \in BOOLEAN,
             CommitRegister(r, ack) \/ CommitLogin(r, ack)
      PROVE  TableChange
  <2>1. tx[r].stage = "issued"
    BY <1>1 DEF CommitRegister, CommitLogin
  <2>2. tx[r].new \in Token /\ user_id[tx[r].new] = Nil /\ tx[r].user \in UserId
    BY <2>1, IssuedShape, NilAssumption DEF TokenInv, PendingTokens
  <2>3. /\ user_id' = [user_id EXCEPT ![tx[r].new] = tx[r].user]
        /\ expires_at' = [expires_at EXCEPT ![tx[r].new] = tx[r].expires]
        /\ used' = used /\ revoked' = revoked /\ replaced_by' = replaced_by
    BY <1>1 DEF CommitRegister, CommitLogin, StoreToken, End
  <2>4. NewRow
    BY <2>2, <2>3 DEF NewRow
  <2> QED BY <2>4 DEF TableChange
<1>2. ASSUME NEW r \in Request, NEW ack \in BOOLEAN, CommitRefresh(r, ack)
      PROVE  TableChange
  <2>1. tx[r].op = "refresh" /\ tx[r].stage = "rotated"
    BY <1>2 DEF CommitRefresh
  <2>2. /\ tx[r].new \in Token /\ tx[r].old \in Token /\ user_id[tx[r].new] = Nil
        /\ tx[r].user \in UserId /\ user_id[tx[r].old] = tx[r].user
        /\ tx[r].old \notin used /\ tx[r].old \notin revoked
    BY <2>1, IssuedShape, NilAssumption DEF TokenInv, PendingTokens
  <2>3. /\ user_id' = [user_id EXCEPT ![tx[r].new] = tx[r].user]
        /\ expires_at' = [expires_at EXCEPT ![tx[r].new] = tx[r].expires]
        /\ used' = used \cup {tx[r].old} /\ revoked' = revoked
        /\ replaced_by' = [replaced_by EXCEPT ![tx[r].old] = tx[r].new]
    BY <1>2 DEF CommitRefresh, StoreToken, End
  <2>4. RotatedRow
    BY <2>2, <2>3, NilAssumption DEF RotatedRow
  <2> QED BY <2>4 DEF TableChange
<1>3. ASSUME NEW t \in Token, RevokeAuthRefreshToken(t)
      PROVE  TableChange
  BY <1>3 DEF RevokeAuthRefreshToken, RevokedRow, TableChange
<1>4. ASSUME NEW r \in Request,
             \/ Arrive(r) \/ IssueSession(r) \/ LockingStatement(r) \/ Abort(r)
      PROVE  TableChange
  <2>1. UNCHANGED tokenVars
    BY <1>4 DEF Arrive, BeginRegister, Login, RefreshCheck, IssueSession, LockingStatement,
                InsertUser, EmailTaken, InsertOrganization, SlugTaken,
                RotateAuthRefreshToken, RotateFindsNoRow, Abort, Work, Rollback
  <2> QED BY <2>1 DEF TableChange
<1>5. CASE Crash \/ Tick \/ UNCHANGED vars
  <2>1. UNCHANGED tokenVars
    BY <1>5 DEF Crash, Tick, vars
  <2> QED BY <2>1 DEF TableChange
<1> QED BY <1>1, <1>2, <1>3, <1>4, <1>5 DEF Next, Statement

LEMMA RowsFinalStep == Typed /\ TokenInv /\ [Next]_vars =>
    \A t \in Token :
      /\ user_id[t] # Nil => user_id'[t] = user_id[t] /\ expires_at'[t] = expires_at[t]
      /\ t \in used => t \in used'
      /\ t \in revoked => t \in revoked'
      /\ t \in used \cup revoked => replaced_by'[t] = replaced_by[t]
<1> SUFFICES ASSUME Typed, TokenInv, [Next]_vars, NEW t \in Token
             PROVE  /\ user_id[t] # Nil => user_id'[t] = user_id[t] /\ expires_at'[t] = expires_at[t]
                    /\ t \in used => t \in used'
                    /\ t \in revoked => t \in revoked'
                    /\ t \in used \cup revoked => replaced_by'[t] = replaced_by[t]
  OBVIOUS
<1>1. /\ user_id \in [Token -> UserId \cup {Nil}] /\ expires_at \in [Token -> Nat]
      /\ replaced_by \in [Token -> Token \cup {Nil}]
  BY DEF Typed, TypeOK
<1> QED BY <1>1, TableStep DEF TableChange, NewRow, RotatedRow, RevokedRow, tokenVars

\* Rows once written stay, and nothing follows a used or revoked token twice.
THEOREM RowsStayFinal == Spec => RowsAreFinal
BY TypedAlways, TokenInvAlways, RowsFinalStep, PTL DEF Spec, RowsAreFinal

\* The handlers implement the abstract token store.
THEOREM Refinement == Spec => ImplementsTokenChain
<1>1. Init => Chain!Init
  BY DEF Init, Chain!Init
<1>2. Typed /\ TokenInv /\ [Next]_vars => [Chain!Next]_Chain!vars
  <2> SUFFICES ASSUME Typed, TokenInv, [Next]_vars PROVE [Chain!Next]_Chain!vars
    OBVIOUS
  <2>0. /\ user_id \in [Token -> UserId \cup {Nil}]
        /\ \A t \in Token : t \in used <=> replaced_by[t] # Nil
    BY DEF Typed, TypeOK, TokenInv, StoredTokens, RotationChain
  <2>1. CASE UNCHANGED tokenVars
    BY <2>1 DEF tokenVars, Chain!vars
  <2>2. ASSUME NEW r \in Request, NEW t \in Token,
               tx[r].user \in UserId, user_id[t] = Nil,
               user_id' = [user_id EXCEPT ![t] = tx[r].user],
               UNCHANGED <<revoked, replaced_by>>
        PROVE  Chain!Open(tx[r].user, t)
    BY <2>2 DEF Chain!Open
  <2>3. ASSUME NEW r \in Request, NEW o \in Token, NEW t \in Token,
               user_id[t] = Nil, user_id[o] # Nil, o \notin used, o \notin revoked,
               user_id' = [user_id EXCEPT ![t] = user_id[o]],
               replaced_by' = [replaced_by EXCEPT ![o] = t],
               UNCHANGED revoked
        PROVE  Chain!Rotate(o, t)
    BY <2>0, <2>3 DEF Chain!Rotate
  <2>4. ASSUME NEW t \in Token, user_id[t] # Nil, revoked' = revoked \cup {t},
               UNCHANGED <<user_id, replaced_by>>
        PROVE  Chain!Revoke(t)
    BY <2>4 DEF Chain!Revoke
  <2> QED BY <2>1, <2>2, <2>3, <2>4, TableStep
          DEF Chain!Next, TableChange, NewRow, RotatedRow, RevokedRow
<1> QED BY <1>1, <1>2, TypedAlways, TokenInvAlways, PTL
        DEF Spec, ImplementsTokenChain, Chain!Spec
=============================================================================
