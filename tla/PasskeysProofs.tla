--------------------------- MODULE PasskeysProofs ----------------------------
(***************************************************************************)
(* Proofs about Passkeys, for any number of users, passkeys, ceremonies    *)
(* and requests: a finish request that holds the row of a passkey is the   *)
(* only one, and what a ceremony and a passkey are never changes, so that  *)
(* what a request has read of them stays good until it commits.            *)
(***************************************************************************)
EXTENDS Passkeys, TLAPS

Begins == {"begin_registration", "begin_login"}
Op == {"none", "finish_registration", "finish_login"} \cup Begins

Tx == [op : Op, stage : Stage, user : UserId \cup {Nil}, handle : Handle \cup {Nil},
       session : Session \cup {Nil}, passkey : Credential \cup {Nil}, count : Nat]

\* The rows and what the clients keep.
StoreOK ==
    /\ now \in Nat
    /\ handle \in [UserId -> Handle \cup {Nil}]
    /\ ceremony \in [Session -> Ceremony]
    /\ open \subseteq Session
    /\ owner \in [Credential -> UserId \cup {Nil}]
    /\ counter \in [Credential -> Nat]
    /\ audit \in [Event -> Nat]
    /\ device \in [Credential -> [session : Session \cup {Nil}, handle : Handle \cup {Nil},
                                  count : 0..MaxCounter]]
    /\ answers \subseteq Answer
    /\ known \subseteq Session

\* What a request works on at each stage.
Shape(x) ==
    /\ x.op \notin {"finish_registration", "finish_login"} => x.session = Nil /\ x.passkey = Nil
    /\ x.op \in Begins => x.user \in UserId
    /\ x.op = "finish_login" =>
         x.session \in Session /\ x.passkey \in Credential /\ x.user \in UserId
    /\ x.op = "finish_registration" =>
         /\ x.session \in Session /\ x.passkey \in Credential /\ x.user \in UserId
         /\ device[x.passkey].session = x.session
         /\ ceremony[x.session] # NoCeremony /\ ceremony[x.session].user = x.user
         /\ x.stage = "locked" => owner[x.passkey] = Nil

\* Two requests that have written the row of one passkey.
Same(x, y) ==
    /\ x.stage = "locked" /\ y.stage = "locked"
    /\ x.passkey # Nil /\ x.passkey = y.passkey
Locks == \A q, r \in Request : Same(tx[q], tx[r]) => q = r

\* Passkeys come from ceremonies, and ceremonies from users.
Origins ==
    /\ \A c \in Credential :
         /\ device[c].session # Nil => ceremony[device[c].session] # NoCeremony
         /\ owner[c] # Nil => device[c].session # Nil
    /\ \A s \in Session : ceremony[s] # NoCeremony => ceremony[s].user \in UserId

Requests ==
    /\ tx \in [Request -> Tx]
    /\ \A r \in Request : Shape(tx[r])
    /\ Locks

IInv == StoreOK /\ Requests /\ Origins /\ PasskeyRegisteredOnce

-----------------------------------------------------------------------------
LEMMA NoTxIs ==
    /\ NoTx \in Tx /\ NoTx.op = "none" /\ NoTx.stage = "idle"
    /\ NoTx.session = Nil /\ NoTx.passkey = Nil
BY DEF NoTx, Tx, Op, Stage

LEMMA NoTxShape == Shape(NoTx)
BY NoTxIs DEF Shape, Begins

\* Ceremonies and passkeys keep what they are.
Kept ==
    /\ \A s \in Session : ceremony[s] # NoCeremony => ceremony'[s] = ceremony[s]
    /\ \A c \in Credential : device[c].session # Nil => device'[c].session = device[c].session

LEMMA SameKept == ASSUME UNCHANGED <<ceremony, device>> PROVE Kept
BY DEF Kept

LEMMA ShapeKept ==
    ASSUME Requests, Kept, NEW q \in Request, tx'[q] = tx[q],
           tx[q].stage = "locked" /\ tx[q].op = "finish_registration" =>
               owner'[tx[q].passkey] = owner[tx[q].passkey]
    PROVE  Shape(tx[q])'
<1>1. Shape(tx[q])
  BY DEF Requests
<1>2. tx[q].op = "finish_registration" =>
        /\ device'[tx[q].passkey].session = tx[q].session
        /\ ceremony'[tx[q].session] = ceremony[tx[q].session]
  BY <1>1, PasskeyAssumption DEF Shape, Kept
<1> QED
  BY <1>1, <1>2 DEF Shape

\* One request moves to x.
LEMMA MoveKeeps ==
    ASSUME Requests, Kept, NEW r \in Request, NEW x \in Tx, tx' = [tx EXCEPT ![r] = x],
           Shape(tx[r])', \A q \in Request \ {r} : ~Same(tx[q], x) /\ ~Same(x, tx[q]),
           \A q \in Request \ {r} : tx[q].stage = "locked" /\ tx[q].op = "finish_registration" =>
               owner'[tx[q].passkey] = owner[tx[q].passkey]
    PROVE  Requests'
<1>1. \A q \in Request : tx'[q] = IF q = r THEN x ELSE tx[q]
  BY DEF Requests
<1>2. tx' \in [Request -> Tx]
  BY DEF Requests
<1>3. ASSUME NEW q \in Request PROVE Shape(tx[q])'
  <2>1. CASE q = r
    BY <2>1
  <2>2. CASE q # r
    BY <1>1, <2>2, ShapeKept
  <2> QED BY <2>1, <2>2
<1>4. Locks'
  BY <1>1 DEF Requests, Locks, Same
<1> QED
  BY <1>2, <1>3, <1>4 DEF Requests

\* ... and no row changes.
LEMMA WorkKeeps ==
    ASSUME IInv, NEW r \in Request, NEW x \in Tx, Work(r, x), Shape(x),
           \A q \in Request \ {r} : ~Same(tx[q], x) /\ ~Same(x, tx[q])
    PROVE  IInv'
<1>1. tx' = [tx EXCEPT ![r] = x]
      /\ UNCHANGED <<now, handle, ceremony, open, owner, counter, audit, device, answers, known>>
  BY DEF Work, rows, clients
<1>2. tx'[r] = x
  BY <1>1 DEF IInv, Requests
<1>3. Shape(tx[r])'
  BY <1>1, <1>2 DEF Shape
<1>4. Requests'
  BY <1>1, <1>3, SameKept, MoveKeeps DEF IInv
<1>5. StoreOK' /\ Origins' /\ PasskeyRegisteredOnce'
  BY <1>1 DEF IInv, StoreOK, Origins, PasskeyRegisteredOnce
<1> QED
  BY <1>4, <1>5 DEF IInv

LEMMA UnlockedKeeps ==
    ASSUME IInv, NEW r \in Request, NEW x \in Tx, Work(r, x), Shape(x),
           x.stage # "locked" \/ x.passkey = Nil
    PROVE  IInv'
BY WorkKeeps DEF Same

LEMMA RollbackKeeps == ASSUME IInv, NEW r \in Request, Rollback(r) PROVE IInv'
BY UnlockedKeeps, NoTxIs, NoTxShape DEF Rollback

\* A transaction that ends.
LEMMA EndKeeps ==
    ASSUME IInv, Kept, NEW r \in Request, End(r),
           \A q \in Request \ {r} : tx[q].stage = "locked" /\ tx[q].op = "finish_registration" =>
               owner'[tx[q].passkey] = owner[tx[q].passkey]
    PROVE  Requests'
<1>1. tx' = [tx EXCEPT ![r] = NoTx] /\ tx'[r] = NoTx
  BY DEF End, IInv, Requests
<1>2. tx'[r].op = "none" /\ tx'[r].session = Nil /\ tx'[r].passkey = Nil
  BY <1>1, NoTxIs
<1>3. Shape(tx[r])'
  BY <1>2 DEF Shape, Begins
<1> QED
  BY <1>1, <1>3, NoTxIs, MoveKeeps DEF IInv, Same

-----------------------------------------------------------------------------
(* The beginnings                                                          *)

LEMMA BeginKeeps ==
    ASSUME IInv, NEW r \in Request, NEW u \in UserId, NEW op \in Begins, Begin(r, u, op)
    PROVE  IInv'
<1> DEFINE x == [NoTx EXCEPT !.op = op, !.user = u, !.handle = handle[u],
                             !.stage = IF handle[u] = Nil THEN "read" ELSE "ready"]
<1>1. handle[u] \in Handle \cup {Nil}
  BY DEF IInv, StoreOK
<1>2. x \in Tx /\ x.op = op /\ x.user = u /\ x.session = Nil /\ x.passkey = Nil
  BY <1>1 DEF NoTx, Tx, Op, Begins, Stage
<1>3. Work(r, x)
  BY DEF Begin
<1> HIDE DEF x
<1>4. Shape(x)
  BY <1>2 DEF Shape, Begins
<1> QED
  BY <1>2, <1>3, <1>4, UnlockedKeeps

LEMMA SetHandleKeeps == ASSUME IInv, NEW r \in Request, SetHandle(r) PROVE IInv'
<1>1. PICK h \in FreshHandle :
         \/ /\ tx[r].op = "begin_registration"
            /\ Work(r, [tx[r] EXCEPT !.stage = "locked", !.handle = h])
         \/ /\ tx[r].op = "begin_login"
            /\ handle' = [handle EXCEPT ![tx[r].user] = h]
            /\ tx' = [tx EXCEPT ![r] = [@ EXCEPT !.stage = "ready", !.handle = h]]
            /\ UNCHANGED <<now, ceremony, open, owner, counter, audit, clients>>
  BY DEF SetHandle
<1>2. h \in Handle /\ tx[r] \in Tx /\ Shape(tx[r])
  BY DEF FreshHandle, IInv, Requests
<1>3. CASE /\ tx[r].op = "begin_registration"
           /\ Work(r, [tx[r] EXCEPT !.stage = "locked", !.handle = h])
  <2> DEFINE x == [tx[r] EXCEPT !.stage = "locked", !.handle = h]
  <2>1. /\ x \in Tx /\ x.op = tx[r].op /\ x.user = tx[r].user
        /\ x.session = tx[r].session /\ x.passkey = tx[r].passkey
    BY <1>2 DEF Tx, Stage
  <2>2. Work(r, x)
    BY <1>3
  <2> HIDE DEF x
  <2>3. Shape(x) /\ x.passkey = Nil
    BY <1>2, <1>3, <2>1 DEF Shape
  <2> QED BY <2>1, <2>2, <2>3, UnlockedKeeps
<1>4. CASE /\ tx[r].op = "begin_login"
           /\ handle' = [handle EXCEPT ![tx[r].user] = h]
           /\ tx' = [tx EXCEPT ![r] = [@ EXCEPT !.stage = "ready", !.handle = h]]
           /\ UNCHANGED <<now, ceremony, open, owner, counter, audit, clients>>
  <2> DEFINE x == [tx[r] EXCEPT !.stage = "ready", !.handle = h]
  <2>1. /\ x \in Tx /\ x.op = tx[r].op /\ x.user = tx[r].user /\ x.stage = "ready"
        /\ x.session = tx[r].session /\ x.passkey = tx[r].passkey
    BY <1>2 DEF Tx, Stage
  <2>2. tx' = [tx EXCEPT ![r] = x]
    BY <1>4
  <2> HIDE DEF x
  <2>3. UNCHANGED <<now, ceremony, open, owner, counter, audit, device, answers, known>>
    BY <1>4 DEF clients
  <2>4. tx'[r] = x
    BY <2>2 DEF IInv, Requests
  <2>5. Shape(tx[r])'
    BY <1>2, <1>4, <2>1, <2>4 DEF Shape
  <2>6. Requests'
    BY <2>1, <2>2, <2>3, <2>5, SameKept, MoveKeeps DEF IInv, Same
  <2>7. StoreOK'
    BY <1>2, <1>4, <2>3 DEF IInv, StoreOK
  <2>8. Origins' /\ PasskeyRegisteredOnce'
    BY <2>3 DEF IInv, Origins, PasskeyRegisteredOnce
  <2> QED BY <2>6, <2>7, <2>8 DEF IInv
<1> QED
  BY <1>1, <1>3, <1>4

LEMMA OpenSessionKeeps ==
    ASSUME IInv, NEW r \in Request, NEW ack \in BOOLEAN, NEW flow \in {"registration", "login"},
           NEW allowed \in SUBSET Credential, OpenSession(r, ack, flow, allowed),
           tx[r].op \in Begins, handle' \in [UserId -> Handle \cup {Nil}]
    PROVE  IInv'
<1>1. PICK s \in Session, enforced \in Enforced :
      /\ ceremony[s] = NoCeremony
      /\ ceremony' = [ceremony EXCEPT ![s] = [flow |-> flow, user |-> tx[r].user,
                        handle |-> tx[r].handle, allowed |-> allowed,
                        expires |-> Deadline(enforced)]]
      /\ open' = open \cup {s}
      /\ known' = IF ack THEN known \cup {s} ELSE known
      /\ End(r)
      /\ UNCHANGED <<now, owner, counter, audit, device, answers>>
  BY DEF OpenSession
<1> DEFINE new == [flow |-> flow, user |-> tx[r].user, handle |-> tx[r].handle,
                   allowed |-> allowed, expires |-> Deadline(enforced)]
<1>2. tx[r] \in Tx /\ tx[r].user \in UserId
  BY DEF IInv, Requests, Shape
<1>3. new \in Ceremony /\ new.user \in UserId
  <2>1. Deadline(enforced) \in Int
    BY PasskeyAssumption DEF Deadline, ZeroTime, IInv, StoreOK
  <2> QED BY <1>2, <2>1 DEF Ceremony, Tx
<1>4. ceremony' = [ceremony EXCEPT ![s] = new]
  BY <1>1
<1> HIDE DEF new
<1>5. \A t \in Session : ceremony'[t] = IF t = s THEN new ELSE ceremony[t]
  BY <1>4 DEF IInv, StoreOK
<1>6. Kept
  BY <1>1, <1>5 DEF Kept
<1>7. Requests'
  BY <1>1, <1>6, EndKeeps
<1>8. StoreOK'
  BY <1>1, <1>3, <1>4 DEF IInv, StoreOK
<1>9. ASSUME NEW c \in Credential, device[c].session # Nil
      PROVE  /\ device[c].session \in Session
             /\ ceremony'[device[c].session] = ceremony[device[c].session]
             /\ ceremony[device[c].session] # NoCeremony
  BY <1>9, <1>6 DEF IInv, StoreOK, Origins, Kept
<1>10. Origins'
  <2>1. \A c \in Credential : device[c].session # Nil => ceremony'[device[c].session] # NoCeremony
    BY <1>9
  <2>2. \A t \in Session : ceremony'[t] # NoCeremony => ceremony'[t].user \in UserId
    BY <1>3, <1>5 DEF IInv, Origins
  <2> QED BY <1>1, <2>1, <2>2 DEF IInv, Origins
<1>11. PasskeyRegisteredOnce'
  <2> SUFFICES ASSUME NEW c \in Credential
               PROVE  /\ audit'[<<"auth.webauthn.register", c>>] = IF owner'[c] = Nil THEN 0 ELSE 1
                      /\ owner'[c] # Nil => owner'[c] = ceremony'[device'[c].session].user
    BY DEF PasskeyRegisteredOnce
  <2>1. /\ audit[<<"auth.webauthn.register", c>>] = IF owner[c] = Nil THEN 0 ELSE 1
        /\ owner[c] # Nil => owner[c] = ceremony[device[c].session].user
    BY DEF IInv, PasskeyRegisteredOnce
  <2>2. owner[c] # Nil => ceremony'[device[c].session] = ceremony[device[c].session]
    BY <1>9 DEF IInv, Origins
  <2> QED BY <1>1, <2>1, <2>2
<1> QED
  BY <1>7, <1>8, <1>10, <1>11 DEF IInv

-----------------------------------------------------------------------------
(* The authenticator                                                       *)

LEMMA DeviceKeeps ==
    ASSUME IInv, UNCHANGED <<now, handle, ceremony, open, owner, counter, audit, known, tx>>,
           Kept, device' \in [Credential -> [session : Session \cup {Nil},
                                handle : Handle \cup {Nil}, count : 0..MaxCounter]],
           answers' \subseteq Answer,
           \A c \in Credential : device'[c].session # device[c].session =>
               ceremony[device'[c].session] # NoCeremony
    PROVE  IInv'
<1>1. StoreOK'
  BY DEF IInv, StoreOK
<1>2. Requests'
  <2>1. \A q \in Request : Shape(tx[q])'
    BY ShapeKept DEF IInv
  <2> QED BY <2>1 DEF IInv, Requests, Locks
<1>3. \A c \in Credential : owner[c] # Nil => device'[c].session = device[c].session
  BY DEF IInv, Origins, Kept
<1>4. Origins'
  BY <1>3 DEF IInv, Origins
<1>5. PasskeyRegisteredOnce'
  BY <1>3 DEF IInv, PasskeyRegisteredOnce
<1> QED BY <1>1, <1>2, <1>4, <1>5 DEF IInv

LEMMA CreatePasskeyKeeps == ASSUME IInv, NEW s \in Session, CreatePasskey(s) PROVE IInv'
<1>1. PICK c \in Credential :
         /\ device[c] = NoDevice
         /\ device' = [device EXCEPT ![c] = [session |-> s, handle |-> ceremony[s].handle,
                                             count |-> 0]]
  BY DEF CreatePasskey
<1> DEFINE new == [session |-> s, handle |-> ceremony[s].handle, count |-> 0]
<1>2. ceremony[s] \in Ceremony /\ ceremony[s] # NoCeremony /\ device[c].session = Nil
  BY <1>1 DEF CreatePasskey, NoCeremony, IInv, StoreOK, NoDevice
<1>3. new \in [session : Session \cup {Nil}, handle : Handle \cup {Nil}, count : 0..MaxCounter]
      /\ new.session = s
  BY <1>2, PasskeyAssumption DEF Ceremony
<1>4. device' = [device EXCEPT ![c] = new]
  BY <1>1
<1> HIDE DEF new
<1>5. \A d \in Credential : device'[d] = IF d = c THEN new ELSE device[d]
  BY <1>4 DEF IInv, StoreOK
<1>6. UNCHANGED <<now, handle, ceremony, open, owner, counter, audit, known, tx, answers>>
  BY DEF CreatePasskey, rows
<1>7. Kept
  BY <1>2, <1>5, <1>6 DEF Kept
<1>8. device' \in [Credential -> [session : Session \cup {Nil}, handle : Handle \cup {Nil},
                                  count : 0..MaxCounter]]
  BY <1>3, <1>4 DEF IInv, StoreOK
<1>9. answers' \subseteq Answer
  BY <1>6 DEF IInv, StoreOK
<1> QED
  BY <1>2, <1>3, <1>5, <1>6, <1>7, <1>8, <1>9, DeviceKeeps

LEMMA SignKeeps == ASSUME IInv, NEW s \in Session, NEW c \in Credential, Sign(s, c) PROVE IInv'
<1>1. device[c] \in [session : Session \cup {Nil}, handle : Handle \cup {Nil},
                     count : 0..MaxCounter]
  BY DEF IInv, StoreOK
<1> DEFINE new == [device[c] EXCEPT !.count = @ + 1]
<1>2. new \in [session : Session \cup {Nil}, handle : Handle \cup {Nil}, count : 0..MaxCounter]
      /\ new.session = device[c].session /\ device[c].count + 1 \in 0..MaxCounter
  BY <1>1, PasskeyAssumption DEF Sign
<1>3. device' = [device EXCEPT ![c] = new]
  BY DEF Sign
<1> HIDE DEF new
<1>4. \A d \in Credential : device'[d] = IF d = c THEN new ELSE device[d]
  BY <1>3 DEF IInv, StoreOK
<1>5. UNCHANGED <<now, handle, ceremony, open, owner, counter, audit, known, tx>>
  BY DEF Sign, rows
<1>6. \A d \in Credential : device'[d].session = device[d].session
  BY <1>2, <1>4
<1>7. Kept
  BY <1>5, <1>6 DEF Kept
<1>8. device' \in [Credential -> [session : Session \cup {Nil}, handle : Handle \cup {Nil},
                                  count : 0..MaxCounter]]
  BY <1>2, <1>3 DEF IInv, StoreOK
<1>9. answers' \subseteq Answer
  BY <1>2 DEF Sign, Answer, IInv, StoreOK
<1> QED
  BY <1>5, <1>6, <1>7, <1>8, <1>9, DeviceKeeps

-----------------------------------------------------------------------------
(* The ends                                                                *)

LEMMA FinishRegistrationKeeps ==
    ASSUME IInv, NEW r \in Request, NEW s \in Session, NEW c \in Credential,
           FinishRegistration(r, s, c)
    PROVE  IInv'
<1> DEFINE x == [NoTx EXCEPT !.op = "finish_registration", !.stage = "read",
                             !.user = ceremony[s].user, !.session = s, !.passkey = c]
<1>1. device[c].session = s /\ ceremony[s] \in Ceremony /\ ceremony[s] # NoCeremony
      /\ ceremony[s].user \in UserId
  BY DEF FinishRegistration, NoCeremony, IInv, StoreOK, Origins
<1>2. /\ x \in Tx /\ x.op = "finish_registration" /\ x.stage = "read"
      /\ x.user = ceremony[s].user /\ x.session = s /\ x.passkey = c
  BY <1>1 DEF NoTx, Tx, Op, Stage, Ceremony
<1>3. Work(r, x)
  BY DEF FinishRegistration
<1> HIDE DEF x
<1>4. Shape(x)
  BY <1>1, <1>2 DEF Shape, Begins
<1> QED
  BY <1>2, <1>3, <1>4, UnlockedKeeps

LEMMA FinishLoginKeeps ==
    ASSUME IInv, NEW r \in Request, NEW a \in answers, FinishLogin(r, a)
    PROVE  IInv'
<1> DEFINE x == [NoTx EXCEPT !.op = "finish_login", !.stage = "read",
                            !.user = ceremony[a.session].user, !.session = a.session,
                            !.passkey = a.passkey, !.count = a.count]
<1>1. a.session \in Session /\ a.passkey \in Credential /\ a.count \in Nat
      /\ ceremony[a.session].user \in UserId
  BY PasskeyAssumption DEF FinishLogin, NoCeremony, IInv, StoreOK, Origins, Answer
<1>2. /\ x \in Tx /\ x.op = "finish_login" /\ x.stage = "read"
      /\ x.session = a.session /\ x.passkey = a.passkey /\ x.user = ceremony[a.session].user
  BY <1>1 DEF NoTx, Tx, Op, Stage
<1>3. Work(r, x)
  BY DEF FinishLogin
<1> HIDE DEF x
<1>4. Shape(x)
  BY <1>1, <1>2 DEF Shape, Begins
<1> QED
  BY <1>2, <1>3, <1>4, UnlockedKeeps

LEMMA ReadUserKeeps == ASSUME IInv, NEW r \in Request, ReadUser(r) PROVE IInv'
<1> DEFINE h == handle[tx[r].user]
           x == [tx[r] EXCEPT !.stage = "user", !.handle = h]
<1>1. tx[r] \in Tx /\ Shape(tx[r]) /\ tx[r].user \in UserId /\ tx[r].op \notin Begins
  BY DEF IInv, Requests, Shape, ReadUser, Begins
<1>2. h \in Handle \cup {Nil}
  BY <1>1 DEF IInv, StoreOK
<1> HIDE DEF h
<1>3. /\ x \in Tx /\ x.stage = "user" /\ x.op = tx[r].op /\ x.user = tx[r].user
      /\ x.session = tx[r].session /\ x.passkey = tx[r].passkey
  BY <1>1, <1>2 DEF Tx, Stage
<1>4. Work(r, x)
  BY DEF ReadUser, h
<1> HIDE DEF x
<1>5. Shape(x)
  BY <1>1, <1>3 DEF Shape
<1> QED
  BY <1>3, <1>4, <1>5, UnlockedKeeps

\* A statement that has waited for the row of the passkey.
LEMMA LockKeeps ==
    ASSUME IInv, NEW r \in Request, Work(r, [tx[r] EXCEPT !.stage = "locked"]),
           ~PasskeyLocked(tx[r].passkey),
           tx[r].op = "finish_registration" => owner[tx[r].passkey] = Nil
    PROVE  IInv'
<1> DEFINE x == [tx[r] EXCEPT !.stage = "locked"]
<1>1. tx[r] \in Tx /\ Shape(tx[r])
  BY DEF IInv, Requests
<1>2. /\ x \in Tx /\ x.stage = "locked" /\ x.op = tx[r].op /\ x.user = tx[r].user
      /\ x.session = tx[r].session /\ x.passkey = tx[r].passkey
  BY <1>1 DEF Tx, Stage
<1>3. Work(r, x)
  OBVIOUS
<1> HIDE DEF x
<1>4. Shape(x)
  BY <1>1, <1>2 DEF Shape
<1>5. \A q \in Request : ~Same(tx[q], x) /\ ~Same(x, tx[q])
  BY <1>2 DEF Same, PasskeyLocked
<1> QED
  BY <1>2, <1>3, <1>4, <1>5, WorkKeeps

LEMMA ValidateLoginKeeps == ASSUME IInv, NEW r \in Request, ValidateLogin(r) PROVE IInv'
<1> DEFINE count == NewCounter(counter[tx[r].passkey], tx[r].count)
           x == [tx[r] EXCEPT !.stage = "ready", !.count = count]
<1>1. tx[r] \in Tx /\ Shape(tx[r]) /\ tx[r].passkey \in Credential
  BY DEF IInv, Requests, Shape, ValidateLogin
<1>2. count \in Nat
  BY <1>1 DEF NewCounter, IInv, StoreOK, Tx
<1> HIDE DEF count
<1>3. /\ x \in Tx /\ x.stage = "ready" /\ x.op = tx[r].op /\ x.user = tx[r].user
      /\ x.session = tx[r].session /\ x.passkey = tx[r].passkey
  BY <1>1, <1>2 DEF Tx, Stage
<1>4. Work(r, x)
  BY DEF ValidateLogin, count
<1> HIDE DEF x
<1>5. Shape(x)
  BY <1>1, <1>3 DEF Shape, ValidateLogin
<1> QED
  BY <1>3, <1>4, <1>5, UnlockedKeeps

LEMMA CommitRegistrationKeeps == ASSUME IInv, NEW r \in Request, CommitRegistration(r) PROVE IInv'
<1> DEFINE c == tx[r].passkey
           event == <<"auth.webauthn.register", c>>
<1>1. /\ tx[r] \in Tx /\ tx[r].stage = "locked" /\ c \in Credential /\ tx[r].user \in UserId
      /\ device[c].session = tx[r].session /\ tx[r].session \in Session
      /\ ceremony[tx[r].session].user = tx[r].user /\ owner[c] = Nil
  BY DEF CommitRegistration, IInv, Requests, Shape
<1>2. /\ owner' = [owner EXCEPT ![c] = tx[r].user]
      /\ open' = open \ {tx[r].session}
      /\ audit' = [audit EXCEPT ![event] = @ + 1]
      /\ End(r)
      /\ UNCHANGED <<now, handle, ceremony, counter, device, answers, known>>
  BY DEF CommitRegistration, clients
<1>3. event \in Event
  BY <1>1 DEF Event
<1>4. \A d \in Credential :
        /\ owner'[d] = IF d = c THEN tx[r].user ELSE owner[d]
        /\ audit'[<<"auth.webauthn.register", d>>] =
             IF d = c THEN audit[<<"auth.webauthn.register", d>>] + 1
             ELSE audit[<<"auth.webauthn.register", d>>]
  BY <1>1, <1>2 DEF IInv, StoreOK, Event
<1>5. StoreOK'
  BY <1>1, <1>2, <1>3 DEF IInv, StoreOK
<1> HIDE DEF event
<1>6. ASSUME NEW q \in Request \ {r}, tx[q].stage = "locked", tx[q].op = "finish_registration"
      PROVE  owner'[tx[q].passkey] = owner[tx[q].passkey]
  <2>1. tx[q].passkey \in Credential /\ tx[q].passkey # Nil
    BY <1>6, PasskeyAssumption DEF IInv, Requests, Shape
  <2>2. tx[q].passkey # c
    BY <1>1, <1>6, <2>1 DEF IInv, Requests, Locks, Same
  <2> QED BY <2>1, <2>2, <1>4
<1>7. Requests'
  BY <1>2, <1>6, SameKept, EndKeeps
<1>8. Origins'
  <2>1. device[c].session # Nil
    BY <1>1, PasskeyAssumption
  <2> QED BY <1>2, <1>4, <2>1 DEF IInv, Origins
<1>9. PasskeyRegisteredOnce'
  <2> SUFFICES ASSUME NEW d \in Credential
               PROVE  /\ audit'[<<"auth.webauthn.register", d>>] = IF owner'[d] = Nil THEN 0 ELSE 1
                      /\ owner'[d] # Nil => owner'[d] = ceremony'[device'[d].session].user
    BY DEF PasskeyRegisteredOnce
  <2>1. /\ audit[<<"auth.webauthn.register", d>>] = IF owner[d] = Nil THEN 0 ELSE 1
        /\ owner[d] # Nil => owner[d] = ceremony[device[d].session].user
    BY DEF IInv, PasskeyRegisteredOnce
  <2>2. tx[r].user # Nil
    BY <1>1, PasskeyAssumption
  <2> QED BY <1>1, <1>2, <1>4, <2>1, <2>2
<1> QED
  BY <1>5, <1>7, <1>8, <1>9 DEF IInv

LEMMA CommitLoginKeeps == ASSUME IInv, NEW r \in Request, CommitLogin(r) PROVE IInv'
<1> DEFINE event == <<"auth.webauthn.login", tx[r].passkey>>
<1>1. tx[r] \in Tx /\ tx[r].passkey \in Credential /\ event \in Event
  BY DEF CommitLogin, IInv, Requests, Shape, Event
<1>2. /\ counter' = [counter EXCEPT ![tx[r].passkey] = tx[r].count]
      /\ open' = open \ {tx[r].session}
      /\ audit' = [audit EXCEPT ![event] = @ + 1]
      /\ End(r)
      /\ UNCHANGED <<now, handle, ceremony, owner, device, answers, known>>
  BY DEF CommitLogin, clients
<1>3. \A d \in Credential :
        audit'[<<"auth.webauthn.register", d>>] = audit[<<"auth.webauthn.register", d>>]
  BY <1>1, <1>2 DEF IInv, StoreOK, Event
<1>4. tx[r].count \in Nat
  BY <1>1 DEF Tx
<1>5. StoreOK'
  BY <1>1, <1>2, <1>4 DEF IInv, StoreOK
<1>6. Requests'
  BY <1>2, SameKept, EndKeeps
<1>7. Origins' /\ PasskeyRegisteredOnce'
  BY <1>2, <1>3 DEF IInv, Origins, PasskeyRegisteredOnce
<1> QED
  BY <1>5, <1>6, <1>7 DEF IInv

-----------------------------------------------------------------------------
(* All steps                                                               *)

LEMMA InitHolds == Init => IInv
<1> SUFFICES ASSUME Init PROVE IInv
  OBVIOUS
<1>1. /\ NoCeremony \in Ceremony
      /\ NoDevice \in [session : Session \cup {Nil}, handle : Handle \cup {Nil},
                       count : 0..MaxCounter] /\ NoDevice.session = Nil
  BY PasskeyAssumption DEF NoCeremony, Ceremony, NoDevice
<1>2. StoreOK
  BY <1>1 DEF Init, StoreOK
<1>3. \A r \in Request : tx[r] = NoTx
  BY DEF Init
<1>4. Requests
  BY <1>3, NoTxIs, NoTxShape DEF Init, Requests, Locks, Same
<1>5. Origins
  BY <1>1 DEF Init, Origins
<1>6. PasskeyRegisteredOnce
  BY DEF Init, PasskeyRegisteredOnce, Event
<1> QED
  BY <1>2, <1>4, <1>5, <1>6 DEF IInv

LEMMA CommitBeginKeeps ==
    ASSUME IInv, NEW r \in Request, NEW ack \in BOOLEAN, CommitBeginRegistration(r, ack)
    PROVE  IInv'
<1>1. tx[r] \in Tx /\ tx[r].user \in UserId /\ tx[r].op \in Begins /\ {} \in SUBSET Credential
  BY DEF CommitBeginRegistration, IInv, Requests, Shape, Begins
\* A locked request carries a handle or none; StoreOK admits both.
<1>2. handle' \in [UserId -> Handle \cup {Nil}]
  BY <1>1 DEF CommitBeginRegistration, IInv, StoreOK, Tx
<1> QED
  BY <1>1, <1>2, OpenSessionKeeps DEF CommitBeginRegistration

LEMMA OpenLoginKeeps ==
    ASSUME IInv, NEW r \in Request, NEW ack \in BOOLEAN, OpenLogin(r, ack)
    PROVE  IInv'
<1>1. tx[r].op \in Begins /\ PasskeysOf(tx[r].user) \in SUBSET Credential
      /\ OpenSession(r, ack, "login", PasskeysOf(tx[r].user))
  BY DEF OpenLogin, Begins, PasskeysOf
<1>2. handle' \in [UserId -> Handle \cup {Nil}]
  BY DEF OpenLogin, IInv, StoreOK
<1> QED
  BY <1>1, <1>2, OpenSessionKeeps

LEMMA RefusalKeeps ==
    ASSUME IInv, NEW r \in Request,
           NoPasskeys(r) \/ PasskeyRefused(r) \/ LoginRefused(r) \/ Abort(r)
    PROVE  IInv'
BY RollbackKeeps DEF NoPasskeys, PasskeyRefused, LoginRefused, Abort

LEMMA RegisteringKeeps == ASSUME IInv, NEW r \in Request, Registering(r) PROVE IInv'
<1>1. CASE \E u \in UserId : BeginRegistration(r, u)
  BY <1>1, BeginKeeps DEF BeginRegistration, Begins
<1>2. CASE \E ack \in BOOLEAN : CommitBeginRegistration(r, ack)
  BY <1>2, CommitBeginKeeps
<1>3. CASE \E s \in Session, c \in Credential : FinishRegistration(r, s, c)
  BY <1>3, FinishRegistrationKeeps
<1>4. CASE StorePasskey(r)
  BY <1>4, LockKeeps DEF StorePasskey
<1>5. CASE PasskeyRefused(r) \/ CommitRegistration(r)
  BY <1>5, RefusalKeeps, CommitRegistrationKeeps
<1> QED
  BY <1>1, <1>2, <1>3, <1>4, <1>5 DEF Registering

LEMMA LoggingInKeeps == ASSUME IInv, NEW r \in Request, LoggingIn(r) PROVE IInv'
<1>1. CASE \E u \in UserId : BeginLogin(r, u)
  BY <1>1, BeginKeeps DEF BeginLogin, Begins
<1>2. CASE \E ack \in BOOLEAN : OpenLogin(r, ack)
  BY <1>2, OpenLoginKeeps
<1>3. CASE \E a \in answers : FinishLogin(r, a)
  BY <1>3, FinishLoginKeeps
<1>4. CASE UpdatePasskey(r)
  BY <1>4, LockKeeps DEF UpdatePasskey
<1>5. CASE NoPasskeys(r) \/ ValidateLogin(r) \/ LoginRefused(r) \/ CommitLogin(r)
  BY <1>5, RefusalKeeps, ValidateLoginKeeps, CommitLoginKeeps
<1> QED
  BY <1>1, <1>2, <1>3, <1>4, <1>5 DEF LoggingIn

LEMMA CrashKeeps == ASSUME IInv, Crash PROVE IInv'
<1>1. UNCHANGED <<now, handle, ceremony, open, owner, counter, audit, device, answers, known>>
  BY DEF Crash, rows, clients
<1>2. tx' \in [Request -> Tx] /\ \A r \in Request : tx'[r] = NoTx
  BY NoTxIs DEF Crash
<1>3. \A r \in Request : Shape(tx[r])'
  BY <1>2, NoTxIs DEF Shape, Begins
<1>4. Requests'
  BY <1>2, <1>3, NoTxIs DEF Requests, Locks, Same
<1>5. StoreOK' /\ Origins' /\ PasskeyRegisteredOnce'
  BY <1>1 DEF IInv, StoreOK, Origins, PasskeyRegisteredOnce
<1> QED
  BY <1>4, <1>5 DEF IInv

LEMMA RestKeeps == ASSUME IInv, Tick \/ UNCHANGED vars PROVE IInv'
<1>1. UNCHANGED <<handle, ceremony, open, owner, counter, audit, device, answers, known, tx>>
  BY DEF Tick, vars, rows, clients
<1>2. now' \in Nat
  BY DEF Tick, vars, IInv, StoreOK
<1>3. StoreOK' /\ Origins' /\ PasskeyRegisteredOnce'
  BY <1>1, <1>2 DEF IInv, StoreOK, Origins, PasskeyRegisteredOnce
<1>4. Requests'
  BY <1>1 DEF IInv, Requests, Shape, Locks, Same
<1> QED
  BY <1>3, <1>4 DEF IInv

LEMMA NextKeeps == IInv /\ [Next]_vars => IInv'
<1> SUFFICES ASSUME IInv, [Next]_vars PROVE IInv'
  OBVIOUS
<1>1. ASSUME NEW r \in Request,
             SetHandle(r) \/ ReadUser(r) \/ Registering(r) \/ LoggingIn(r) \/ Abort(r)
      PROVE  IInv'
  BY <1>1, SetHandleKeeps, ReadUserKeeps, RegisteringKeeps, LoggingInKeeps, RefusalKeeps
<1>2. ASSUME NEW s \in Session, CreatePasskey(s) \/ \E c \in Credential : Sign(s, c)
      PROVE  IInv'
  BY <1>2, CreatePasskeyKeeps, SignKeeps
<1> QED
  BY <1>1, <1>2, CrashKeeps, RestKeeps DEF Next

LEMMA AlwaysIInv == Spec => []IInv
BY InitHolds, NextKeeps, PTL DEF Spec

-----------------------------------------------------------------------------
(* The theorems                                                            *)

\* Every row, every answer and every request of the two ceremonies is of its type, whatever
\* is repeated, aborted or cut off by a crash (the handlers of webauthn.go).
THEOREM TypeCorrect == Spec => []TypeOK
<1>1. IInv => TypeOK
  BY DEF IInv, StoreOK, Requests, Tx, TypeOK
<1> QED
  BY AlwaysIInv, <1>1, PTL

\* A passkey is registered at most once, for the user of the ceremony it was created in, and
\* is recorded once, however many finish requests carry it at a time: the row of the first
\* is waited for, and refused to the others (FinishWebAuthnRegistration).
THEOREM RegisteredOnce == Spec => []PasskeyRegisteredOnce
<1>1. IInv => PasskeyRegisteredOnce
  BY DEF IInv
<1> QED
  BY AlwaysIInv, <1>1, PTL

-----------------------------------------------------------------------------
(* What lasts                                                              *)

\* Nothing that requests rely on is taken back.
Lasting ==
    /\ Kept
    /\ \A c \in Credential :
         /\ device[c].session # Nil => device'[c].handle = device[c].handle
         /\ device'[c].count >= device[c].count
         /\ owner[c] # Nil => owner'[c] = owner[c]

LEMMA DeviceType ==
    ASSUME IInv, NEW c \in Credential
    PROVE  device[c].count \in Nat /\ counter[c] \in Nat
BY PasskeyAssumption DEF IInv, StoreOK

LEMMA OpenSessionLasts ==
    ASSUME IInv, NEW r \in Request, NEW ack, NEW flow, NEW allowed,
           OpenSession(r, ack, flow, allowed)
    PROVE  Lasting
<1>1. \A s \in Session : ceremony[s] # NoCeremony => ceremony'[s] = ceremony[s]
  BY DEF OpenSession, IInv, StoreOK
<1>2. owner' = owner /\ device' = device
  BY DEF OpenSession
<1> QED BY <1>1, <1>2, DeviceType DEF Lasting, Kept

LEMMA SameLasts == ASSUME IInv, UNCHANGED <<ceremony, owner, device>> PROVE Lasting
BY DeviceType DEF Lasting, Kept

\* No step takes a registered passkey, its origin or its ceremony back.
LEMMA StepLasts == IInv /\ [Next]_vars => Lasting
<1> SUFFICES ASSUME IInv, [Next]_vars PROVE Lasting
  OBVIOUS
<1>1. ASSUME NEW r \in Request, SetHandle(r) \/ ReadUser(r) \/ Abort(r) PROVE Lasting
  BY <1>1, SameLasts DEF SetHandle, ReadUser, Abort, Rollback, Work, rows, clients
<1>2. ASSUME NEW r \in Request, Registering(r) PROVE Lasting
  <2>1. CASE \E ack \in BOOLEAN : CommitBeginRegistration(r, ack)
    BY <2>1, OpenSessionLasts DEF CommitBeginRegistration
  <2>2. CASE CommitRegistration(r)
    <3>1. owner[tx[r].passkey] = Nil
      BY <2>2 DEF CommitRegistration, IInv, Requests, Shape
    <3>2. \A c \in Credential : owner[c] # Nil => owner'[c] = owner[c]
      BY <2>2, <3>1 DEF CommitRegistration, IInv, StoreOK
    <3>3. ceremony' = ceremony /\ device' = device
      BY <2>2 DEF CommitRegistration, clients
    <3> QED BY <3>2, <3>3, DeviceType DEF Lasting, Kept
  <2>3. CASE \/ \E u \in UserId : BeginRegistration(r, u)
             \/ \E s \in Session, c \in Credential : FinishRegistration(r, s, c)
             \/ StorePasskey(r) \/ PasskeyRefused(r)
    BY <2>3, SameLasts DEF BeginRegistration, Begin, FinishRegistration, StorePasskey,
         PasskeyRefused, Rollback, Work, rows, clients
  <2> QED BY <1>2, <2>1, <2>2, <2>3 DEF Registering
<1>3. ASSUME NEW r \in Request, LoggingIn(r) PROVE Lasting
  <2>1. CASE \E ack \in BOOLEAN : OpenLogin(r, ack)
    BY <2>1, OpenSessionLasts DEF OpenLogin
  <2>2. CASE \/ \E u \in UserId : BeginLogin(r, u)
             \/ NoPasskeys(r) \/ \E a \in answers : FinishLogin(r, a)
             \/ ValidateLogin(r) \/ LoginRefused(r) \/ UpdatePasskey(r) \/ CommitLogin(r)
    BY <2>2, SameLasts DEF BeginLogin, Begin, NoPasskeys, FinishLogin, ValidateLogin, LoginRefused,
         UpdatePasskey, CommitLogin, Rollback, Work, rows, clients
  <2> QED BY <1>3, <2>1, <2>2 DEF LoggingIn
<1>4. ASSUME NEW s \in Session, CreatePasskey(s) PROVE Lasting
  <2>1. PICK c \in Credential :
          /\ device[c] = NoDevice
          /\ device' = [device EXCEPT ![c] = [session |-> s, handle |-> ceremony[s].handle,
                                             count |-> 0]]
    BY <1>4 DEF CreatePasskey
  <2>2. device[c].session = Nil /\ device[c].count = 0
    BY <2>1 DEF NoDevice
  <2>3. \A d \in Credential : /\ d # c => device'[d] = device[d]
                              /\ device'[c].count = 0
    BY <2>1 DEF IInv, StoreOK
  <2>4. ceremony' = ceremony /\ owner' = owner
    BY <1>4 DEF CreatePasskey, rows
  <2> QED BY <2>2, <2>3, <2>4, DeviceType DEF Lasting, Kept
<1>5. ASSUME NEW s \in Session, NEW c \in Credential, Sign(s, c) PROVE Lasting
  <2>1. \A d \in Credential : /\ device'[d].session = device[d].session
                              /\ device'[d].handle = device[d].handle
                              /\ device'[d].count \in {device[d].count, device[d].count + 1}
    BY <1>5 DEF Sign, IInv, StoreOK
  <2>2. ceremony' = ceremony /\ owner' = owner
    BY <1>5 DEF Sign, rows
  <2> QED BY <2>1, <2>2, DeviceType DEF Lasting, Kept
<1>6. CASE Crash \/ Tick \/ UNCHANGED vars
  BY <1>6, SameLasts DEF Crash, Tick, vars, rows, clients
<1> QED BY <1>1, <1>2, <1>3, <1>4, <1>5, <1>6 DEF Next

-----------------------------------------------------------------------------
(* The handles                                                             *)

\* A handle that a begin has written but not committed is nobody else's.
HandlesOwned == \A r \in Request :
    tx[r].op = "begin_registration" /\ tx[r].stage = "locked" =>
      /\ tx[r].handle \in Handle
      /\ \A u \in UserId : handle[u] # tx[r].handle
      /\ \A s \in Session : ceremony[s].handle # tx[r].handle
      /\ \A q \in Request \ {r} : tx[q].handle # tx[r].handle

\* A step of r that generates no handle: r takes over a handle it has read, or ends; what
\* it leaves in the tables is the handle it had.
Moves(r) ==
    /\ \A q \in Request \ {r} : tx'[q] = tx[q]
    /\ tx'[r].op = "begin_registration" => tx'[r].stage # "locked"
    /\ tx'[r].handle \in {tx[r].handle, Nil} \/ \E u \in UserId : tx'[r].handle = handle[u]
    /\ \A u \in UserId : handle'[u] \in {handle[u], tx[r].handle}
    /\ \A s \in Session : ceremony'[s].handle \in {ceremony[s].handle, tx[r].handle}

LEMMA WorkMoves ==
    ASSUME IInv, NEW r \in Request, NEW x, Work(r, x),
           x.op = "begin_registration" => x.stage # "locked",
           x.handle \in {tx[r].handle, Nil} \/ \E u \in UserId : x.handle = handle[u]
    PROVE  Moves(r)
<1>1. \A q \in Request : tx'[q] = IF q = r THEN x ELSE tx[q]
  BY DEF Work, IInv, Requests
<1>2. handle' = handle /\ ceremony' = ceremony
  BY DEF Work, rows
<1> QED BY <1>1, <1>2 DEF Moves

LEMMA RollbackMoves == ASSUME IInv, NEW r \in Request, Rollback(r) PROVE Moves(r)
BY WorkMoves DEF Rollback, NoTx

LEMMA EndMoves ==
    ASSUME IInv, NEW r \in Request, End(r),
           \A u \in UserId : handle'[u] \in {handle[u], tx[r].handle},
           \A s \in Session : ceremony'[s].handle \in {ceremony[s].handle, tx[r].handle}
    PROVE  Moves(r)
<1>1. \A q \in Request : tx'[q] = IF q = r THEN NoTx ELSE tx[q]
  BY DEF End, IInv, Requests
<1> QED BY <1>1 DEF Moves, NoTx

LEMMA OpenSessionMoves ==
    ASSUME IInv, NEW r \in Request, NEW ack, NEW flow, NEW allowed,
           OpenSession(r, ack, flow, allowed),
           \A u \in UserId : handle'[u] \in {handle[u], tx[r].handle}
    PROVE  Moves(r)
<1>1. PICK s \in Session, enforced \in Enforced :
        ceremony' = [ceremony EXCEPT ![s] = [flow |-> flow, user |-> tx[r].user,
                        handle |-> tx[r].handle, allowed |-> allowed,
                        expires |-> Deadline(enforced)]]
  BY DEF OpenSession
<1>2. \A t \in Session : ceremony'[t].handle \in {ceremony[t].handle, tx[r].handle}
  BY <1>1 DEF IInv, StoreOK
<1>3. End(r)
  BY DEF OpenSession
<1> QED BY <1>2, <1>3, EndMoves

LEMMA RequestMoves ==
    ASSUME IInv, NEW r \in Request, ReadUser(r) \/ Registering(r) \/ LoggingIn(r) \/ Abort(r)
    PROVE  Moves(r)
<1>0. tx[r] \in Tx
  BY DEF IInv, Requests
<1>13. CASE ReadUser(r)
  <2> DEFINE x == [tx[r] EXCEPT !.stage = "user", !.handle = handle[tx[r].user]]
  <2>1. x.stage = "user" /\ x.handle = handle[tx[r].user]
    BY <1>0 DEF Tx
  <2>2. Work(r, x)
    BY <1>13 DEF ReadUser
  <2>3. tx[r].user \in UserId
    BY <1>13 DEF ReadUser, IInv, Requests, Shape
  <2> HIDE DEF x
  <2> QED BY <2>1, <2>2, <2>3, WorkMoves
<1>1. ASSUME NEW u \in UserId, NEW op \in Begins, Begin(r, u, op) PROVE Moves(r)
  <2> DEFINE x == [NoTx EXCEPT !.op = op, !.user = u, !.handle = handle[u],
                               !.stage = IF handle[u] = Nil THEN "read" ELSE "ready"]
  <2>1. x.stage # "locked" /\ x.handle = handle[u]
    BY DEF NoTx
  <2>2. Work(r, x)
    BY <1>1 DEF Begin
  <2> HIDE DEF x
  <2> QED BY <2>1, <2>2, WorkMoves
<1>2. CASE \E ack \in BOOLEAN : CommitBeginRegistration(r, ack)
  <2>1. PICK ack \in BOOLEAN : CommitBeginRegistration(r, ack)
    BY <1>2
  <2>2. \A u \in UserId : handle'[u] \in {handle[u], tx[r].handle}
    BY <2>1 DEF CommitBeginRegistration, IInv, StoreOK
  <2> QED BY <2>1, <2>2, OpenSessionMoves DEF CommitBeginRegistration
<1>3. CASE \E ack \in BOOLEAN : OpenLogin(r, ack)
  BY <1>3, OpenSessionMoves DEF OpenLogin
<1>4. ASSUME NEW s \in Session, NEW c \in Credential, FinishRegistration(r, s, c) PROVE Moves(r)
  <2> DEFINE x == [NoTx EXCEPT !.op = "finish_registration", !.stage = "read",
                               !.user = ceremony[s].user, !.session = s, !.passkey = c]
  <2>1. x.stage = "read" /\ x.handle = Nil
    BY DEF NoTx
  <2>2. Work(r, x)
    BY <1>4 DEF FinishRegistration
  <2> HIDE DEF x
  <2> QED BY <2>1, <2>2, WorkMoves
<1>5. ASSUME NEW a \in answers, FinishLogin(r, a) PROVE Moves(r)
  <2> DEFINE x == [NoTx EXCEPT !.op = "finish_login", !.stage = "read",
                               !.user = ceremony[a.session].user, !.session = a.session,
                               !.passkey = a.passkey, !.count = a.count]
  <2>1. x.stage = "read" /\ x.handle = Nil
    BY DEF NoTx
  <2>2. Work(r, x)
    BY <1>5 DEF FinishLogin
  <2> HIDE DEF x
  <2> QED BY <2>1, <2>2, WorkMoves
<1>6. CASE StorePasskey(r) \/ UpdatePasskey(r)
  <2> DEFINE x == [tx[r] EXCEPT !.stage = "locked"]
  <2>1. x.handle = tx[r].handle /\ x.op = tx[r].op /\ tx[r].op # "begin_registration"
    BY <1>0, <1>6 DEF Tx, StorePasskey, UpdatePasskey
  <2>2. Work(r, x)
    BY <1>6 DEF StorePasskey, UpdatePasskey
  <2> HIDE DEF x
  <2> QED BY <2>1, <2>2, WorkMoves
<1>7. CASE ValidateLogin(r)
  <2> DEFINE n == NewCounter(counter[tx[r].passkey], tx[r].count)
             x == [tx[r] EXCEPT !.stage = "ready", !.count = n]
  <2> HIDE DEF n
  <2>1. x.handle = tx[r].handle /\ x.stage = "ready"
    BY <1>0 DEF Tx
  <2>2. Work(r, x)
    BY <1>7 DEF ValidateLogin, n
  <2> HIDE DEF x
  <2> QED BY <2>1, <2>2, WorkMoves
<1>8. CASE NoPasskeys(r) \/ PasskeyRefused(r) \/ LoginRefused(r) \/ Abort(r)
  BY <1>8, RollbackMoves DEF NoPasskeys, PasskeyRefused, LoginRefused, Abort
<1>9. CASE CommitRegistration(r) \/ CommitLogin(r)
  BY <1>9, EndMoves DEF CommitRegistration, CommitLogin
<1>10. CASE \E u \in UserId : BeginRegistration(r, u) \/ BeginLogin(r, u)
  BY <1>10, <1>1 DEF BeginRegistration, BeginLogin, Begins
<1>11. CASE Registering(r)
  BY <1>11, <1>2, <1>4, <1>6, <1>8, <1>9, <1>10 DEF Registering
<1>12. CASE LoggingIn(r)
  BY <1>12, <1>3, <1>5, <1>6, <1>7, <1>8, <1>9, <1>10 DEF LoggingIn
<1> QED BY <1>8, <1>11, <1>12, <1>13

\* What SetHandle does, told of a fresh handle.
LEMMA SetHandleDoes ==
    ASSUME IInv, NEW r \in Request, SetHandle(r)
    PROVE  \E h \in FreshHandle :
             /\ \A q \in Request \ {r} : tx'[q] = tx[q]
             /\ tx'[r].op = tx[r].op /\ tx'[r].user = tx[r].user /\ tx'[r].handle = h
             /\ tx[r].stage = "read" /\ tx[r].op \in Begins
             /\ ceremony' = ceremony
             /\ \/ tx[r].op = "begin_registration" /\ tx'[r].stage = "locked" /\ handle' = handle
                \/ /\ tx[r].op = "begin_login" /\ tx'[r].stage = "ready"
                   /\ handle' = [handle EXCEPT ![tx[r].user] = h]
<1>0. tx[r] \in Tx /\ tx \in [Request -> Tx]
  BY DEF IInv, Requests
<1>1. PICK h \in FreshHandle :
         \/ /\ tx[r].op = "begin_registration"
            /\ Work(r, [tx[r] EXCEPT !.stage = "locked", !.handle = h])
         \/ /\ tx[r].op = "begin_login"
            /\ handle' = [handle EXCEPT ![tx[r].user] = h]
            /\ tx' = [tx EXCEPT ![r] = [@ EXCEPT !.stage = "ready", !.handle = h]]
            /\ UNCHANGED <<now, ceremony, open, owner, counter, audit, clients>>
  BY DEF SetHandle
<1>2. CASE tx[r].op = "begin_registration"
  <2> DEFINE x == [tx[r] EXCEPT !.stage = "locked", !.handle = h]
  <2>1. x.op = tx[r].op /\ x.user = tx[r].user /\ x.stage = "locked" /\ x.handle = h
    BY <1>0 DEF Tx
  <2>2. Work(r, x)
    BY <1>1, <1>2
  <2> HIDE DEF x
  <2>3. tx' = [tx EXCEPT ![r] = x] /\ handle' = handle /\ ceremony' = ceremony
    BY <2>2 DEF Work, rows
  <2> QED BY <1>0, <1>2, <2>1, <2>3 DEF SetHandle, Begins
<1>3. CASE tx[r].op = "begin_login"
  <2> DEFINE x == [tx[r] EXCEPT !.stage = "ready", !.handle = h]
  <2>1. x.op = tx[r].op /\ x.user = tx[r].user /\ x.stage = "ready" /\ x.handle = h
    BY <1>0 DEF Tx
  <2>2. tx' = [tx EXCEPT ![r] = x] /\ ceremony' = ceremony
        /\ handle' = [handle EXCEPT ![tx[r].user] = h]
    BY <1>1, <1>3
  <2> HIDE DEF x
  <2> QED BY <1>0, <1>3, <2>1, <2>2 DEF SetHandle, Begins
<1> QED BY <1>1, <1>2, <1>3

\* The steps as the handles see them.
LEMMA HandleCases ==
    ASSUME IInv, [Next]_vars
    PROVE  \/ \E r \in Request : SetHandle(r)
           \/ \E r \in Request : ReadUser(r) \/ Registering(r) \/ LoggingIn(r) \/ Abort(r)
           \/ tx' \in {tx, [r \in Request |-> NoTx]} /\ UNCHANGED <<handle, ceremony>>
BY DEF Next, CreatePasskey, Sign, Crash, Tick, vars, rows

LEMMA OwnedStep == IInv /\ HandlesOwned /\ [Next]_vars => HandlesOwned'
<1> SUFFICES ASSUME IInv, HandlesOwned, [Next]_vars PROVE HandlesOwned'
  OBVIOUS
<1>0. tx \in [Request -> Tx] /\ handle \in [UserId -> Handle \cup {Nil}]
  BY DEF IInv, Requests, StoreOK
<1>1. ASSUME NEW r \in Request, SetHandle(r) PROVE HandlesOwned'
  <2>1. PICK h \in FreshHandle :
             /\ \A q \in Request \ {r} : tx'[q] = tx[q]
             /\ tx'[r].op = tx[r].op /\ tx'[r].handle = h
             /\ ceremony' = ceremony
             /\ \/ tx[r].op = "begin_registration" /\ handle' = handle
                \/ tx[r].op = "begin_login" /\ handle' = [handle EXCEPT ![tx[r].user] = h]
    BY <1>1, SetHandleDoes
  <2>2. /\ h \in Handle /\ \A u \in UserId : handle[u] # h
        /\ \A s \in Session : ceremony[s].handle # h
        /\ \A q \in Request : tx[q].handle # h
    BY DEF FreshHandle
  <2>3. \A u \in UserId : handle'[u] \in {handle[u], h}
    BY <1>0, <2>1
  <2>4. ASSUME NEW q \in Request, tx'[q].op = "begin_registration", tx'[q].stage = "locked"
        PROVE  /\ tx'[q].handle \in Handle
               /\ \A u \in UserId : handle'[u] # tx'[q].handle
               /\ \A s \in Session : ceremony'[s].handle # tx'[q].handle
               /\ \A p \in Request \ {q} : tx'[p].handle # tx'[q].handle
    <3>1. CASE q = r
      BY <2>1, <2>2, <2>4, <3>1
    <3>2. CASE q # r
      BY <2>1, <2>2, <2>3, <2>4, <3>2 DEF HandlesOwned
    <3> QED BY <3>1, <3>2
  <2> QED BY <2>4 DEF HandlesOwned
<1>2. ASSUME NEW r \in Request, Moves(r) PROVE HandlesOwned'
  <2> SUFFICES ASSUME NEW q \in Request, tx'[q].op = "begin_registration", tx'[q].stage = "locked"
               PROVE  /\ tx'[q].handle \in Handle
                      /\ \A u \in UserId : handle'[u] # tx'[q].handle
                      /\ \A s \in Session : ceremony'[s].handle # tx'[q].handle
                      /\ \A p \in Request \ {q} : tx'[p].handle # tx'[q].handle
    BY DEF HandlesOwned
  <2>1. q # r /\ tx'[q] = tx[q]
    BY <1>2 DEF Moves
  <2>2. /\ tx[q].handle \in Handle /\ tx[r].handle # tx[q].handle
        /\ \A u \in UserId : handle[u] # tx[q].handle
        /\ \A s \in Session : ceremony[s].handle # tx[q].handle
        /\ \A p \in Request \ {q} : tx[p].handle # tx[q].handle
    BY <2>1 DEF HandlesOwned
  <2>3. tx'[r].handle # tx[q].handle
    BY <1>2, <2>2, PasskeyAssumption DEF Moves
  <2>4. \A p \in Request \ {q} : tx'[p].handle # tx[q].handle
    BY <1>2, <2>2, <2>3 DEF Moves
  <2> QED BY <1>2, <2>1, <2>2, <2>4 DEF Moves
<1>3. CASE tx' \in {tx, [r \in Request |-> NoTx]} /\ UNCHANGED <<handle, ceremony>>
  BY <1>3, NoTxIs DEF HandlesOwned
<1> QED BY <1>1, <1>2, <1>3, HandleCases, RequestMoves

LEMMA OwnedInit == Init => HandlesOwned
BY NoTxIs DEF Init, HandlesOwned

LEMMA OwnedAlways == Spec => []HandlesOwned
BY AlwaysIInv, OwnedInit, OwnedStep, PTL DEF Spec

\* How a handle changes, and who may have found none.
LEMMA HandleChanges ==
    ASSUME IInv, [Next]_vars, NEW u \in UserId, handle'[u] # handle[u]
    PROVE  \E r \in Request : /\ Unsettled(r) /\ tx[r].user = u
                              /\ \/ handle'[u] \in FreshHandle
                                 \/ /\ tx[r].op = "begin_registration" /\ tx[r].stage = "locked"
                                    /\ handle'[u] = tx[r].handle
<1>0. handle \in [UserId -> Handle \cup {Nil}]
  BY DEF IInv, StoreOK
<1>1. ASSUME NEW r \in Request, SetHandle(r)
      PROVE  Unsettled(r) /\ tx[r].user = u /\ handle'[u] \in FreshHandle
  <2>1. PICK h \in FreshHandle :
             /\ tx[r].stage = "read" /\ tx[r].op \in Begins
             /\ handle' \in {handle, [handle EXCEPT ![tx[r].user] = h]}
    BY <1>1, SetHandleDoes
  <2> QED BY <1>0, <2>1 DEF Unsettled, Begins
<1>2. ASSUME NEW r \in Request, ReadUser(r) \/ Registering(r) \/ LoggingIn(r) \/ Abort(r)
      PROVE  /\ Unsettled(r) /\ tx[r].user = u
             /\ tx[r].op = "begin_registration" /\ tx[r].stage = "locked"
             /\ handle'[u] = tx[r].handle
  <2>1. \E ack \in BOOLEAN : CommitBeginRegistration(r, ack)
    BY <1>2 DEF ReadUser, Registering, LoggingIn, Abort, BeginRegistration, BeginLogin, Begin, Rollback, Work,
         rows, FinishRegistration, StorePasskey, PasskeyRefused, CommitRegistration, OpenLogin,
         NoPasskeys, FinishLogin, ValidateLogin, LoginRefused, UpdatePasskey, CommitLogin
  <2> QED BY <1>0, <2>1 DEF CommitBeginRegistration, Unsettled
<1> QED BY <1>1, <1>2, HandleCases

LEMMA UnsettledBefore ==
    ASSUME IInv, [Next]_vars, NEW r \in Request, Unsettled(r)'
    PROVE  \/ Unsettled(r) /\ tx'[r].user = tx[r].user
           \/ tx'[r].user \in UserId /\ handle[tx'[r].user] = Nil
<1>0. tx \in [Request -> Tx] /\ tx[r] \in Tx
  BY DEF IInv, Requests
<1>1. CASE tx'[r] = tx[r]
  BY <1>1 DEF Unsettled
<1>2. ASSUME SetHandle(r) PROVE Unsettled(r) /\ tx'[r].user = tx[r].user
  BY <1>2, SetHandleDoes DEF Unsettled, Begins
<1>3. ASSUME NEW u \in UserId, NEW op, Begin(r, u, op)
      PROVE  tx'[r].user \in UserId /\ handle[tx'[r].user] = Nil
  <2> DEFINE x == [NoTx EXCEPT !.op = op, !.user = u, !.handle = handle[u],
                               !.stage = IF handle[u] = Nil THEN "read" ELSE "ready"]
  <2>1. x.user = u /\ x.stage \in {"read", "ready"} /\ (x.stage = "read" <=> handle[u] = Nil)
    BY DEF NoTx
  <2>2. tx'[r] = x
    BY <1>0, <1>3 DEF Begin, Work
  <2> HIDE DEF x
  <2> QED BY <2>1, <2>2 DEF Unsettled
<1>4. CASE ReadUser(r) \/ Registering(r) \/ LoggingIn(r) \/ Abort(r)
  <2>1. ASSUME tx'[r] = NoTx PROVE FALSE
    BY <2>1, NoTxIs DEF Unsettled
  <2>2. ASSUME NEW x, Work(r, x), x.op \notin Begins PROVE FALSE
    BY <1>0, <2>2 DEF Work, Unsettled, Begins
  <2>3. CASE \E u \in UserId : BeginRegistration(r, u) \/ BeginLogin(r, u)
    BY <2>3, <1>3 DEF BeginRegistration, BeginLogin
  <2>4. ~(\/ \E ack \in BOOLEAN : CommitBeginRegistration(r, ack) \/ OpenLogin(r, ack)
          \/ CommitRegistration(r) \/ CommitLogin(r) \/ NoPasskeys(r) \/ PasskeyRefused(r)
          \/ LoginRefused(r) \/ Abort(r))
    BY <1>0, <2>1 DEF CommitBeginRegistration, OpenLogin, OpenSession, End, CommitRegistration,
         CommitLogin, NoPasskeys, PasskeyRefused, LoginRefused, Abort, Rollback, Work
  <2>5. ASSUME NEW s \in Session, NEW c \in Credential, FinishRegistration(r, s, c) PROVE FALSE
    <3> DEFINE x == [NoTx EXCEPT !.op = "finish_registration", !.stage = "read",
                                 !.user = ceremony[s].user, !.session = s, !.passkey = c]
    <3>1. x.op \notin Begins
      BY DEF NoTx, Begins
    <3>2. Work(r, x)
      BY <2>5 DEF FinishRegistration
    <3> HIDE DEF x
    <3> QED BY <3>1, <3>2, <2>2
  <2>6. ASSUME NEW a \in answers, FinishLogin(r, a) PROVE FALSE
    <3> DEFINE x == [NoTx EXCEPT !.op = "finish_login", !.stage = "read",
                                 !.user = ceremony[a.session].user, !.session = a.session,
                                 !.passkey = a.passkey, !.count = a.count]
    <3>1. x.op \notin Begins
      BY DEF NoTx, Begins
    <3>2. Work(r, x)
      BY <2>6 DEF FinishLogin
    <3> HIDE DEF x
    <3> QED BY <3>1, <3>2, <2>2
  <2>7. ASSUME NEW stage, NEW n, tx[r].op \notin Begins,
               \/ Work(r, [tx[r] EXCEPT !.stage = stage])
               \/ Work(r, [tx[r] EXCEPT !.stage = stage, !.count = n])
               \/ Work(r, [tx[r] EXCEPT !.stage = stage, !.handle = n])
        PROVE  FALSE
    <3>1. /\ [tx[r] EXCEPT !.stage = stage].op = tx[r].op
          /\ [tx[r] EXCEPT !.stage = stage, !.count = n].op = tx[r].op
          /\ [tx[r] EXCEPT !.stage = stage, !.handle = n].op = tx[r].op
      BY <1>0 DEF Tx
    <3> QED BY <2>7, <3>1, <2>2
  <2>8. ~(ReadUser(r) \/ StorePasskey(r) \/ ValidateLogin(r) \/ UpdatePasskey(r))
    BY <2>7 DEF ReadUser, StorePasskey, ValidateLogin, UpdatePasskey, Begins
  <2> QED BY <1>4, <2>3, <2>4, <2>5, <2>6, <2>8 DEF Registering, LoggingIn
<1>5. ASSUME NEW q \in Request, q # r,
             SetHandle(q) \/ ReadUser(q) \/ Registering(q) \/ LoggingIn(q) \/ Abort(q)
      PROVE  tx'[r] = tx[r]
  BY <1>5, SetHandleDoes, RequestMoves DEF Moves
<1>6. CASE tx' \in {tx, [q \in Request |-> NoTx]}
  BY <1>1, <1>6, NoTxIs DEF Unsettled
<1> QED BY <1>1, <1>2, <1>4, <1>5, <1>6, HandleCases

\* Once no begin that found no handle runs any more, a user's handle is pinned for ever, for
\* any number of ceremonies, requests and crashes: what HandlePinned asks for fails only
\* while first ceremonies overlap (ensureWebAuthnUserHandle).
THEOREM SettledHandlesArePinned == Spec => SettledHandlePinned
<1> DEFINE Pinned == \A u \in UserId : Settled(u) => Settled(u)' /\ handle'[u] = handle[u]
<1>1. ASSUME IInv, [Next]_vars PROVE Pinned
  <2> SUFFICES ASSUME NEW u \in UserId, Settled(u) PROVE Settled(u)' /\ handle'[u] = handle[u]
    OBVIOUS
  <2>1. handle'[u] = handle[u]
    BY <1>1, HandleChanges DEF Settled
  <2>2. ASSUME NEW r \in Request, Unsettled(r)' PROVE tx'[r].user # u
    BY <1>1, <2>2, UnsettledBefore DEF Settled
  <2> QED BY <2>1, <2>2 DEF Settled
<1>2. IInv /\ [Next]_vars => [Pinned]_vars
  BY <1>1
<1> QED BY AlwaysIInv, <1>2, PTL DEF Spec, SettledHandlePinned

\* A ceremony that has lost its handle never becomes valid again: an overwritten handle is
\* gone for good (FinishWebAuthnRegistration and FinishWebAuthnLogin refuse it).
THEOREM StaleCeremoniesStayStale == Spec => StaleStaysStale
<1> DEFINE Lasts == \A s \in Session : Stale(s) => Stale(s)'
<1>1. ASSUME IInv, HandlesOwned, [Next]_vars PROVE Lasts
  <2> SUFFICES ASSUME NEW s \in Session, Stale(s) PROVE Stale(s)'
    OBVIOUS
  <2>1. ceremony'[s] = ceremony[s]
    BY <1>1, StepLasts DEF Stale, Lasting, Kept
  <2>2. ceremony[s].user \in UserId /\ ceremony[s] # NoCeremony
    BY <1>1 DEF Stale, IInv, Origins
  <2>3. CASE handle'[ceremony[s].user] = handle[ceremony[s].user]
    BY <2>1, <2>2, <2>3 DEF Stale
  <2>4. CASE handle'[ceremony[s].user] # handle[ceremony[s].user]
    <3>1. handle'[ceremony[s].user] # ceremony[s].handle
      BY <1>1, <2>2, <2>4, HandleChanges DEF FreshHandle, HandlesOwned
    <3> QED BY <2>1, <2>2, <3>1 DEF Stale
  <2> QED BY <2>3, <2>4
<1>2. IInv /\ HandlesOwned /\ [Next]_vars => [Lasts]_vars
  BY <1>1
<1> QED BY AlwaysIInv, OwnedAlways, <1>2, PTL DEF Spec, StaleStaysStale

-----------------------------------------------------------------------------
(* The logins                                                              *)

\* What a login holds on to, from the ceremony it has read to the row it writes.
Checked(x) ==
    /\ x.user = owner[x.passkey]
    /\ x.passkey \in ceremony[x.session].allowed
    /\ device[x.passkey].handle = ceremony[x.session].handle
Login(x) ==
    x.op = "finish_login" =>
      /\ ceremony[x.session] # NoCeremony /\ x.user = ceremony[x.session].user
      /\ x.count <= device[x.passkey].count
      /\ x.stage \in {"ready", "locked"} => Checked(x)
Counters ==
    /\ \A a \in answers : a.count <= device[a.passkey].count
    /\ \A c \in Credential : counter[c] <= device[c].count
LoginInv == Counters /\ \A r \in Request : Login(tx[r])

\* A request that does nothing keeps what it has checked.
LEMMA LoginLasts ==
    ASSUME IInv, LoginInv, Lasting, IInv', NEW r \in Request, tx'[r] = tx[r]
    PROVE  Login(tx[r])'
<1> DEFINE x == tx[r]
<1> SUFFICES ASSUME x.op = "finish_login"
             PROVE  /\ ceremony'[x.session] # NoCeremony /\ x.user = ceremony'[x.session].user
                    /\ x.count <= device'[x.passkey].count
                    /\ x.stage \in {"ready", "locked"} =>
                         /\ x.user = owner'[x.passkey]
                         /\ x.passkey \in ceremony'[x.session].allowed
                         /\ device'[x.passkey].handle = ceremony'[x.session].handle
  BY DEF Login, Checked
<1>1. x.session \in Session /\ x.passkey \in Credential /\ x.count \in Nat /\ Login(x)
  BY DEF IInv, Requests, Shape, Tx, LoginInv
<1> HIDE DEF x
<1>2. /\ ceremony[x.session] # NoCeremony /\ x.user = ceremony[x.session].user
      /\ x.count <= device[x.passkey].count
      /\ x.stage \in {"ready", "locked"} => Checked(x)
  BY <1>1 DEF Login
<1>3. ceremony'[x.session] = ceremony[x.session]
  BY <1>1, <1>2 DEF Lasting, Kept
<1>4. x.count <= device'[x.passkey].count
  <2>1. device[x.passkey].count \in Nat /\ device'[x.passkey].count \in Nat
    BY <1>1, PasskeyAssumption DEF IInv, StoreOK
  <2>2. device'[x.passkey].count >= device[x.passkey].count
    BY <1>1 DEF Lasting
  <2> QED BY <1>1, <1>2, <2>1, <2>2
<1>5. ASSUME Checked(x) PROVE owner'[x.passkey] = owner[x.passkey]
                              /\ device'[x.passkey].handle = device[x.passkey].handle
  <2>1. owner[x.passkey] # Nil
    BY <1>1, <1>2, <1>5, PasskeyAssumption DEF Checked, IInv, Origins
  <2>2. device[x.passkey].session # Nil
    BY <1>1, <2>1 DEF IInv, Origins
  <2> QED BY <1>1, <2>1, <2>2 DEF Lasting
<1> QED BY <1>2, <1>3, <1>4, <1>5 DEF Checked

\* A step that signs nothing and stores no counter.
LEMMA CountersLast ==
    ASSUME IInv, IInv', Counters, Lasting, UNCHANGED <<answers, counter>>
    PROVE  Counters'
<1>1. \A c \in Credential : /\ device[c].count \in Nat /\ device'[c].count \in Nat
                            /\ device'[c].count >= device[c].count /\ counter[c] \in Nat
  BY PasskeyAssumption DEF IInv, StoreOK, Lasting
<1>2. \A a \in answers : a.passkey \in Credential /\ a.count \in Nat
  BY PasskeyAssumption DEF IInv, StoreOK, Answer
<1>3. \A a \in answers : a.count <= device'[a.passkey].count
  <2> TAKE a \in answers
  <2>1. a.count <= device[a.passkey].count
    BY DEF Counters
  <2> QED BY <1>1, <1>2, <2>1
<1>4. \A c \in Credential : counter[c] <= device'[c].count
  <2> TAKE c \in Credential
  <2>1. counter[c] <= device[c].count
    BY DEF Counters
  <2> QED BY <1>1, <2>1
<1> QED BY <1>3, <1>4 DEF Counters

LEMMA FinishLoginChecks ==
    ASSUME IInv, LoginInv, NEW r \in Request, NEW a \in answers, FinishLogin(r, a)
    PROVE  Login(tx[r])'
<1> DEFINE x == [NoTx EXCEPT !.op = "finish_login", !.stage = "read",
                            !.user = ceremony[a.session].user, !.session = a.session,
                            !.passkey = a.passkey, !.count = a.count]
<1>1. /\ x.stage = "read" /\ x.user = ceremony[a.session].user /\ x.session = a.session
      /\ x.passkey = a.passkey /\ x.count = a.count
  BY DEF NoTx
<1>2. Work(r, x)
  BY DEF FinishLogin
<1> HIDE DEF x
<1>3. tx'[r] = x /\ ceremony' = ceremony /\ device' = device
  BY <1>2 DEF Work, rows, clients, IInv, Requests
<1>4. ceremony[a.session] # NoCeremony /\ a.count <= device[a.passkey].count
  BY DEF FinishLogin, NoCeremony, LoginInv, Counters
<1> QED BY <1>1, <1>3, <1>4 DEF Login

LEMMA ReadUserChecks ==
    ASSUME IInv, LoginInv, NEW r \in Request, ReadUser(r)
    PROVE  Login(tx[r])'
<1> DEFINE h == handle[tx[r].user]
           x == [tx[r] EXCEPT !.stage = "user", !.handle = h]
<1>1. tx[r] \in Tx /\ Login(tx[r])
  BY DEF IInv, Requests, LoginInv
<1> HIDE DEF h
<1>2. /\ x.op = tx[r].op /\ x.user = tx[r].user /\ x.session = tx[r].session
      /\ x.passkey = tx[r].passkey /\ x.count = tx[r].count /\ x.stage = "user"
  BY <1>1 DEF Tx
<1>3. Work(r, x)
  BY DEF ReadUser, h
<1> HIDE DEF x
<1>4. tx'[r] = x /\ UNCHANGED <<ceremony, device, owner>>
  BY <1>3 DEF Work, rows, clients, IInv, Requests
<1> QED BY <1>1, <1>2, <1>4 DEF Login

LEMMA ValidateLoginChecks ==
    ASSUME IInv, LoginInv, NEW r \in Request, ValidateLogin(r)
    PROVE  Login(tx[r])'
<1> DEFINE count == NewCounter(counter[tx[r].passkey], tx[r].count)
           x == [tx[r] EXCEPT !.stage = "ready", !.count = count]
<1>1. tx[r] \in Tx /\ tx[r].passkey \in Credential /\ Login(tx[r]) /\ tx[r].op = "finish_login"
  BY DEF IInv, Requests, Shape, ValidateLogin, LoginInv
<1>2. count <= device[tx[r].passkey].count
  BY <1>1 DEF NewCounter, Login, LoginInv, Counters
<1> HIDE DEF count
<1>3. /\ x.user = tx[r].user /\ x.session = tx[r].session /\ x.passkey = tx[r].passkey
      /\ x.count = count
  BY <1>1 DEF Tx
<1>4. Work(r, x)
  BY DEF ValidateLogin, count
<1> HIDE DEF x
<1>5. tx'[r] = x /\ UNCHANGED <<ceremony, device, owner>>
  BY <1>4 DEF Work, rows, clients, IInv, Requests
<1>6. Checked(x)
  BY <1>3 DEF ValidateLogin, Valid, SameHandle, PasskeysOf, Checked
<1> QED BY <1>1, <1>2, <1>3, <1>5, <1>6 DEF Login, Checked

LEMMA UpdatePasskeyChecks ==
    ASSUME IInv, LoginInv, NEW r \in Request, UpdatePasskey(r)
    PROVE  Login(tx[r])'
<1> DEFINE x == [tx[r] EXCEPT !.stage = "locked"]
<1>1. tx[r] \in Tx /\ Login(tx[r]) /\ tx[r].op = "finish_login" /\ tx[r].stage = "ready"
  BY DEF IInv, Requests, UpdatePasskey, LoginInv
<1>2. /\ x.user = tx[r].user /\ x.session = tx[r].session /\ x.passkey = tx[r].passkey
      /\ x.count = tx[r].count
  BY <1>1 DEF Tx
<1>3. Work(r, x)
  BY DEF UpdatePasskey
<1> HIDE DEF x
<1>4. tx'[r] = x /\ UNCHANGED <<ceremony, device, owner>>
  BY <1>3 DEF Work, rows, clients, IInv, Requests
<1> QED BY <1>1, <1>2, <1>4 DEF Login, Checked

\* Only these go on with a login; the counters change by a signature or a commit.
LEMMA LoginCases ==
    ASSUME IInv, [Next]_vars
    PROVE  \/ \E r \in Request : \/ \E a \in answers : FinishLogin(r, a)
                                 \/ ReadUser(r) \/ ValidateLogin(r) \/ UpdatePasskey(r)
           \/ \E r \in Request : CommitLogin(r)
           \/ \E s \in Session, c \in Credential : Sign(s, c)
           \/ /\ \A q \in Request : tx'[q] = tx[q] \/ tx'[q].op # "finish_login"
              /\ UNCHANGED <<answers, counter>>
<1> DEFINE Rest == /\ \A q \in Request : tx'[q] = tx[q] \/ tx'[q].op # "finish_login"
                   /\ UNCHANGED <<answers, counter>>
<1>0. tx \in [Request -> Tx]
  BY DEF IInv, Requests
<1>a. ASSUME NEW r \in Request, NEW x, Work(r, x), x.op # "finish_login" PROVE Rest
  BY <1>0, <1>a DEF Work, rows, clients
<1>b. ASSUME NEW r \in Request, Rollback(r) PROVE Rest
  BY <1>a, <1>b, NoTxIs DEF Rollback
<1>c. ASSUME NEW r \in Request, End(r), UNCHANGED <<answers, counter>> PROVE Rest
  BY <1>0, <1>c, NoTxIs DEF End
<1>1. ASSUME NEW r \in Request, SetHandle(r) PROVE Rest
  <2>1. (\A q \in Request \ {r} : tx'[q] = tx[q]) /\ tx'[r].op = tx[r].op /\ tx[r].op \in Begins
    BY <1>1, SetHandleDoes
  <2>2. UNCHANGED <<answers, counter>>
    BY <1>1 DEF SetHandle, Work, rows, clients
  <2> QED BY <2>1, <2>2 DEF Begins
<1>2. ASSUME NEW r \in Request, NEW u, NEW op \in Begins, Begin(r, u, op) PROVE Rest
  <2> DEFINE x == [NoTx EXCEPT !.op = op, !.user = u, !.handle = handle[u],
                               !.stage = IF handle[u] = Nil THEN "read" ELSE "ready"]
  <2>1. x.op = op
    BY DEF NoTx
  <2>2. Work(r, x)
    BY <1>2 DEF Begin
  <2> HIDE DEF x
  <2> QED BY <2>1, <2>2, <1>a DEF Begins
<1>3. ASSUME NEW r \in Request, Registering(r) PROVE Rest
  <2>1. CASE \E u \in UserId : BeginRegistration(r, u)
    BY <2>1, <1>2 DEF BeginRegistration, Begins
  <2>2. CASE \/ \E ack \in BOOLEAN : CommitBeginRegistration(r, ack)
             \/ CommitRegistration(r)
    BY <2>2, <1>c DEF CommitBeginRegistration, OpenSession, CommitRegistration, clients
  <2>3. ASSUME NEW s \in Session, NEW c \in Credential, FinishRegistration(r, s, c) PROVE Rest
    <3> DEFINE x == [NoTx EXCEPT !.op = "finish_registration", !.stage = "read",
                                 !.user = ceremony[s].user, !.session = s, !.passkey = c]
    <3>1. x.op = "finish_registration"
      BY DEF NoTx
    <3>2. Work(r, x)
      BY <2>3 DEF FinishRegistration
    <3> HIDE DEF x
    <3> QED BY <3>1, <3>2, <1>a
  <2>4. CASE StorePasskey(r)
    <3>1. [tx[r] EXCEPT !.stage = "locked"].op = "finish_registration"
      BY <1>0, <2>4 DEF StorePasskey, Tx
    <3> QED BY <2>4, <3>1, <1>a DEF StorePasskey
  <2>5. CASE PasskeyRefused(r)
    BY <2>5, <1>b DEF PasskeyRefused
  <2> QED BY <1>3, <2>1, <2>2, <2>3, <2>4, <2>5 DEF Registering
<1>4. ASSUME NEW r \in Request, LoggingIn(r)
      PROVE  \/ (\E a \in answers : FinishLogin(r, a)) \/ ValidateLogin(r) \/ UpdatePasskey(r)
             \/ CommitLogin(r) \/ Rest
  <2>1. CASE \E u \in UserId : BeginLogin(r, u)
    BY <2>1, <1>2 DEF BeginLogin, Begins
  <2>2. CASE \E ack \in BOOLEAN : OpenLogin(r, ack)
    BY <2>2, <1>c DEF OpenLogin, OpenSession
  <2>3. CASE NoPasskeys(r) \/ LoginRefused(r)
    BY <2>3, <1>b DEF NoPasskeys, LoginRefused
  <2> HIDE DEF Rest
  <2> QED BY <1>4, <2>1, <2>2, <2>3 DEF LoggingIn
<1>5. ASSUME NEW r \in Request, Abort(r) PROVE Rest
  BY <1>5, <1>b DEF Abort
<1>6. ASSUME NEW s \in Session, CreatePasskey(s) PROVE Rest
  BY <1>6 DEF CreatePasskey, rows
<1>7. CASE Crash \/ Tick \/ UNCHANGED vars
  BY <1>7, NoTxIs DEF Crash, Tick, vars, rows, clients
<1> HIDE DEF Rest
<1> QED BY <1>1, <1>3, <1>4, <1>5, <1>6, <1>7 DEF Next, Rest

LEMMA LoginStep == IInv /\ LoginInv /\ [Next]_vars => LoginInv'
<1> SUFFICES ASSUME IInv, LoginInv, [Next]_vars PROVE LoginInv'
  OBVIOUS
<1>0. IInv' /\ Lasting /\ tx \in [Request -> Tx] /\ Counters
  BY NextKeeps, StepLasts DEF IInv, Requests, LoginInv
<1>a. ASSUME NEW q \in Request, tx'[q] = tx[q] PROVE Login(tx[q])'
  BY <1>0, <1>a, LoginLasts
<1>b. ASSUME NEW q \in Request, tx'[q].op # "finish_login" PROVE Login(tx[q])'
  BY <1>b DEF Login
<1>1. ASSUME NEW r \in Request,
             \/ \E a \in answers : FinishLogin(r, a)
             \/ ReadUser(r) \/ ValidateLogin(r) \/ UpdatePasskey(r)
      PROVE  LoginInv'
  <2>1. PICK x : Work(r, x)
    BY <1>1 DEF FinishLogin, ReadUser, ValidateLogin, UpdatePasskey
  <2>2. (\A q \in Request \ {r} : tx'[q] = tx[q]) /\ UNCHANGED <<answers, counter>>
    BY <1>0, <2>1 DEF Work, rows, clients
  <2>3. Login(tx[r])'
    BY <1>1, FinishLoginChecks, ReadUserChecks, ValidateLoginChecks, UpdatePasskeyChecks
  <2>4. Counters'
    BY <1>0, <2>2, CountersLast
  <2>5. \A q \in Request : Login(tx[q])'
    BY <1>a, <2>2, <2>3
  <2> QED BY <2>4, <2>5 DEF LoginInv
<1>2. ASSUME NEW r \in Request, CommitLogin(r) PROVE LoginInv'
  <2>1. /\ tx[r].passkey \in Credential /\ tx[r].count <= device[tx[r].passkey].count
        /\ counter' = [counter EXCEPT ![tx[r].passkey] = tx[r].count]
        /\ device' = device /\ answers' = answers /\ counter \in [Credential -> Nat]
    BY <1>2 DEF CommitLogin, clients, LoginInv, Login, IInv, Requests, Shape, StoreOK
  <2>2. \A c \in Credential : counter'[c] = IF c = tx[r].passkey THEN tx[r].count ELSE counter[c]
    BY <2>1
  <2>3. Counters'
    BY <1>0, <2>1, <2>2 DEF Counters
  <2>4. tx' = [tx EXCEPT ![r] = NoTx]
    BY <1>2 DEF CommitLogin, End
  <2>5. \A q \in Request : tx'[q] = tx[q] \/ tx'[q].op # "finish_login"
    BY <1>0, <2>4, NoTxIs
  <2>6. \A q \in Request : Login(tx[q])'
    BY <1>a, <1>b, <2>5
  <2> QED BY <2>3, <2>6 DEF LoginInv
<1>3. ASSUME NEW s \in Session, NEW c \in Credential, Sign(s, c) PROVE LoginInv'
  <2>1. /\ tx' = tx /\ counter' = counter
        /\ answers' = answers \cup {[session |-> s, passkey |-> c, count |-> device[c].count + 1]}
        /\ device' = [device EXCEPT ![c].count = @ + 1]
    BY <1>3 DEF Sign, rows
  <2>2. \A d \in Credential :
          device'[d].count = IF d = c THEN device[d].count + 1 ELSE device[d].count
    BY <2>1 DEF IInv, StoreOK
  <2>3. \A a \in answers' : a.count <= device'[a.passkey].count
    <3>1. ASSUME NEW a \in answers PROVE a.count <= device'[a.passkey].count
      <4>1. a.passkey \in Credential /\ a.count \in Nat /\ a.count <= device[a.passkey].count
        BY <1>0, PasskeyAssumption DEF IInv, StoreOK, Answer, Counters
      <4> QED BY <4>1, <2>2, DeviceType
    <3>2. device'[c].count = device[c].count + 1 /\ device[c].count \in Nat
      BY <2>2, DeviceType
    <3> QED BY <2>1, <3>1, <3>2
  <2>4. \A d \in Credential : counter'[d] <= device'[d].count
    <3> TAKE d \in Credential
    <3>1. counter[d] <= device[d].count
      BY <1>0 DEF Counters
    <3> QED BY <2>1, <2>2, <3>1, DeviceType
  <2>5. \A q \in Request : Login(tx[q])'
    BY <1>a, <2>1
  <2> QED BY <2>3, <2>4, <2>5 DEF LoginInv, Counters
<1>4. CASE /\ \A q \in Request : tx'[q] = tx[q] \/ tx'[q].op # "finish_login"
           /\ UNCHANGED <<answers, counter>>
  <2>1. Counters'
    BY <1>0, <1>4, CountersLast
  <2>2. \A q \in Request : Login(tx[q])'
    BY <1>a, <1>b, <1>4
  <2> QED BY <2>1, <2>2 DEF LoginInv
<1> QED BY <1>1, <1>2, <1>3, <1>4, LoginCases

LEMMA LoginInit == Init => LoginInv
BY NoTxIs DEF Init, LoginInv, Counters, Login, NoDevice

LEMMA LoginAlways == Spec => []LoginInv
BY AlwaysIInv, LoginInit, LoginStep, PTL DEF Spec

\* A login is one of the user who registered the passkey, through a ceremony that offered it,
\* and the counter it leaves was signed, whatever other requests did between the check and
\* the commit (FinishWebAuthnLogin).
THEOREM LoginsAreOwners == Spec => []LoginIsOwners
<1>1. IInv /\ LoginInv => LoginIsOwners
  <2> SUFFICES ASSUME IInv, LoginInv PROVE LoginIsOwners
    OBVIOUS
  <2>1. ASSUME NEW r \in Request, tx[r].op = "finish_login", tx[r].stage \in {"ready", "locked"}
        PROVE  /\ tx[r].user = ceremony[tx[r].session].user
               /\ tx[r].user = owner[tx[r].passkey]
               /\ tx[r].user = ceremony[device[tx[r].passkey].session].user
               /\ tx[r].passkey \in ceremony[tx[r].session].allowed
               /\ device[tx[r].passkey].handle = ceremony[tx[r].session].handle
               /\ tx[r].count <= device[tx[r].passkey].count
    <3>1. tx[r].session \in Session /\ tx[r].passkey \in Credential
      BY <2>1 DEF IInv, Requests, Shape
    <3>2. /\ ceremony[tx[r].session] # NoCeremony /\ tx[r].user = ceremony[tx[r].session].user
          /\ tx[r].count <= device[tx[r].passkey].count /\ Checked(tx[r])
      BY <2>1 DEF LoginInv, Login
    <3>3. tx[r].user # Nil
      BY <3>1, <3>2, PasskeyAssumption DEF IInv, Origins
    <3>4. tx[r].user = ceremony[device[tx[r].passkey].session].user
      BY <3>1, <3>2, <3>3 DEF Checked, IInv, PasskeyRegisteredOnce
    <3> QED BY <3>2, <3>4 DEF Checked
  <2> QED BY <2>1 DEF LoginIsOwners, LoginInv, Counters
<1> QED BY AlwaysIInv, LoginAlways, <1>1, PTL

-----------------------------------------------------------------------------
(* The handle behind a ceremony                                            *)

Finishes == {"finish_registration", "finish_login"}

\* A begin that has what it needs, and every finish, has a user with a handle.
Found(x) ==
    /\ x.op \in Begins /\ x.stage = "ready" => handle[x.user] # Nil
    /\ x.op \in Finishes => /\ handle[x.user] # Nil
                            /\ x.stage # "read" => x.handle # Nil
HandleInv ==
    /\ \A s \in Session : ceremony[s] # NoCeremony => handle[ceremony[s].user] # Nil
    /\ \A r \in Request : Found(tx[r])

\* A handle may be overwritten, but never by nothing.
LEMMA HandleStays ==
    ASSUME IInv, HandlesOwned, [Next]_vars, NEW u \in UserId, handle[u] # Nil
    PROVE  handle'[u] # Nil
<1>1. CASE handle'[u] = handle[u]
  BY <1>1
<1>2. CASE handle'[u] # handle[u]
  BY <1>2, HandleChanges, PasskeyAssumption DEF FreshHandle, HandlesOwned
<1> QED BY <1>1, <1>2

\* What a step leaves as it is keeps its handle.
LEMMA FoundStays ==
    ASSUME IInv, HandlesOwned, HandleInv, [Next]_vars
    PROVE  /\ \A s \in Session : ceremony[s] # NoCeremony => handle'[ceremony[s].user] # Nil
           /\ \A r \in Request : tx'[r] = tx[r] => Found(tx[r])'
<1>1. ASSUME NEW s \in Session, ceremony[s] # NoCeremony PROVE handle'[ceremony[s].user] # Nil
  BY <1>1, HandleStays DEF HandleInv, IInv, Origins
<1>2. ASSUME NEW r \in Request, tx'[r] = tx[r] PROVE Found(tx[r])'
  <2>1. Found(tx[r]) /\ (tx[r].op \in Begins \cup Finishes => tx[r].user \in UserId)
    BY DEF HandleInv, IInv, Requests, Shape, Finishes
  <2> QED BY <1>2, <2>1, HandleStays DEF Found
<1> QED BY <1>1, <1>2

\* A request moves on to x, or ends.
LEMMA WorkFound ==
    ASSUME IInv, HandlesOwned, HandleInv, [Next]_vars,
           NEW r \in Request, NEW x, Work(r, x), Found(x)
    PROVE  HandleInv'
<1>1. tx'[r] = x /\ (\A q \in Request \ {r} : tx'[q] = tx[q]) /\ UNCHANGED <<handle, ceremony>>
  BY DEF Work, rows, IInv, Requests
<1>2. \A q \in Request : Found(tx[q])'
  BY <1>1, FoundStays DEF Found
<1> QED BY <1>1, <1>2 DEF HandleInv

LEMMA EndFound ==
    ASSUME IInv, HandlesOwned, HandleInv, [Next]_vars, NEW r \in Request, End(r),
           \A s \in Session : ceremony'[s] = ceremony[s] \/ handle'[ceremony'[s].user] # Nil
    PROVE  HandleInv'
<1>1. tx'[r] = NoTx /\ \A q \in Request \ {r} : tx'[q] = tx[q]
  BY DEF End, IInv, Requests
<1>2. \A q \in Request : Found(tx[q])'
  BY <1>1, FoundStays, NoTxIs DEF Found, Begins, Finishes
<1>3. \A s \in Session : ceremony'[s] # NoCeremony => handle'[ceremony'[s].user] # Nil
  BY FoundStays
<1> QED BY <1>2, <1>3 DEF HandleInv

LEMMA OpenSessionFound ==
    ASSUME IInv, HandlesOwned, HandleInv, [Next]_vars, NEW r \in Request,
           NEW ack, NEW flow, NEW allowed, OpenSession(r, ack, flow, allowed),
           handle'[tx[r].user] # Nil
    PROVE  HandleInv'
<1>1. PICK s \in Session, enforced \in Enforced :
        ceremony' = [ceremony EXCEPT ![s] = [flow |-> flow, user |-> tx[r].user,
                        handle |-> tx[r].handle, allowed |-> allowed,
                        expires |-> Deadline(enforced)]]
  BY DEF OpenSession
<1>2. \A t \in Session : ceremony'[t] = ceremony[t] \/ ceremony'[t].user = tx[r].user
  BY <1>1 DEF IInv, StoreOK
<1>3. End(r)
  BY DEF OpenSession
<1> QED BY <1>2, <1>3, EndFound

LEMMA RequestFound ==
    ASSUME IInv, HandlesOwned, HandleInv, [Next]_vars, NEW r \in Request,
           ReadUser(r) \/ Registering(r) \/ LoggingIn(r) \/ Abort(r)
    PROVE  HandleInv'
<1>0. /\ tx[r] \in Tx /\ Found(tx[r])
      /\ tx[r].op \in Begins \cup Finishes => tx[r].user \in UserId
  BY DEF IInv, Requests, Shape, HandleInv, Finishes
<1>1. ASSUME NEW u \in UserId, NEW op \in Begins, Begin(r, u, op) PROVE HandleInv'
  <2> DEFINE x == [NoTx EXCEPT !.op = op, !.user = u, !.handle = handle[u],
                               !.stage = IF handle[u] = Nil THEN "read" ELSE "ready"]
  <2>1. x.op = op /\ x.user = u /\ (x.stage = "ready" => handle[u] # Nil)
    BY DEF NoTx
  <2>2. Work(r, x)
    BY <1>1 DEF Begin
  <2> HIDE DEF x
  <2>3. Found(x)
    BY <2>1 DEF Found, Begins, Finishes
  <2> QED BY <2>2, <2>3, WorkFound
<1>2. ASSUME NEW s \in Session, NEW c \in Credential, FinishRegistration(r, s, c) PROVE HandleInv'
  <2> DEFINE x == [NoTx EXCEPT !.op = "finish_registration", !.stage = "read",
                               !.user = ceremony[s].user, !.session = s, !.passkey = c]
  <2>1. x.op \notin Begins /\ x.stage = "read" /\ x.user = ceremony[s].user
    BY DEF NoTx, Begins
  <2>2. Work(r, x) /\ ceremony[s] # NoCeremony
    BY <1>2 DEF FinishRegistration, NoCeremony
  <2> HIDE DEF x
  <2>3. Found(x)
    BY <2>1, <2>2 DEF Found, HandleInv
  <2> QED BY <2>2, <2>3, WorkFound
<1>3. ASSUME NEW a \in answers, FinishLogin(r, a) PROVE HandleInv'
  <2> DEFINE x == [NoTx EXCEPT !.op = "finish_login", !.stage = "read",
                               !.user = ceremony[a.session].user, !.session = a.session,
                               !.passkey = a.passkey, !.count = a.count]
  <2>1. x.op \notin Begins /\ x.stage = "read" /\ x.user = ceremony[a.session].user
    BY DEF NoTx, Begins
  <2>2. Work(r, x) /\ ceremony[a.session] # NoCeremony /\ a.session \in Session
    BY <1>3 DEF FinishLogin, NoCeremony, IInv, StoreOK, Answer
  <2> HIDE DEF x
  <2>3. Found(x)
    BY <2>1, <2>2 DEF Found, HandleInv
  <2> QED BY <2>2, <2>3, WorkFound
<1>4. CASE ReadUser(r)
  <2> DEFINE x == [tx[r] EXCEPT !.stage = "user", !.handle = handle[tx[r].user]]
  <2>1. /\ x.op = tx[r].op /\ x.user = tx[r].user /\ x.handle = handle[tx[r].user]
        /\ tx[r].op \in Finishes
    BY <1>0, <1>4 DEF Tx, ReadUser, Finishes
  <2>2. Work(r, x)
    BY <1>4 DEF ReadUser
  <2> HIDE DEF x
  <2>3. Found(x)
    BY <1>0, <2>1 DEF Found, Begins, Finishes
  <2> QED BY <2>2, <2>3, WorkFound
\* The later stages of a finish keep what ReadUser has found.
<1>5. ASSUME NEW stage \in {"ready", "locked"}, NEW n, tx[r].op \in Finishes,
             tx[r].stage \in {"user", "ready"},
             Work(r, [tx[r] EXCEPT !.stage = stage, !.count = n])
      PROVE  HandleInv'
  <2> DEFINE x == [tx[r] EXCEPT !.stage = stage, !.count = n]
  <2>1. x.op = tx[r].op /\ x.user = tx[r].user /\ x.handle = tx[r].handle
    BY <1>0 DEF Tx
  <2>2. Work(r, x)
    BY <1>5
  <2> HIDE DEF x
  <2>3. Found(x)
    BY <1>0, <1>5, <2>1 DEF Found, Begins, Finishes
  <2> QED BY <2>2, <2>3, WorkFound
<1>6. CASE StorePasskey(r) \/ UpdatePasskey(r)
  <2>1. [tx[r] EXCEPT !.stage = "locked"] = [tx[r] EXCEPT !.stage = "locked", !.count = tx[r].count]
    BY <1>0 DEF Tx
  <2>2. Work(r, [tx[r] EXCEPT !.stage = "locked", !.count = tx[r].count])
    BY <1>6, <2>1 DEF StorePasskey, UpdatePasskey
  <2>3. tx[r].op \in Finishes /\ tx[r].stage \in {"user", "ready"}
    BY <1>6 DEF StorePasskey, UpdatePasskey, Finishes
  <2> QED BY <1>5, <2>2, <2>3
<1>7. CASE ValidateLogin(r)
  <2> DEFINE n == NewCounter(counter[tx[r].passkey], tx[r].count)
  <2>1. Work(r, [tx[r] EXCEPT !.stage = "ready", !.count = n])
    BY <1>7 DEF ValidateLogin
  <2>2. tx[r].op \in Finishes /\ tx[r].stage \in {"user", "ready"}
    BY <1>7 DEF ValidateLogin, Finishes
  <2> HIDE DEF n
  <2> QED BY <1>5, <2>1, <2>2
<1>8. CASE NoPasskeys(r) \/ PasskeyRefused(r) \/ LoginRefused(r) \/ Abort(r)
  <2>1. Found(NoTx)
    BY NoTxIs DEF Found, Begins, Finishes
  <2> QED BY <1>8, <2>1, WorkFound DEF NoPasskeys, PasskeyRefused, LoginRefused, Abort, Rollback
<1>9. CASE CommitRegistration(r) \/ CommitLogin(r)
  BY <1>9, EndFound DEF CommitRegistration, CommitLogin
<1>10. CASE \E ack \in BOOLEAN : CommitBeginRegistration(r, ack)
  <2>1. tx[r].op = "begin_registration" /\ tx[r].user \in UserId
    BY <1>0, <1>10 DEF CommitBeginRegistration, Begins
  <2>2. tx[r].stage = "locked" => handle'[tx[r].user] # Nil
    BY <1>10, <2>1, PasskeyAssumption DEF CommitBeginRegistration, HandlesOwned, IInv, StoreOK
  <2>3. tx[r].stage = "ready" => handle'[tx[r].user] # Nil
    BY <1>0, <2>1, HandleStays DEF Found, Begins
  <2> QED BY <1>10, <2>2, <2>3, OpenSessionFound DEF CommitBeginRegistration
<1>11. CASE \E ack \in BOOLEAN : OpenLogin(r, ack)
  <2>1. handle'[tx[r].user] # Nil
    BY <1>0, <1>11 DEF OpenLogin, Found, Begins
  <2> QED BY <1>11, <2>1, OpenSessionFound DEF OpenLogin
<1>12. CASE \E u \in UserId : BeginRegistration(r, u) \/ BeginLogin(r, u)
  BY <1>12, <1>1 DEF BeginRegistration, BeginLogin, Begins
<1>13. CASE Registering(r)
  BY <1>13, <1>2, <1>6, <1>8, <1>9, <1>10, <1>12 DEF Registering
<1>14. CASE LoggingIn(r)
  BY <1>14, <1>3, <1>6, <1>7, <1>8, <1>9, <1>11, <1>12 DEF LoggingIn
<1> QED BY <1>4, <1>8, <1>13, <1>14

LEMMA FoundStep == IInv /\ HandlesOwned /\ HandleInv /\ [Next]_vars => HandleInv'
<1> SUFFICES ASSUME IInv, HandlesOwned, HandleInv, [Next]_vars PROVE HandleInv'
  OBVIOUS
<1>1. ASSUME NEW r \in Request, SetHandle(r) PROVE HandleInv'
  <2>1. PICK h \in FreshHandle :
          /\ \A q \in Request \ {r} : tx'[q] = tx[q]
          /\ tx'[r].op = tx[r].op /\ tx'[r].user = tx[r].user
          /\ tx[r].op \in Begins /\ ceremony' = ceremony
          /\ \/ tx[r].op = "begin_registration" /\ tx'[r].stage = "locked"
             \/ /\ tx[r].op = "begin_login"
                /\ handle' = [handle EXCEPT ![tx[r].user] = h]
    BY <1>1, SetHandleDoes
  <2>2. tx[r].user \in UserId /\ h # Nil
    BY <2>1, PasskeyAssumption DEF IInv, Requests, Shape, FreshHandle
  <2>3. Found(tx[r])'
    BY <2>1, <2>2 DEF Found, Begins, Finishes, IInv, StoreOK
  <2>4. \A q \in Request : Found(tx[q])'
    BY <2>1, <2>3, FoundStays
  <2> QED BY <2>1, <2>4, FoundStays DEF HandleInv
<1>2. CASE tx' \in {tx, [r \in Request |-> NoTx]} /\ UNCHANGED <<handle, ceremony>>
  <2>1. Found(NoTx)'
    BY NoTxIs DEF Found, Begins, Finishes
  <2>2. \A q \in Request : Found(tx[q])'
    BY <1>2, <2>1, FoundStays DEF Found
  <2> QED BY <1>2, <2>2 DEF HandleInv
<1> QED BY <1>1, <1>2, RequestFound, HandleCases

LEMMA FoundInit == Init => HandleInv
BY NoTxIs DEF Init, HandleInv, Found, Begins, Finishes

\* Whatever begins and finishes overlap, a finish never has to make a handle: the row of its
\* ceremony was written by a begin that had one, and no handle is ever unset.  So the UPDATE
\* in webAuthnUserFromModel runs, and can wait for the user's row, in the begins only.
THEOREM FinishesNeedNoHandle == Spec => []FinishesFindHandle
<1>1. HandleInv => FinishesFindHandle
  BY DEF HandleInv, Found, Finishes, FinishesFindHandle
<1>2. Spec => []HandleInv
  BY AlwaysIInv, OwnedAlways, FoundInit, FoundStep, PTL DEF Spec
<1> QED BY <1>1, <1>2, PTL

-----------------------------------------------------------------------------
(* The deadline that is not set                                            *)

Expired == \A s \in open : ceremony[s].expires < 0

LEMMA ExpiredStep ==
    ASSUME Enforced = {FALSE}
    PROVE  IInv /\ NothingFinishes /\ Expired /\ [Next]_vars => NothingFinishes' /\ Expired'
<1> SUFFICES ASSUME IInv, NothingFinishes, Expired, [Next]_vars PROVE NothingFinishes' /\ Expired'
  OBVIOUS
<1> DEFINE Good == NothingFinishes' /\ Expired'
<1>0. tx \in [Request -> Tx] /\ now \in Nat /\ open \subseteq Session
  BY DEF IInv, Requests, StoreOK
<1>1. ASSUME \A r \in Request : tx'[r].op \in {tx[r].op, "none"} \cup Begins,
             UNCHANGED <<ceremony, open, owner>>
      PROVE  Good
  BY <1>1 DEF NothingFinishes, Expired, Begins
<1>2. ASSUME NEW r \in Request, SetHandle(r) PROVE Good
  <2>1. (\A q \in Request \ {r} : tx'[q] = tx[q]) /\ tx'[r].op = tx[r].op
    BY <1>2, SetHandleDoes
  <2>2. UNCHANGED <<ceremony, open, owner>>
    BY <1>2 DEF SetHandle, Work, rows
  <2> QED BY <1>1, <2>1, <2>2
<1>3. ASSUME NEW r \in Request, NEW u \in UserId, NEW op \in Begins, Begin(r, u, op) PROVE Good
  <2> DEFINE x == [NoTx EXCEPT !.op = op, !.user = u, !.handle = handle[u],
                               !.stage = IF handle[u] = Nil THEN "read" ELSE "ready"]
  <2>1. x.op = op
    BY DEF NoTx
  <2>2. Work(r, x)
    BY <1>3 DEF Begin
  <2> HIDE DEF x
  <2>3. \A q \in Request : tx'[q] = IF q = r THEN x ELSE tx[q]
    BY <1>0, <2>2 DEF Work
  <2> QED BY <1>1, <2>1, <2>2, <2>3 DEF Work, rows
<1>4. ASSUME NEW r \in Request, NEW ack, NEW flow, NEW allowed, OpenSession(r, ack, flow, allowed)
      PROVE  Good
  <2>1. PICK s \in Session : /\ ceremony' = [ceremony EXCEPT ![s] =
                                  [flow |-> flow, user |-> tx[r].user, handle |-> tx[r].handle,
                                   allowed |-> allowed, expires |-> ZeroTime]]
                             /\ open' = open \cup {s} /\ End(r) /\ owner' = owner
    BY <1>4 DEF OpenSession, Deadline
  <2>2. \A t \in Session : ceremony'[t].expires = IF t = s THEN ZeroTime ELSE ceremony[t].expires
    BY <2>1 DEF IInv, StoreOK
  <2>3. Expired'
    BY <1>0, <2>1, <2>2 DEF Expired, ZeroTime
  <2>4. \A q \in Request : tx'[q].op \in {tx[q].op, "none"}
    BY <1>0, <2>1, NoTxIs DEF End
  <2> QED BY <2>1, <2>3, <2>4 DEF NothingFinishes
\* Nobody gets in, and nobody is in.
<1>5. ASSUME NEW s \in open, now <= ceremony[s].expires PROVE FALSE
  <2>1. ceremony[s].expires \in Int /\ ceremony[s].expires < 0
    BY <1>0 DEF IInv, StoreOK, Ceremony, Expired
  <2> QED BY <1>0, <1>5, <2>1
<1>6. ASSUME NEW r \in Request
      PROVE  ~(\/ \E s \in Session, c \in Credential : FinishRegistration(r, s, c)
               \/ \E a \in answers : FinishLogin(r, a)
               \/ ReadUser(r) \/ StorePasskey(r) \/ PasskeyRefused(r) \/ CommitRegistration(r)
               \/ ValidateLogin(r) \/ LoginRefused(r) \/ UpdatePasskey(r) \/ CommitLogin(r))
  BY <1>5 DEF FinishRegistration, FinishLogin, ReadUser, StorePasskey, PasskeyRefused,
     CommitRegistration, ValidateLogin, LoginRefused, UpdatePasskey, CommitLogin, NothingFinishes
<1>7. ASSUME NEW r \in Request, NoPasskeys(r) \/ Abort(r) PROVE Good
  <2>1. \A q \in Request : tx'[q].op \in {tx[q].op, "none"}
    BY <1>0, <1>7, NoTxIs DEF NoPasskeys, Abort, Rollback, Work
  <2>2. UNCHANGED <<ceremony, open, owner>>
    BY <1>7 DEF NoPasskeys, Abort, Rollback, Work, rows
  <2> QED BY <1>1, <2>1, <2>2
<1>8. ASSUME NEW r \in Request, Registering(r) \/ LoggingIn(r) PROVE Good
  <2>1. CASE \E u \in UserId : BeginRegistration(r, u) \/ BeginLogin(r, u)
    BY <1>3, <2>1 DEF BeginRegistration, BeginLogin, Begins
  <2>2. CASE \E ack \in BOOLEAN : CommitBeginRegistration(r, ack) \/ OpenLogin(r, ack)
    BY <1>4, <2>2 DEF CommitBeginRegistration, OpenLogin
  <2> HIDE DEF Good
  <2> QED BY <1>6, <1>7, <1>8, <2>1, <2>2 DEF Registering, LoggingIn
<1>9. ASSUME NEW s \in Session, CreatePasskey(s) \/ \E c \in Credential : Sign(s, c) PROVE Good
  BY <1>1, <1>9 DEF CreatePasskey, Sign, rows
<1>10. CASE Crash \/ Tick \/ UNCHANGED vars
  BY <1>1, <1>10, NoTxIs DEF Crash, Tick, vars, rows
<1> HIDE DEF Good
<1> QED BY <1>2, <1>6, <1>7, <1>8, <1>9, <1>10 DEF Next, Good

\* As the library is configured here (newWebAuthnManager sets no Timeouts, so no deadline is
\* ever set), no finish request ever gets past its look at expires_at, and no passkey is ever
\* registered, however often clients begin (FinishWebAuthnRegistration, FinishWebAuthnLogin).
THEOREM WithoutDeadlinesNothingFinishes ==
    ASSUME Enforced = {FALSE}
    PROVE  Spec => []NothingFinishes
<1>1. Init => NothingFinishes /\ Expired
  BY NoTxIs DEF Init, NothingFinishes, Expired
<1>2. IInv /\ NothingFinishes /\ Expired /\ [Next]_vars => NothingFinishes' /\ Expired'
  BY ExpiredStep
<1> QED BY AlwaysIInv, <1>1, <1>2, PTL DEF Spec
==============================================================================
