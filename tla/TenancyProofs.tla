---------------------------- MODULE TenancyProofs ----------------------------
(***************************************************************************)
(* Proofs about Tenancy, for any number of tenants, users, keys and        *)
(* requests: the row locks make every change of a member or a key happen   *)
(* once, and the principal of a request is never allowed more than it was  *)
(* at some instant of the request.                                         *)
(***************************************************************************)
EXTENDS Tenancy, FiniteSetTheorems, TLAPS

MembershipOp == {"membership.create", "membership.update_role"}
KeyOp == {"api_key.create", "api_key.revoke"}

Tx == [op : {"none"} \cup MembershipOp \cup KeyOp, stage : Stage,
       actor : UserId \cup KeyId \cup {Nil}, grants : SUBSET (OrgId \X Permission),
       org : OrgId \cup {Nil}, user : UserId \cup {Nil}, role : Role \cup {Nil},
       key : KeyId \cup {Nil}]

\* The rows.
RowsOK ==
    /\ role \in [OrgId -> [UserId -> Role \cup {Nil}]]
    /\ key_org \in [KeyId -> OrgId \cup {Nil}]
    /\ scopes \in [KeyId -> ScopeSet \cup {{}}]
    /\ revoked \subseteq KeyId
    /\ audit \in [Event -> Nat]
    /\ delivered \subseteq KeyId
    /\ \A o \in OrgId : role[o][Founder[o]] # Nil

\* What a request names at each stage.
Named(x) ==
    /\ x.op = "none" <=> x.stage \in {"idle", "key_read", "principal"}
    /\ x.op = "none" => x.user = Nil /\ x.key = Nil
    /\ x.op \in MembershipOp => x.org \in OrgId /\ x.user \in UserId /\ x.role \in Role /\ x.key = Nil
    /\ x.op \in KeyOp => x.org \in OrgId /\ x.user = Nil
    /\ x.op = "api_key.create" => x.key = Nil /\ x.stage = "begun"
    /\ x.op = "api_key.revoke" => x.key \in KeyId

\* What a written row was, and is until the commit.
Found(x) ==
    x.stage = "written" =>
        /\ x.op = "membership.create" => role[x.org][x.user] = Nil
        /\ x.op = "membership.update_role" => role[x.org][x.user] # Nil
        /\ x.op = "api_key.revoke" => x.key \notin revoked /\ key_org[x.key] # Nil

\* Two transactions that have written the same row.
Same(x, y) ==
    /\ x.stage = "written" /\ y.stage = "written"
    /\ \/ x.key # Nil /\ x.key = y.key
       \/ x.user # Nil /\ x.user = y.user /\ x.org = y.org

Locks == \A q, r \in Request : Same(tx[q], tx[r]) => q = r

Stored ==
    /\ RowsOK
    /\ tx \in [Request -> Tx]
    /\ \A r \in Request : Named(tx[r]) /\ Found(tx[r])
    /\ Locks

-----------------------------------------------------------------------------
LEMMA NoTxIsTx == NoTx \in Tx /\ Named(NoTx) /\ NoTx.stage = "idle" /\ NoTx.op = "none"
BY DEF NoTx, Tx, Named, Stage, MembershipOp, KeyOp

\* A request changes its own transaction and no row.
LEMMA WorkKeeps ==
    ASSUME Stored, NEW r \in Request, NEW x \in Tx, Work(r, x), Named(x), Found(x),
           \A q \in Request \ {r} : ~Same(tx[q], x) /\ ~Same(x, tx[q])
    PROVE  Stored'
<1>1. tx' = [tx EXCEPT ![r] = x] /\ UNCHANGED <<role, key_org, scopes, revoked, audit, delivered>>
  BY DEF Work, rows
<1>2. \A q \in Request : tx'[q] = IF q = r THEN x ELSE tx[q]
  BY <1>1 DEF Stored
<1>3. tx' \in [Request -> Tx]
  BY <1>1 DEF Stored
<1>4. RowsOK'
  BY <1>1 DEF Stored, RowsOK
<1>5. \A q \in Request : Named(tx[q])'
  BY <1>2 DEF Stored, Named
<1>6. \A q \in Request : Found(tx[q])'
  BY <1>1, <1>2 DEF Stored, Found
<1>7. Locks'
  BY <1>2 DEF Stored, Locks, Same
<1> QED
  BY <1>3, <1>4, <1>5, <1>6, <1>7 DEF Stored

\* ... and if it has written nothing there is nothing to wait for.
LEMMA UnwrittenKeeps ==
    ASSUME Stored, NEW r \in Request, NEW x \in Tx, Work(r, x), Named(x), x.stage # "written"
    PROVE  Stored'
BY WorkKeeps DEF Found, Same

LEMMA RollbackKeeps == ASSUME Stored, NEW r \in Request, Rollback(r) PROVE Stored'
BY UnwrittenKeeps, NoTxIsTx DEF Rollback

LEMMA AccessTokenKeeps == ASSUME Stored, NEW r \in Request, NEW u \in UserId,
                                 AuthenticateAccessToken(r, u)
                          PROVE  Stored'
<1> DEFINE x == [NoTx EXCEPT !.stage = "principal", !.actor = u, !.grants = UserGrants(u)]
<1>1. UserGrants(u) \in SUBSET (OrgId \X Permission)
  BY DEF UserGrants
<1>2. x \in Tx /\ Named(x) /\ x.stage # "written"
  BY <1>1 DEF NoTx, Tx, Named, Stage, MembershipOp, KeyOp
<1>3. Work(r, x)
  BY DEF AuthenticateAccessToken
<1> HIDE DEF x
<1> QED
  BY <1>2, <1>3, UnwrittenKeeps

LEMMA APIKeyKeeps == ASSUME Stored, NEW r \in Request, NEW k \in KeyId, AuthenticateAPIKey(r, k)
                     PROVE  Stored'
<1> DEFINE x == [NoTx EXCEPT !.stage = "key_read", !.actor = k]
<1>2. x \in Tx /\ Named(x) /\ x.stage # "written"
  BY DEF NoTx, Tx, Named, Stage, MembershipOp, KeyOp
<1>3. Work(r, x)
  BY DEF AuthenticateAPIKey
<1> HIDE DEF x
<1> QED
  BY <1>2, <1>3, UnwrittenKeeps

LEMMA KeyGrantsAre == ASSUME Stored, NEW k \in KeyId, key_org[k] # Nil
                      PROVE  KeyGrants(k) \in SUBSET (OrgId \X Permission)
<1>1. key_org[k] \in OrgId /\ scopes[k] \subseteq Permission
  BY InputAssumption DEF Stored, RowsOK
<1> QED
  BY <1>1 DEF KeyGrants

LEMMA TouchKeeps == ASSUME Stored, NEW r \in Request, TouchAPIKey(r),
                           tx[r].actor \in KeyId, key_org[tx[r].actor] # Nil
                    PROVE  Stored'
<1> DEFINE x == [tx[r] EXCEPT !.stage = "principal", !.grants = KeyGrants(tx[r].actor)]
<1>1. tx[r] \in Tx /\ Named(tx[r]) /\ tx[r].stage = "key_read"
  BY DEF Stored, TouchAPIKey
<1>2. KeyGrants(tx[r].actor) \in SUBSET (OrgId \X Permission)
  BY KeyGrantsAre
<1>3. x \in Tx
  BY <1>1, <1>2 DEF Tx, Stage
<1>4. x.stage = "principal" /\ x.op = tx[r].op /\ x.org = tx[r].org /\ x.user = tx[r].user
      /\ x.role = tx[r].role /\ x.key = tx[r].key
  BY <1>1 DEF Tx
<1>5. Work(r, x)
  BY DEF TouchAPIKey
<1> HIDE DEF x
<1>6. Named(x) /\ x.stage # "written"
  BY <1>1, <1>4 DEF Named
<1> QED
  BY <1>3, <1>5, <1>6, UnwrittenKeeps

LEMMA BeginMembershipKeeps ==
    ASSUME Stored, NEW r \in Request, NEW op \in MembershipOp, NEW o \in OrgId, NEW u \in UserId,
           NEW new \in Role, BeginMembership(r, op, o, u, new)
    PROVE  Stored'
<1> DEFINE x == [tx[r] EXCEPT !.op = op, !.stage = "begun", !.org = o, !.user = u, !.role = new]
<1>1. tx[r] \in Tx /\ Named(tx[r]) /\ tx[r].stage = "principal"
  BY DEF Stored, BeginMembership
<1>2. x \in Tx
  BY <1>1 DEF Tx, Stage
<1>3. x.stage = "begun" /\ x.op = op /\ x.org = o /\ x.user = u /\ x.role = new /\ x.key = tx[r].key
  BY <1>1 DEF Tx
<1>4. Work(r, x)
  BY DEF BeginMembership
<1> HIDE DEF x
<1>5. tx[r].key = Nil
  BY <1>1 DEF Named, Stored
<1>6. Named(x) /\ x.stage # "written"
  BY <1>3, <1>5 DEF Named, MembershipOp, KeyOp
<1> QED
  BY <1>2, <1>4, <1>6, UnwrittenKeeps

LEMMA BeginAPIKeyKeeps ==
    ASSUME Stored, NEW r \in Request, NEW op \in KeyOp, NEW o \in OrgId, NEW k \in KeyId \cup {Nil},
           op = "api_key.create" <=> k = Nil, BeginAPIKey(r, op, o, k)
    PROVE  Stored'
<1> DEFINE x == [tx[r] EXCEPT !.op = op, !.stage = "begun", !.org = o, !.key = k]
<1>1. tx[r] \in Tx /\ Named(tx[r]) /\ tx[r].stage = "principal"
  BY DEF Stored, BeginAPIKey
<1>2. x \in Tx
  BY <1>1 DEF Tx, Stage
<1>3. x.stage = "begun" /\ x.op = op /\ x.org = o /\ x.user = tx[r].user /\ x.key = k
  BY <1>1 DEF Tx
<1>4. Work(r, x)
  BY DEF BeginAPIKey
<1> HIDE DEF x
<1>5. tx[r].user = Nil
  BY <1>1 DEF Named, Stored
<1>6. Named(x) /\ x.stage # "written"
  BY <1>3, <1>5 DEF Named, MembershipOp, KeyOp
<1> QED
  BY <1>2, <1>4, <1>6, UnwrittenKeeps

\* A statement that writes the row it has waited for.
LEMMA WriteKeeps ==
    ASSUME Stored, NEW r \in Request, tx[r].op # "none", tx[r].op # "api_key.create",
           Work(r, [tx[r] EXCEPT !.stage = "written"]),
           tx[r].op \in MembershipOp => ~MembershipLocked(r),
           tx[r].op = "membership.create" => role[tx[r].org][tx[r].user] = Nil,
           tx[r].op = "membership.update_role" => role[tx[r].org][tx[r].user] # Nil,
           tx[r].op = "api_key.revoke" =>
               ~KeyLocked(tx[r].key) /\ tx[r].key \notin revoked /\ key_org[tx[r].key] # Nil
    PROVE  Stored'
<1> DEFINE x == [tx[r] EXCEPT !.stage = "written"]
<1>1. tx[r] \in Tx /\ Named(tx[r])
  BY DEF Stored
<1>2. x \in Tx
  BY <1>1 DEF Tx, Stage
<1>3. /\ x.stage = "written" /\ x.op = tx[r].op /\ x.org = tx[r].org /\ x.user = tx[r].user
      /\ x.role = tx[r].role /\ x.key = tx[r].key
  BY <1>1 DEF Tx
<1>4. Work(r, x)
  OBVIOUS
<1> HIDE DEF x
<1>5. Named(x) /\ Found(x)
  BY <1>1, <1>3 DEF Named, Found
<1>6. ASSUME NEW q \in Request \ {r}, Same(tx[q], x) \/ Same(x, tx[q]) PROVE FALSE
  <2>1. tx[q].stage = "written"
    BY <1>6 DEF Same
  <2>2. CASE x.key # Nil /\ x.key = tx[q].key
    BY <1>1, <1>3, <2>1, <2>2 DEF Named, KeyLocked, MembershipOp, KeyOp, Tx
  <2>3. CASE x.user # Nil /\ x.user = tx[q].user /\ x.org = tx[q].org
    BY <1>1, <1>3, <2>1, <2>3 DEF Named, MembershipLocked, MembershipOp, KeyOp, Tx
  <2> QED BY <1>6, <2>2, <2>3 DEF Same
<1> QED
  BY <1>2, <1>4, <1>5, <1>6, WorkKeeps

-----------------------------------------------------------------------------
(* The commits                                                             *)

\* A transaction that ends leaves the others: what they have found is not what it changes.
LEMMA EndKeeps ==
    ASSUME Stored, NEW r \in Request, RowsOK', tx' = [tx EXCEPT ![r] = NoTx],
           \A q \in Request \ {r} : Found(tx[q])'
    PROVE  Stored'
<1>1. \A q \in Request : tx'[q] = IF q = r THEN NoTx ELSE tx[q]
  BY DEF Stored
<1>2. tx' \in [Request -> Tx]
  BY NoTxIsTx DEF Stored
<1>3. \A q \in Request : Named(tx[q])'
  BY <1>1, NoTxIsTx DEF Stored, Named
<1>4. \A q \in Request : Found(tx[q])'
  BY <1>1, NoTxIsTx DEF Found
<1>5. Locks'
  BY <1>1, NoTxIsTx DEF Stored, Locks, Same
<1> QED
  BY <1>2, <1>3, <1>4, <1>5 DEF Stored

LEMMA AuditKeeps == ASSUME Stored, NEW event \in Event, NEW r, End(r, event)
                    PROVE  /\ audit' \in [Event -> Nat]
                           /\ audit'[event] = audit[event] + 1
                           /\ \A e \in Event : e # event => audit'[e] = audit[e]
BY DEF End, Stored, RowsOK

LEMMA CommitMembershipKeeps == ASSUME Stored, NEW r \in Request, CommitMembership(r)
                               PROVE  Stored'
<1> DEFINE o == tx[r].org
           u == tx[r].user
           new == tx[r].role
           event == <<tx[r].op, o, u, new>>
<1>1. /\ tx[r].op \in MembershipOp /\ tx[r].stage = "written"
      /\ o \in OrgId /\ u \in UserId /\ new \in Role /\ new # Nil /\ u # Nil
      /\ tx[r] \in Tx
  BY TenancyAssumption DEF Stored, Named, CommitMembership, MembershipOp
<1>2. event \in Event
  BY <1>1 DEF Event, MembershipOp
<1>3. /\ role' = [role EXCEPT ![o][u] = new] /\ End(r, event)
      /\ UNCHANGED <<key_org, scopes, revoked, delivered>> /\ tx' = [tx EXCEPT ![r] = NoTx]
  BY DEF CommitMembership, End
<1> HIDE DEF o, u, new, event
<1>4. \A p \in OrgId, v \in UserId : role'[p][v] = IF p = o /\ v = u THEN new ELSE role[p][v]
  BY <1>1, <1>3 DEF Stored, RowsOK
<1>5. RowsOK'
  <2>1. role' \in [OrgId -> [UserId -> Role \cup {Nil}]]
    BY <1>1, <1>3 DEF Stored, RowsOK
  <2>2. \A p \in OrgId : role'[p][Founder[p]] # Nil
    BY <1>1, <1>4, TenancyAssumption DEF Stored, RowsOK
  <2> QED
    BY <2>1, <2>2, <1>2, <1>3, AuditKeeps DEF Stored, RowsOK
<1>6. ASSUME NEW q \in Request \ {r} PROVE Found(tx[q])'
  <2>1. tx'[q] = tx[q] /\ Named(tx[q]) /\ Found(tx[q]) /\ ~Same(tx[q], tx[r])
    BY <1>3 DEF Stored, Locks
  <2>2. tx[q].stage = "written" => ~(tx[q].user = u /\ tx[q].org = o)
    BY <2>1, <1>1 DEF Same, o, u
  <2>3. tx[q].stage = "written" /\ tx[q].op \in MembershipOp =>
          role'[tx[q].org][tx[q].user] = role[tx[q].org][tx[q].user]
    BY <2>1, <2>2, <1>4 DEF Named
  <2>4. revoked' = revoked /\ key_org' = key_org
    BY <1>3
  <2> QED
    BY <2>1, <2>3, <2>4 DEF Found, MembershipOp
<1> QED
  BY <1>3, <1>5, <1>6, EndKeeps

LEMMA CreateAPIKeyKeeps ==
    ASSUME Stored, NEW r \in Request, NEW k \in KeyId, NEW granting \in ScopeSet, NEW ack \in BOOLEAN,
           CreateAPIKey(r, k, granting, ack)
    PROVE  Stored'
<1>1. tx[r].org \in OrgId /\ <<"api_key.create", k>> \in Event
  BY DEF Stored, Named, CreateAPIKey, KeyOp, Event
<1>2. /\ key_org' = [key_org EXCEPT ![k] = tx[r].org] /\ key_org[k] = Nil
      /\ scopes' = [scopes EXCEPT ![k] = granting]
      /\ delivered' \subseteq delivered \cup {k}
      /\ UNCHANGED <<role, revoked>> /\ End(r, <<"api_key.create", k>>)
      /\ tx' = [tx EXCEPT ![r] = NoTx]
  BY DEF CreateAPIKey, End
<1>3. RowsOK'
  <2>1. audit' \in [Event -> Nat]
    BY <1>1, <1>2, AuditKeeps
  <2> QED
    BY <2>1, <1>1, <1>2 DEF Stored, RowsOK
<1>4. ASSUME NEW q \in Request \ {r} PROVE Found(tx[q])'
  <2>1. tx'[q] = tx[q] /\ Found(tx[q]) /\ Named(tx[q])
    BY <1>2 DEF Stored
  <2>2. tx[q].op = "api_key.revoke" /\ tx[q].stage = "written" => key_org'[tx[q].key] # Nil
    BY <2>1, <1>2 DEF Found, Named, Stored, RowsOK
  <2> QED
    BY <2>1, <2>2, <1>2 DEF Found
<1> QED
  BY <1>2, <1>3, <1>4, EndKeeps

LEMMA CommitRevokeKeeps == ASSUME Stored, NEW r \in Request, CommitRevoke(r) PROVE Stored'
<1>1. /\ tx[r].key \in KeyId /\ tx[r].key # Nil /\ tx[r].stage = "written"
      /\ <<"api_key.revoke", tx[r].key>> \in Event
  BY TenancyAssumption DEF Stored, Named, CommitRevoke, Event
<1>2. /\ revoked' = revoked \cup {tx[r].key} /\ UNCHANGED <<role, key_org, scopes, delivered>>
      /\ End(r, <<"api_key.revoke", tx[r].key>>) /\ tx' = [tx EXCEPT ![r] = NoTx]
  BY DEF CommitRevoke, End
<1>3. RowsOK'
  <2>1. audit' \in [Event -> Nat]
    BY <1>1, <1>2, AuditKeeps
  <2> QED
    BY <2>1, <1>1, <1>2 DEF Stored, RowsOK
<1>4. ASSUME NEW q \in Request \ {r} PROVE Found(tx[q])'
  <2>1. tx'[q] = tx[q] /\ Found(tx[q]) /\ ~Same(tx[q], tx[r])
    BY <1>2 DEF Stored, Locks
  <2>2. tx[q].stage = "written" => tx[q].key # tx[r].key
    BY <2>1, <1>1 DEF Same
  <2> QED
    BY <2>1, <2>2, <1>2 DEF Found
<1> QED
  BY <1>2, <1>3, <1>4, EndKeeps

-----------------------------------------------------------------------------
(* The principals                                                          *)

\* A principal holds what the rows allowed at some instant, and has started only
\* what it is permitted.
Holds(x, seen) ==
    /\ x.actor \in KeyId => key_org[x.actor] # Nil
    /\ x.stage = "key_read" => x.actor \in KeyId /\ KeyGrants(x.actor) \subseteq seen
    /\ x.stage \in {"principal", "begun", "written"} => x.grants \subseteq seen
    /\ x.op \in MembershipOp => <<x.org, "membership:write">> \in x.grants
    /\ x.op \in KeyOp => <<x.org, "api_key:write">> \in x.grants

Held == \A r \in Request : Holds(tx[r], granted[r])

IInv == Stored /\ Held

\* Whose key it is and what it grants never changes once it exists.
KeysStay == \A k \in KeyId :
    key_org[k] # Nil => key_org'[k] = key_org[k] /\ KeyGrants(k)' = KeyGrants(k)

LEMMA SameRows == ASSUME UNCHANGED <<key_org, scopes>> PROVE KeysStay
BY DEF KeysStay, KeyGrants

LEMMA NoActor == NoTx.stage = "idle" /\ NoTx.op = "none" /\ NoTx.actor \notin KeyId
BY TenancyAssumption DEF NoTx

LEMMA NothingHeld == ASSUME NEW seen PROVE Holds(NoTx, seen)
BY TenancyAssumption DEF Holds, NoTx, MembershipOp, KeyOp

\* What a request has seen to be allowed is not forgotten while it runs.
LEMMA OneHolds ==
    ASSUME Held, KeysStay, Witness, NEW r \in Request,
           \A q \in Request \ {r} : tx'[q] = tx[q],
           Holds(tx[r], granted[r])'
    PROVE  Held'
<1> SUFFICES ASSUME NEW q \in Request \ {r} PROVE Holds(tx[q], granted[q])'
  BY DEF Held
<1>1. tx'[q] = tx[q] /\ Holds(tx[q], granted[q])
  BY DEF Held
<1>2. CASE tx[q] = NoTx
  <2>1. tx'[q].stage = "idle" /\ tx'[q].op = "none" /\ tx'[q].actor \notin KeyId
    BY <1>1, <1>2, NoActor
  <2> QED BY <2>1 DEF Holds, MembershipOp, KeyOp
<1>3. CASE tx[q] # NoTx
  <2>1. granted[q] \subseteq granted'[q]
    BY <1>1, <1>3 DEF Witness
  <2> QED BY <1>1, <2>1 DEF Holds, KeysStay
<1> QED BY <1>2, <1>3

LEMMA WorkHolds ==
    ASSUME Stored, Held, Witness, NEW r \in Request, NEW x, Work(r, x),
           Holds(x, granted'[r])
    PROVE  Held'
<1>1. tx' = [tx EXCEPT ![r] = x] /\ UNCHANGED <<key_org, scopes>>
  BY DEF Work, rows
<1>2. tx'[r] = x /\ \A q \in Request \ {r} : tx'[q] = tx[q]
  BY <1>1 DEF Stored
<1>3. KeysStay
  BY <1>1, SameRows
<1>4. Holds(tx[r], granted[r])'
  BY <1>1, <1>2 DEF Holds, KeyGrants
<1> QED BY <1>2, <1>3, <1>4, OneHolds

LEMMA EndHolds ==
    ASSUME Stored, Held, Witness, NEW r \in Request, KeysStay, tx' = [tx EXCEPT ![r] = NoTx]
    PROVE  Held'
<1>1. tx'[r] = NoTx /\ \A q \in Request \ {r} : tx'[q] = tx[q]
  BY DEF Stored
<1>2. tx'[r].stage = "idle" /\ tx'[r].op = "none" /\ tx'[r].actor \notin KeyId
  BY <1>1, NoActor
<1>3. Holds(tx[r], granted[r])'
  BY <1>2 DEF Holds, MembershipOp, KeyOp
<1> QED BY <1>1, <1>3, OneHolds

LEMMA RollbackHolds == ASSUME Stored, Held, Witness, NEW r \in Request, Rollback(r) PROVE Held'
BY WorkHolds, NothingHeld DEF Rollback

LEMMA AccessTokenHolds ==
    ASSUME Stored, Held, Witness, NEW r \in Request, NEW u \in UserId, AuthenticateAccessToken(r, u)
    PROVE  Held'
<1> DEFINE x == [NoTx EXCEPT !.stage = "principal", !.actor = u, !.grants = UserGrants(u)]
<1>1. x.stage = "principal" /\ x.actor = u /\ x.grants = UserGrants(u) /\ x.op = "none"
  BY DEF NoTx
<1>2. x # NoTx
  BY <1>1, NoTxIsTx
<1>3. Work(r, x) /\ tx[r] = NoTx
  BY DEF AuthenticateAccessToken
<1> HIDE DEF x
<1>4. tx'[r] = x
  BY <1>3 DEF Work, Stored
<1>5. granted'[r] = UserGrants(u)
  BY <1>1, <1>2, <1>3, <1>4 DEF Witness, Allowed
<1>6. Holds(x, granted'[r])
  BY <1>1, <1>5, TenancyAssumption DEF Holds, MembershipOp, KeyOp
<1> QED BY <1>3, <1>6, WorkHolds

LEMMA APIKeyHolds ==
    ASSUME Stored, Held, Witness, NEW r \in Request, NEW k \in KeyId, AuthenticateAPIKey(r, k)
    PROVE  Held'
<1> DEFINE x == [NoTx EXCEPT !.stage = "key_read", !.actor = k]
<1>1. x.stage = "key_read" /\ x.actor = k /\ x.op = "none"
  BY DEF NoTx
<1>2. x # NoTx
  BY <1>1, NoTxIsTx
<1>3. Work(r, x) /\ tx[r] = NoTx /\ k \notin revoked /\ key_org[k] # Nil
  BY DEF AuthenticateAPIKey
<1> HIDE DEF x
<1>4. tx'[r] = x
  BY <1>3 DEF Work, Stored
<1>5. granted'[r] = KeyGrants(k)
  BY <1>1, <1>2, <1>3, <1>4, TenancyAssumption DEF Witness, Allowed
<1>6. Holds(x, granted'[r])
  BY <1>1, <1>3, <1>5 DEF Holds, MembershipOp, KeyOp
<1> QED BY <1>3, <1>6, WorkHolds

\* The steps of a request that has a principal.
LEMMA Remembered ==
    ASSUME Stored, Witness, NEW r \in Request, tx[r].stage # "idle", tx'[r].stage # "idle"
    PROVE  granted[r] \subseteq granted'[r]
BY NoTxIsTx DEF Witness

LEMMA TouchHolds ==
    ASSUME Stored, Held, Witness, NEW r \in Request, TouchAPIKey(r)
    PROVE  Held'
<1> DEFINE x == [tx[r] EXCEPT !.stage = "principal", !.grants = KeyGrants(tx[r].actor)]
<1>1. tx[r] \in Tx /\ Named(tx[r]) /\ tx[r].stage = "key_read" /\ Holds(tx[r], granted[r])
  BY DEF Stored, TouchAPIKey, Held
<1>2. /\ x.stage = "principal" /\ x.grants = KeyGrants(tx[r].actor)
      /\ x.op = tx[r].op /\ x.actor = tx[r].actor
  BY <1>1 DEF Tx
<1>3. Work(r, x)
  BY DEF TouchAPIKey
<1> HIDE DEF x
<1>4. tx'[r] = x
  BY <1>3 DEF Work, Stored
<1>5. granted[r] \subseteq granted'[r]
  BY <1>1, <1>2, <1>4, Remembered
<1>6. Holds(x, granted'[r])
  BY <1>1, <1>2, <1>5 DEF Holds, Named, MembershipOp, KeyOp
<1> QED BY <1>3, <1>6, WorkHolds

LEMMA BeginMembershipHolds ==
    ASSUME Stored, Held, Witness, NEW r \in Request, NEW op \in MembershipOp, NEW o \in OrgId,
           NEW u \in UserId, NEW new \in Role, BeginMembership(r, op, o, u, new)
    PROVE  Held'
<1> DEFINE x == [tx[r] EXCEPT !.op = op, !.stage = "begun", !.org = o, !.user = u, !.role = new]
<1>1. /\ tx[r] \in Tx /\ tx[r].stage = "principal" /\ Holds(tx[r], granted[r])
      /\ <<o, "membership:write">> \in tx[r].grants
  BY DEF Stored, BeginMembership, Held, Permitted
<1>2. /\ x.stage = "begun" /\ x.grants = tx[r].grants /\ x.op = op /\ x.actor = tx[r].actor
      /\ x.org = o
  BY <1>1 DEF Tx
<1>3. Work(r, x)
  BY DEF BeginMembership
<1> HIDE DEF x
<1>4. tx'[r] = x
  BY <1>3 DEF Work, Stored
<1>5. granted[r] \subseteq granted'[r]
  BY <1>1, <1>2, <1>4, Remembered
<1>6. Holds(x, granted'[r])
  BY <1>1, <1>2, <1>5 DEF Holds, MembershipOp, KeyOp
<1> QED BY <1>3, <1>6, WorkHolds

LEMMA BeginAPIKeyHolds ==
    ASSUME Stored, Held, Witness, NEW r \in Request, NEW op \in KeyOp, NEW o \in OrgId,
           NEW k \in KeyId \cup {Nil}, BeginAPIKey(r, op, o, k)
    PROVE  Held'
<1> DEFINE x == [tx[r] EXCEPT !.op = op, !.stage = "begun", !.org = o, !.key = k]
<1>1. /\ tx[r] \in Tx /\ tx[r].stage = "principal" /\ Holds(tx[r], granted[r])
      /\ <<o, "api_key:write">> \in tx[r].grants
  BY DEF Stored, BeginAPIKey, Held, Permitted
<1>2. /\ x.stage = "begun" /\ x.grants = tx[r].grants /\ x.op = op /\ x.actor = tx[r].actor
      /\ x.org = o
  BY <1>1 DEF Tx
<1>3. Work(r, x)
  BY DEF BeginAPIKey
<1> HIDE DEF x
<1>4. tx'[r] = x
  BY <1>3 DEF Work, Stored
<1>5. granted[r] \subseteq granted'[r]
  BY <1>1, <1>2, <1>4, Remembered
<1>6. Holds(x, granted'[r])
  BY <1>1, <1>2, <1>5 DEF Holds, MembershipOp, KeyOp
<1> QED BY <1>3, <1>6, WorkHolds

LEMMA WriteHolds ==
    ASSUME Stored, Held, Witness, NEW r \in Request, tx[r].stage = "begun",
           Work(r, [tx[r] EXCEPT !.stage = "written"])
    PROVE  Held'
<1> DEFINE x == [tx[r] EXCEPT !.stage = "written"]
<1>1. tx[r] \in Tx /\ Holds(tx[r], granted[r])
  BY DEF Stored, Held
<1>2. /\ x.stage = "written" /\ x.grants = tx[r].grants /\ x.op = tx[r].op
      /\ x.actor = tx[r].actor /\ x.org = tx[r].org
  BY <1>1 DEF Tx
<1>3. Work(r, x)
  OBVIOUS
<1> HIDE DEF x
<1>4. tx'[r] = x
  BY <1>3 DEF Work, Stored
<1>5. granted[r] \subseteq granted'[r]
  BY <1>1, <1>2, <1>4, Remembered
<1>6. Holds(x, granted'[r])
  BY <1>1, <1>2, <1>5 DEF Holds
<1> QED BY <1>3, <1>6, WorkHolds

LEMMA CreateAPIKeyStay ==
    ASSUME Stored, NEW r \in Request, NEW k \in KeyId, NEW granting \in ScopeSet,
           NEW ack \in BOOLEAN, CreateAPIKey(r, k, granting, ack)
    PROVE  KeysStay
BY DEF Stored, RowsOK, CreateAPIKey, KeysStay, KeyGrants

-----------------------------------------------------------------------------
(* The inductive invariant                                                 *)

LEMMA CrashKeeps == ASSUME IInv, Witness, Crash PROVE IInv'
<1>1. tx' = [r \in Request |-> NoTx]
      /\ UNCHANGED <<role, key_org, scopes, revoked, audit, delivered>>
  BY DEF Crash, rows
<1>2. \A r \in Request :
         /\ tx'[r] \in Tx /\ tx'[r].stage = "idle" /\ tx'[r].op = "none"
         /\ tx'[r].user = Nil /\ tx'[r].key = Nil /\ tx'[r].actor \notin KeyId
  BY <1>1, NoTxIsTx, NoActor DEF NoTx
<1>3. RowsOK'
  BY <1>1 DEF IInv, Stored, RowsOK
<1>4. tx' \in [Request -> Tx]
  BY <1>1, NoTxIsTx
<1>5. \A r \in Request : Named(tx[r])' /\ Found(tx[r])'
  BY <1>2 DEF Named, Found, MembershipOp, KeyOp
<1>6. Locks'
  BY <1>2 DEF Locks, Same
<1>7. Held'
  BY <1>2 DEF Held, Holds, MembershipOp, KeyOp
<1> QED
  BY <1>3, <1>4, <1>5, <1>6, <1>7 DEF IInv, Stored

LEMMA InitHolds == Init => IInv
<1> SUFFICES ASSUME Init PROVE IInv
  OBVIOUS
<1>1. RowsOK
  <2>1. \A o \in OrgId : Founder[o] \in UserId /\ role[o][Founder[o]] = "owner"
    BY TenancyAssumption DEF Init
  <2> QED BY <2>1, TenancyAssumption DEF Init, RowsOK
<1>2. \A r \in Request : tx[r] = NoTx
  BY DEF Init
<1>3. tx \in [Request -> Tx]
  BY NoTxIsTx DEF Init
<1>4. \A r \in Request :
        /\ tx[r].stage = "idle" /\ tx[r].op = "none" /\ tx[r].user = Nil /\ tx[r].key = Nil
        /\ tx[r].actor \notin KeyId
  BY <1>2, NoActor DEF NoTx
<1>5. \A r \in Request : Named(tx[r]) /\ Found(tx[r])
  BY <1>4 DEF Named, Found, MembershipOp, KeyOp
<1>6. Locks
  BY <1>4 DEF Locks, Same
<1>7. Held
  BY <1>4 DEF Held, Holds, MembershipOp, KeyOp
<1> QED
  BY <1>1, <1>3, <1>5, <1>6, <1>7 DEF IInv, Stored

LEMMA NextKeeps == ASSUME IInv, Next PROVE IInv'
<1> USE DEF IInv, Next
<1>1. ASSUME NEW r \in Request, Arrive(r) PROVE IInv'
  BY <1>1, AccessTokenKeeps, AccessTokenHolds, APIKeyKeeps, APIKeyHolds DEF Arrive
<1>2. ASSUME NEW r \in Request, Decide(r) PROVE IInv'
  <2>1. CASE ReadOnly(r)
    BY <2>1, RollbackKeeps, RollbackHolds DEF ReadOnly
  <2>2. ASSUME NEW op \in MembershipOp, NEW o \in OrgId, NEW u \in UserId, NEW new \in Role,
               BeginMembership(r, op, o, u, new)
        PROVE  IInv'
    BY <2>2, BeginMembershipKeeps, BeginMembershipHolds
  <2>3. ASSUME NEW op \in KeyOp, NEW o \in OrgId, NEW k \in KeyId \cup {Nil},
               op = "api_key.create" <=> k = Nil, BeginAPIKey(r, op, o, k)
        PROVE  IInv'
    BY <2>3, BeginAPIKeyKeeps, BeginAPIKeyHolds
  <2>4. \A k \in KeyId : k # Nil
    BY TenancyAssumption
  <2> QED
    BY <1>2, <2>1, <2>2, <2>3, <2>4 DEF Decide, MembershipOp, KeyOp
<1>3. ASSUME NEW r \in Request, LockingStatement(r) PROVE IInv'
  <2>1. CASE TouchAPIKey(r)
    <3>1. tx[r].actor \in KeyId /\ key_org[tx[r].actor] # Nil
      BY <2>1 DEF TouchAPIKey, Held, Holds
    <3> QED BY <2>1, <3>1, TouchKeeps, TouchHolds
  <2>2. CASE CreateMembership(r) \/ UpdateMembershipRole(r)
    BY <2>2, WriteKeeps, WriteHolds DEF CreateMembership, UpdateMembershipRole
  <2>3. CASE RevokeAPIKey(r)
    BY <2>3, WriteKeeps, WriteHolds DEF RevokeAPIKey, MembershipOp
  <2>4. CASE MembershipRefused(r) \/ NoKeyToRevoke(r)
    BY <2>4, RollbackKeeps, RollbackHolds DEF MembershipRefused, NoKeyToRevoke
  <2> QED
    BY <1>3, <2>1, <2>2, <2>3, <2>4 DEF LockingStatement
<1>4. ASSUME NEW r \in Request, Statement(r) PROVE IInv'
  <2>1. CASE CommitMembership(r)
    <3>1. tx' = [tx EXCEPT ![r] = NoTx] /\ KeysStay
      BY <2>1, SameRows DEF CommitMembership, End
    <3> QED BY <2>1, <3>1, CommitMembershipKeeps, EndHolds
  <2>2. ASSUME NEW k \in KeyId, NEW granting \in ScopeSet, NEW ack \in BOOLEAN,
               CreateAPIKey(r, k, granting, ack)
        PROVE  IInv'
    <3>1. tx' = [tx EXCEPT ![r] = NoTx] /\ KeysStay
      BY <2>2, CreateAPIKeyStay DEF CreateAPIKey, End
    <3> QED BY <2>2, <3>1, CreateAPIKeyKeeps, EndHolds
  <2>3. CASE KeyOfAnotherOrganization(r)
    BY <2>3, RollbackKeeps, RollbackHolds DEF KeyOfAnotherOrganization
  <2>4. CASE CommitRevoke(r)
    <3>1. tx' = [tx EXCEPT ![r] = NoTx] /\ KeysStay
      BY <2>4, SameRows DEF CommitRevoke, End
    <3> QED BY <2>4, <3>1, CommitRevokeKeeps, EndHolds
  <2> QED
    BY <1>4, <2>1, <2>2, <2>3, <2>4 DEF Statement
<1>5. ASSUME NEW r \in Request, Abort(r) PROVE IInv'
  BY <1>5, RollbackKeeps, RollbackHolds DEF Abort
<1> QED
  BY <1>1, <1>2, <1>3, <1>4, <1>5, CrashKeeps DEF Step

LEMMA StutterKeeps == ASSUME IInv, UNCHANGED vars PROVE IInv'
<1>1. UNCHANGED <<role, key_org, scopes, revoked, audit, delivered, tx, granted>>
  BY DEF vars, rows
<1> QED
  BY <1>1 DEF IInv, Stored, RowsOK, Named, Found, Locks, Same, Held, Holds, KeyGrants

LEMMA AlwaysIInv == Spec => []IInv
BY InitHolds, NextKeeps, StutterKeeps, PTL DEF Spec

-----------------------------------------------------------------------------
(* What follows from it                                                    *)

\* The three steps that change a row.
LEMMA RowChanges ==
    ASSUME Step
    PROVE  \/ UNCHANGED rows
           \/ \E r \in Request : CommitMembership(r) \/ CommitRevoke(r)
           \/ \E r \in Request, k \in KeyId, granting \in ScopeSet, ack \in BOOLEAN :
                CreateAPIKey(r, k, granting, ack)
<1>1. ASSUME NEW r \in Request, Arrive(r) PROVE UNCHANGED rows
  BY <1>1 DEF Arrive, AuthenticateAccessToken, AuthenticateAPIKey, Work
<1>2. ASSUME NEW r \in Request, Decide(r) PROVE UNCHANGED rows
  BY <1>2 DEF Decide, ReadOnly, BeginMembership, BeginAPIKey, Rollback, Work
<1>3. ASSUME NEW r \in Request, LockingStatement(r) PROVE UNCHANGED rows
  BY <1>3 DEF LockingStatement, TouchAPIKey, CreateMembership, UpdateMembershipRole,
              MembershipRefused, RevokeAPIKey, NoKeyToRevoke, Rollback, Work
<1>4. ASSUME NEW r \in Request, KeyOfAnotherOrganization(r) \/ Abort(r) PROVE UNCHANGED rows
  BY <1>4 DEF KeyOfAnotherOrganization, Abort, Rollback, Work
<1>5. Crash => UNCHANGED rows
  BY DEF Crash
<1> QED
  BY <1>1, <1>2, <1>3, <1>4, <1>5 DEF Step, Statement

LEMMA AllowedType ==
    RowsOK => \A a : (a \in KeyId => key_org[a] # Nil)
                       => Allowed(a) \in SUBSET (OrgId \X Permission)
<1> SUFFICES ASSUME RowsOK, NEW a, a \in KeyId => key_org[a] # Nil
             PROVE  Allowed(a) \in SUBSET (OrgId \X Permission)
  OBVIOUS
<1>1. CASE a \in UserId
  BY <1>1 DEF Allowed, UserGrants
<1>2. CASE a \notin UserId /\ a \in KeyId \ revoked
  <2>1. key_org[a] \in OrgId /\ scopes[a] \subseteq Permission
    BY <1>2, InputAssumption DEF RowsOK
  <2> QED BY <1>2, <2>1 DEF Allowed, KeyGrants
<1>3. CASE a \notin UserId /\ a \notin KeyId \ revoked
  BY <1>3 DEF Allowed
<1> QED BY <1>1, <1>2, <1>3

LEMMA AllowedTypeNext ==
    (RowsOK => \A a : (a \in KeyId => key_org[a] # Nil)
                        => Allowed(a) \in SUBSET (OrgId \X Permission))'
BY AllowedType, PTL

SeenOK == granted \in [Request -> SUBSET (OrgId \X Permission)]

LEMMA SeenKeeps == ASSUME IInv, SeenOK, Next PROVE SeenOK'
<1> SUFFICES ASSUME NEW r \in Request PROVE granted'[r] \in SUBSET (OrgId \X Permission)
  BY DEF SeenOK, Next, Witness
<1>1. IInv'
  BY NextKeeps
<1>2. CASE tx'[r] = NoTx
  BY <1>2 DEF Next, Witness
<1>3. CASE tx'[r] # NoTx /\ tx[r] = NoTx
  <2>1. tx'[r].actor \in KeyId => key_org'[tx'[r].actor] # Nil
    BY <1>1 DEF IInv, Held, Holds
  <2>2. ASSUME key_org' # key_org PROVE FALSE
    <3>1. PICK q \in Request : tx' = [tx EXCEPT ![q] = NoTx]
      BY <2>2, RowChanges DEF Next, rows, CommitMembership, CommitRevoke, CreateAPIKey, End
    <3> QED BY <3>1, <1>3 DEF IInv, Stored
  <2>3. Allowed(tx'[r].actor) \in SUBSET (OrgId \X Permission)
    BY <2>1, <2>2, AllowedType DEF IInv, Stored
  <2> QED BY <1>3, <2>3 DEF Next, Witness
<1>4. CASE tx'[r] # NoTx /\ tx[r] # NoTx
  <2> DEFINE now == Allowed(tx[r].actor)'
  <2>0. RowsOK'
    BY <1>1 DEF IInv, Stored
  <2>1. tx'[r].actor \in KeyId => key_org'[tx'[r].actor] # Nil
    BY <1>1 DEF IInv, Held, Holds
  <2>2. now \in SUBSET (OrgId \X Permission)
    BY <2>0, <2>1, AllowedTypeNext
  <2>3. granted'[r] = granted[r] \cup now
    BY <1>4 DEF Next, Witness
  <2> QED BY <2>2, <2>3 DEF SeenOK
<1> QED BY <1>2, <1>3, <1>4

\* The rows and the requests keep their types: in particular an organization never
\* loses its founder, and a request never holds a permission outside the list
\* (schema of 00001 and 00002, PermissionsForRole, validateScopes).
THEOREM TypeCorrect == Spec => []TypeOK
<1>1. Init => SeenOK
  BY DEF Init, SeenOK
<1>2. IInv /\ SeenOK /\ [Next]_vars => SeenOK'
  BY SeenKeeps DEF SeenOK, vars
<1>3. IInv /\ SeenOK => TypeOK
  BY DEF IInv, Stored, RowsOK, SeenOK, TypeOK, Tx
<1> QED
  BY <1>1, <1>2, <1>3, AlwaysIInv, PTL DEF Spec

\* Every change of the members or the keys of an organization is the commit of a
\* request that was allowed it in that organization while it ran, for any number of
\* tenants, roles and requests (requirePermission, AuthenticateAPIKey, RevokeAPIKey).
THEOREM AuthorizedChanges == Spec => AuthorizedWhileRunning
<1> DEFINE Done(r, o, p) == tx[r] # NoTx /\ tx'[r] = NoTx /\ <<o, p>> \in granted[r]
           A == \A o \in OrgId :
                  /\ role'[o] # role[o] => \E r \in Request : Done(r, o, "membership:write")
                  /\ KeysChanged(o) => \E r \in Request : Done(r, o, "api_key:write")
<1>1. ASSUME IInv, Next PROVE A
  <2>1. CASE UNCHANGED rows
    BY <2>1, TenancyAssumption DEF rows, KeysChanged
  <2>2. ASSUME NEW r \in Request, CommitMembership(r) PROVE A
    <3>1. /\ tx[r].stage = "written" /\ tx[r].op \in MembershipOp
          /\ <<tx[r].org, "membership:write">> \in granted[r]
      BY <1>1, <2>2 DEF IInv, Held, Holds, CommitMembership, MembershipOp
    <3>2. Done(r, tx[r].org, "membership:write")
      BY <1>1, <2>2, <3>1, NoTxIsTx DEF CommitMembership, End, IInv, Stored
    <3>3. \A o \in OrgId : role'[o] # role[o] => o = tx[r].org
      BY <1>1, <2>2 DEF CommitMembership, IInv, Stored, RowsOK
    <3>4. \A o \in OrgId : ~KeysChanged(o)
      BY <2>2, TenancyAssumption DEF CommitMembership, KeysChanged
    <3> QED BY <3>2, <3>3, <3>4
  <2>3. ASSUME NEW r \in Request, CommitRevoke(r) PROVE A
    <3>1. /\ tx[r].stage = "written" /\ tx[r].op = "api_key.revoke"
          /\ <<tx[r].org, "api_key:write">> \in granted[r]
      BY <1>1, <2>3 DEF IInv, Held, Holds, CommitRevoke, KeyOp
    <3>2. Done(r, tx[r].org, "api_key:write")
      BY <1>1, <2>3, <3>1, NoTxIsTx DEF CommitRevoke, End, IInv, Stored
    <3>3. \A o \in OrgId : role'[o] = role[o] /\ (KeysChanged(o) => o = tx[r].org)
      BY <2>3, TenancyAssumption DEF CommitRevoke, KeysChanged
    <3> QED BY <3>2, <3>3
  <2>4. ASSUME NEW r \in Request, NEW k \in KeyId, NEW granting \in ScopeSet,
               NEW ack \in BOOLEAN, CreateAPIKey(r, k, granting, ack)
        PROVE  A
    <3>1. /\ tx[r].stage = "begun" /\ tx[r].op = "api_key.create"
          /\ <<tx[r].org, "api_key:write">> \in granted[r]
      BY <1>1, <2>4 DEF IInv, Held, Holds, CreateAPIKey, KeyOp
    <3>2. Done(r, tx[r].org, "api_key:write")
      BY <1>1, <2>4, <3>1, NoTxIsTx DEF CreateAPIKey, End, IInv, Stored
    <3>3. \A o \in OrgId : role'[o] = role[o] /\ (KeysChanged(o) => o = tx[r].org)
      BY <1>1, <2>4, TenancyAssumption DEF CreateAPIKey, KeysChanged, IInv, Stored, RowsOK
    <3> QED BY <3>2, <3>3
  <2> QED
    BY <1>1, <2>1, <2>2, <2>3, <2>4, RowChanges DEF Next
<1>2. IInv /\ [Next]_vars => [A]_vars
  BY <1>1
<1> QED
  BY <1>2, AlwaysIInv, PTL DEF Spec, AuthorizedWhileRunning

-----------------------------------------------------------------------------
(* The audit log                                                           *)

LEMMA KeysLogged == ASSUME IInv, KeysAuditedOnce, Next PROVE KeysAuditedOnce'
<1> USE DEF IInv, Next
<1>1. CASE UNCHANGED rows
  BY <1>1 DEF rows, KeysAuditedOnce
<1>2. ASSUME NEW r \in Request, CommitMembership(r) PROVE KeysAuditedOnce'
  <2> DEFINE event == <<tx[r].op, tx[r].org, tx[r].user, tx[r].role>>
  <2>1. tx[r].op \in MembershipOp /\ Named(tx[r])
    BY <1>2 DEF CommitMembership, MembershipOp, Stored
  <2>2. event \in Event /\ event[1] \in MembershipOp
    BY <2>1 DEF Event, Named, MembershipOp
  <2>3. End(r, event) /\ UNCHANGED <<key_org, revoked>>
    BY <1>2 DEF CommitMembership
  <2> HIDE DEF event
  <2>4. \A k \in KeyId : /\ <<"api_key.create", k>> \in Event /\ <<"api_key.create", k>> # event
                         /\ <<"api_key.revoke", k>> \in Event /\ <<"api_key.revoke", k>> # event
    BY <2>2 DEF Event, MembershipOp
  <2> QED
    BY <2>2, <2>3, <2>4, AuditKeeps DEF KeysAuditedOnce
<1>3. ASSUME NEW r \in Request, CommitRevoke(r) PROVE KeysAuditedOnce'
  <2>1. tx[r].key \in KeyId /\ tx[r].key \notin revoked
    BY <1>3 DEF CommitRevoke, Stored, Named, Found
  <2>2. \A k \in KeyId : <<"api_key.create", k>> \in Event /\ <<"api_key.revoke", k>> \in Event
    BY DEF Event
  <2>3. End(r, <<"api_key.revoke", tx[r].key>>) /\ revoked' = revoked \cup {tx[r].key}
        /\ UNCHANGED key_org
    BY <1>3 DEF CommitRevoke
  <2>4. \A e \in Event : audit'[e] = IF e = <<"api_key.revoke", tx[r].key>> THEN audit[e] + 1
                                     ELSE audit[e]
    BY <2>1, <2>2, <2>3, AuditKeeps
  <2>5. \A k \in KeyId : audit'[<<"api_key.create", k>>] = audit[<<"api_key.create", k>>]
    BY <2>2, <2>4
  <2>6. \A k \in KeyId : audit'[<<"api_key.revoke", k>>] =
          IF k = tx[r].key THEN audit[<<"api_key.revoke", k>>] + 1
          ELSE audit[<<"api_key.revoke", k>>]
    BY <2>2, <2>4
  <2> SUFFICES ASSUME NEW k \in KeyId
               PROVE  /\ audit'[<<"api_key.create", k>>] = IF key_org'[k] = Nil THEN 0 ELSE 1
                      /\ audit'[<<"api_key.revoke", k>>] = IF k \in revoked' THEN 1 ELSE 0
    BY DEF KeysAuditedOnce
  <2>7. /\ audit[<<"api_key.create", k>>] = IF key_org[k] = Nil THEN 0 ELSE 1
        /\ audit[<<"api_key.revoke", k>>] = IF k \in revoked THEN 1 ELSE 0
    BY DEF KeysAuditedOnce
  <2> QED
    BY <2>1, <2>3, <2>5, <2>6, <2>7
<1>4. ASSUME NEW r \in Request, NEW n \in KeyId, NEW granting \in ScopeSet, NEW ack \in BOOLEAN,
             CreateAPIKey(r, n, granting, ack)
      PROVE  KeysAuditedOnce'
  <2>1. tx[r].org \in OrgId /\ tx[r].org # Nil /\ key_org[n] = Nil
    BY <1>4, TenancyAssumption DEF CreateAPIKey, Stored, Named, KeyOp
  <2>2. \A k \in KeyId : <<"api_key.create", k>> \in Event /\ <<"api_key.revoke", k>> \in Event
    BY DEF Event
  <2>3. /\ End(r, <<"api_key.create", n>>) /\ UNCHANGED revoked
        /\ \A k \in KeyId : key_org'[k] = IF k = n THEN tx[r].org ELSE key_org[k]
    BY <1>4 DEF CreateAPIKey, Stored, RowsOK
  <2>4. \A e \in Event : audit'[e] = IF e = <<"api_key.create", n>> THEN audit[e] + 1
                                     ELSE audit[e]
    BY <2>2, <2>3, AuditKeeps
  <2>5. \A k \in KeyId : audit'[<<"api_key.revoke", k>>] = audit[<<"api_key.revoke", k>>]
    BY <2>2, <2>4
  <2>6. \A k \in KeyId : audit'[<<"api_key.create", k>>] =
          IF k = n THEN audit[<<"api_key.create", k>>] + 1 ELSE audit[<<"api_key.create", k>>]
    BY <2>2, <2>4
  <2> SUFFICES ASSUME NEW k \in KeyId
               PROVE  /\ audit'[<<"api_key.create", k>>] = IF key_org'[k] = Nil THEN 0 ELSE 1
                      /\ audit'[<<"api_key.revoke", k>>] = IF k \in revoked' THEN 1 ELSE 0
    BY DEF KeysAuditedOnce
  <2>7. /\ audit[<<"api_key.create", k>>] = IF key_org[k] = Nil THEN 0 ELSE 1
        /\ audit[<<"api_key.revoke", k>>] = IF k \in revoked THEN 1 ELSE 0
    BY DEF KeysAuditedOnce
  <2> QED
    BY <2>1, <2>3, <2>5, <2>6, <2>7
<1> QED
  BY <1>1, <1>2, <1>3, <1>4, RowChanges

\* However many requests revoke a key at once, through whichever organization, its
\* life is told once (CreateAPIKey, RevokeAPIKey).
THEOREM KeysAudited == Spec => []KeysAuditedOnce
<1>1. Init => KeysAuditedOnce
  BY DEF Init, KeysAuditedOnce, Event
<1>2. IInv /\ KeysAuditedOnce /\ [Next]_vars => KeysAuditedOnce'
  BY KeysLogged DEF KeysAuditedOnce, vars, rows
<1> QED
  BY <1>1, <1>2, AlwaysIInv, PTL DEF Spec

\* The rows about a member: how many tell that it was given each role.
Creations(o, u) == [new \in Role |-> audit[<<"membership.create", o, u, new>>]]
Updates(o, u) == [new \in Role |-> audit[<<"membership.update_role", o, u, new>>]]

\* MembersAuditedOnce without the cardinality.
MemberLogged(o, u) ==
    /\ role[o][u] = Nil \/ u = Founder[o] => \A new \in Role : Creations(o, u)[new] = 0
    /\ role[o][u] # Nil /\ u # Founder[o] => \E one \in Role :
         /\ Creations(o, u)[one] = 1
         /\ \A new \in Role \ {one} : Creations(o, u)[new] = 0
    /\ role[o][u] # Nil =>
         \/ u = Founder[o] /\ role[o][u] = "owner"
         \/ Creations(o, u)[role[o][u]] = 1
         \/ Updates(o, u)[role[o][u]] > 0
MembersLogged == \A o \in OrgId, u \in UserId : MemberLogged(o, u)

LEMMA MemberEvents ==
    ASSUME NEW o \in OrgId, NEW u \in UserId, NEW new \in Role
    PROVE  /\ <<"membership.create", o, u, new>> \in Event
           /\ <<"membership.update_role", o, u, new>> \in Event
BY DEF Event

\* A row about something else changes neither.
LEMMA OtherEvent ==
    ASSUME Stored, NEW r, NEW event \in Event, End(r, event), NEW o \in OrgId, NEW u \in UserId
    PROVE  /\ (\A new \in Role : event # <<"membership.create", o, u, new>>)
                => Creations(o, u)' = Creations(o, u)
           /\ (\A new \in Role : event # <<"membership.update_role", o, u, new>>)
                => Updates(o, u)' = Updates(o, u)
BY AuditKeeps, MemberEvents DEF Creations, Updates

LEMMA SameLog ==
    ASSUME NEW o, NEW u, MemberLogged(o, u), role'[o][u] = role[o][u],
           Creations(o, u)' = Creations(o, u), Updates(o, u)' = Updates(o, u)
    PROVE  MemberLogged(o, u)'
BY DEF MemberLogged

LEMMA CommitMembershipLogged ==
    ASSUME IInv, MembersLogged, NEW r \in Request, CommitMembership(r),
           NEW o \in OrgId, NEW u \in UserId
    PROVE  MemberLogged(o, u)'
<1> DEFINE p == tx[r].org
           v == tx[r].user
           given == tx[r].role
           event == <<tx[r].op, p, v, given>>
<1>1. /\ tx[r].op \in MembershipOp /\ p \in OrgId /\ v \in UserId /\ given \in Role
      /\ given # Nil /\ Found(tx[r]) /\ tx[r].stage = "written"
  BY TenancyAssumption DEF CommitMembership, MembershipOp, IInv, Stored, Named
<1>2. event \in Event
  BY <1>1, MemberEvents DEF MembershipOp
<1>3. End(r, event) /\ role' = [role EXCEPT ![p][v] = given]
  BY DEF CommitMembership
<1>4. /\ tx[r].op = "membership.create" => role[p][v] = Nil
      /\ tx[r].op = "membership.update_role" => role[p][v] # Nil
  BY <1>1 DEF Found
<1>5. /\ event[1] = tx[r].op /\ event[2] = p /\ event[3] = v /\ event[4] = given
      /\ \A new : event = <<"membership.create", p, v, new>> => new = given
      /\ tx[r].op = "membership.create" => event = <<"membership.create", p, v, given>>
      /\ tx[r].op = "membership.update_role" => event = <<"membership.update_role", p, v, given>>
  OBVIOUS
<1> HIDE DEF p, v, given, event
<1>6. role'[o][u] = IF o = p /\ u = v THEN given ELSE role[o][u]
  BY <1>1, <1>3 DEF IInv, Stored, RowsOK
<1>7. audit'[event] = audit[event] + 1 /\ audit[event] \in Nat
      /\ \A e \in Event : e # event => audit'[e] = audit[e]
  BY <1>2, <1>3, AuditKeeps DEF IInv, Stored, RowsOK
<1>8. MemberLogged(o, u) /\ role[o][Founder[o]] # Nil
  BY DEF MembersLogged, IInv, Stored, RowsOK
<1>9. CASE ~(o = p /\ u = v)
  <2>1. \A new \in Role : /\ event # <<"membership.create", o, u, new>>
                          /\ event # <<"membership.update_role", o, u, new>>
    BY <1>5, <1>9
  <2> QED
    BY <1>2, <1>3, <1>6, <1>8, <1>9, <2>1, OtherEvent, SameLog DEF IInv
<1>10. CASE o = p /\ u = v /\ tx[r].op = "membership.create"
  <2>1. role[o][u] = Nil /\ role'[o][u] = given /\ u # Founder[o]
    BY <1>4, <1>6, <1>8, <1>10
  <2>2. \A new \in Role : Creations(o, u)[new] = 0
    BY <1>8, <2>1 DEF MemberLogged
  <2>3. Creations(o, u)'[given] = 1
    <3>1. audit[event] = 0
      BY <2>2, <1>1, <1>5, <1>10 DEF Creations
    <3>2. audit'[event] = 1
      BY <3>1, <1>7
    <3> QED BY <3>2, <1>1, <1>5, <1>10 DEF Creations
  <2>4. ASSUME NEW new \in Role \ {given} PROVE Creations(o, u)'[new] = 0
    <3>1. <<"membership.create", o, u, new>> # event
      BY <1>5, <1>10, <2>4
    <3>2. audit[<<"membership.create", o, u, new>>] = 0
      BY <2>2 DEF Creations
    <3> QED BY <3>1, <3>2, <1>7, MemberEvents DEF Creations
  <2> QED BY <2>1, <2>3, <2>4, <1>1 DEF MemberLogged
<1>11. CASE o = p /\ u = v /\ tx[r].op = "membership.update_role"
  <2>1. \A new \in Role : event # <<"membership.create", o, u, new>>
    BY <1>5, <1>11
  <2>2. Creations(o, u)' = Creations(o, u)
    BY <1>2, <1>3, <2>1, OtherEvent DEF IInv
  <2>3. audit'[event] > 0
    BY <1>7
  <2>4. Updates(o, u)'[given] > 0
    BY <2>3, <1>1, <1>5, <1>11 DEF Updates
  <2>5. role[o][u] # Nil /\ role'[o][u] = given
    BY <1>4, <1>6, <1>11
  <2> QED BY <2>2, <2>4, <2>5, <1>1, <1>8 DEF MemberLogged
<1> QED
  BY <1>1, <1>9, <1>10, <1>11 DEF MembershipOp

LEMMA MembersLoggedNext == ASSUME IInv, MembersLogged, Next PROVE MembersLogged'
<1> SUFFICES ASSUME NEW o \in OrgId, NEW u \in UserId PROVE MemberLogged(o, u)'
  BY DEF MembersLogged
<1>1. CASE UNCHANGED rows
  BY ZenonT(30), <1>1 DEF rows, MembersLogged, MemberLogged, Creations, Updates
<1>2. ASSUME NEW r \in Request, NEW name \in {"api_key.create", "api_key.revoke"}, NEW k \in KeyId,
             End(r, <<name, k>>), UNCHANGED role
      PROVE  MemberLogged(o, u)'
  <2>1. <<name, k>> \in Event
    BY DEF Event
  <2>2. \A new \in Role : /\ <<name, k>> # <<"membership.create", o, u, new>>
                          /\ <<name, k>> # <<"membership.update_role", o, u, new>>
    OBVIOUS
  <2> QED
    BY <1>2, <2>1, <2>2, OtherEvent, SameLog DEF MembersLogged, IInv
<1>3. ASSUME NEW r \in Request, CommitRevoke(r) PROVE MemberLogged(o, u)'
  <2>1. tx[r].key \in KeyId
    BY <1>3 DEF CommitRevoke, IInv, Stored, Named
  <2> QED BY <1>2, <1>3, <2>1 DEF CommitRevoke
<1>4. ASSUME NEW r \in Request, NEW k \in KeyId, NEW granting \in ScopeSet, NEW ack \in BOOLEAN,
             CreateAPIKey(r, k, granting, ack)
      PROVE  MemberLogged(o, u)'
  BY <1>2, <1>4 DEF CreateAPIKey
<1> QED
  BY <1>1, <1>3, <1>4, CommitMembershipLogged, RowChanges DEF Next

LEMMA LoggedIsAudited == IInv /\ MembersLogged => MembersAuditedOnce
<1> SUFFICES ASSUME IInv, MembersLogged, NEW o \in OrgId, NEW u \in UserId
             PROVE  /\ \A new \in Role : audit[<<"membership.create", o, u, new>>] <= 1
                    /\ Cardinality(Added(o, u)) =
                         IF role[o][u] = Nil \/ u = Founder[o] THEN 0 ELSE 1
                    /\ role[o][u] # Nil =>
                         \/ u = Founder[o] /\ role[o][u] = "owner"
                         \/ role[o][u] \in Added(o, u)
                         \/ audit[<<"membership.update_role", o, u, role[o][u]>>] > 0
  BY DEF MembersAuditedOnce
<1>1. MemberLogged(o, u)
  BY DEF MembersLogged
<1>2. Added(o, u) = {new \in Role : Creations(o, u)[new] = 1}
  BY DEF Added, Creations
<1>3. \A new \in Role : Creations(o, u)[new] = audit[<<"membership.create", o, u, new>>]
  BY DEF Creations
<1>4. ASSUME role[o][u] = Nil \/ u = Founder[o] PROVE Cardinality(Added(o, u)) = 0
  <2>1. Added(o, u) = {}
    BY <1>1, <1>2, <1>4 DEF MemberLogged
  <2> QED BY <2>1, FS_EmptySet, Zenon
<1>5. ASSUME role[o][u] # Nil, u # Founder[o] PROVE Cardinality(Added(o, u)) = 1
  <2>1. PICK one \in Role : Creations(o, u)[one] = 1
                            /\ \A new \in Role \ {one} : Creations(o, u)[new] = 0
    BY <1>1, <1>5 DEF MemberLogged
  <2>2. Added(o, u) = {one}
    BY <1>2, <2>1
  <2> QED BY <2>2, FS_Singleton, Zenon
<1>6. \A new \in Role : Creations(o, u)[new] = 0 \/ Creations(o, u)[new] = 1
  BY <1>1 DEF MemberLogged
<1>7. \A new \in Role : audit[<<"membership.create", o, u, new>>] <= 1
  BY <1>3, <1>6
<1>8. role[o][u] # Nil => role[o][u] \in Role
  BY DEF IInv, Stored, RowsOK
<1>9. ASSUME role[o][u] # Nil
      PROVE  \/ u = Founder[o] /\ role[o][u] = "owner"
             \/ role[o][u] \in Added(o, u)
             \/ audit[<<"membership.update_role", o, u, role[o][u]>>] > 0
  <2>1. Updates(o, u)[role[o][u]] = audit[<<"membership.update_role", o, u, role[o][u]>>]
    BY <1>8, <1>9 DEF Updates
  <2> QED BY <1>1, <1>2, <1>8, <1>9, <2>1 DEF MemberLogged
<1> QED
  BY <1>4, <1>5, <1>7, <1>9

\* A user is added to an organization by one audited request at most, however many
\* add it at once, and the role a member has stands in the log (AddMembership,
\* UpdateMembership).
THEOREM MembersAudited == Spec => []MembersAuditedOnce
<1>1. ASSUME Init PROVE MembersLogged
  <2> SUFFICES ASSUME NEW o \in OrgId, NEW u \in UserId PROVE MemberLogged(o, u)
    BY DEF MembersLogged
  <2>1. role[o][u] = IF u = Founder[o] THEN "owner" ELSE Nil
    BY <1>1 DEF Init
  <2>2. \A new \in Role : Creations(o, u)[new] = 0
    BY <1>1, MemberEvents DEF Init, Creations
  <2> QED BY <2>1, <2>2 DEF MemberLogged
<1>2. ASSUME UNCHANGED vars, MembersLogged PROVE MembersLogged'
  <2>1. audit' = audit /\ role' = role
    BY <1>2 DEF vars, rows
  <2> SUFFICES ASSUME NEW o \in OrgId, NEW u \in UserId PROVE MemberLogged(o, u)'
    BY DEF MembersLogged
  <2>2. Creations(o, u)' = Creations(o, u) /\ Updates(o, u)' = Updates(o, u)
    BY <2>1 DEF Creations, Updates
  <2>3. MemberLogged(o, u)
    BY <1>2 DEF MembersLogged
  <2> QED BY <2>1, <2>2, <2>3, SameLog
<1>3. IInv /\ MembersLogged /\ [Next]_vars => MembersLogged'
  BY <1>2, MembersLoggedNext
<1> QED
  BY <1>1, <1>3, LoggedIsAudited, AlwaysIInv, PTL DEF Spec
-----------------------------------------------------------------------------
(* The abstract organizations                                              *)

LEMMA CommitMembershipIs ==
    ASSUME IInv, NEW r \in Request, CommitMembership(r) PROVE Orgs!Next
<1> DEFINE o == tx[r].org  u == tx[r].user  new == tx[r].role
<1>1. tx[r].op \in MembershipOp /\ tx[r].stage = "written"
  BY DEF CommitMembership, MembershipOp
<1>2. o \in OrgId /\ u \in UserId /\ new \in Role
  BY <1>1 DEF IInv, Stored, Named
<1>3. Orgs!Give(o, u, new)
  BY DEF CommitMembership, Orgs!Give
<1>4. CASE tx[r].op = "membership.create"
  <2>1. role[o][u] = Nil
    BY <1>1, <1>4 DEF IInv, Stored, Found
  <2>2. audit' = [audit EXCEPT ![<<"membership.create", o, u, new>>] = @ + 1]
    BY <1>4 DEF CommitMembership, End
  <2>3. Orgs!Add(o, u, new)
    BY <1>3, <2>1, <2>2 DEF Orgs!Add, Orgs!Record
  <2> HIDE DEF o, u, new
  <2> QED
    BY <1>2, <2>3 DEF Orgs!Next
<1>5. CASE tx[r].op = "membership.update_role"
  <2>1. role[o][u] # Nil
    BY <1>1, <1>5 DEF IInv, Stored, Found
  <2>2. audit' = [audit EXCEPT ![<<"membership.update_role", o, u, new>>] = @ + 1]
    BY <1>5 DEF CommitMembership, End
  <2>3. Orgs!SetRole(o, u, new)
    BY <1>3, <2>1, <2>2 DEF Orgs!SetRole, Orgs!Record
  <2> HIDE DEF o, u, new
  <2> QED
    BY <1>2, <2>3 DEF Orgs!Next
<1> QED
  BY <1>1, <1>4, <1>5 DEF MembershipOp

LEMMA CommitRevokeIs ==
    ASSUME IInv, NEW r \in Request, CommitRevoke(r) PROVE Orgs!Next
<1> DEFINE o == tx[r].org  k == tx[r].key
<1>1. tx[r].op = "api_key.revoke" /\ tx[r].stage = "written"
  BY DEF CommitRevoke
<1>2. o \in OrgId /\ k \in KeyId
  BY <1>1 DEF IInv, Stored, Named, KeyOp
<1>3. k \notin revoked
  BY <1>1 DEF IInv, Stored, Found
<1>4. Orgs!Revoke(o, k)
  BY <1>3 DEF CommitRevoke, End, Orgs!Revoke, Orgs!Record
<1> HIDE DEF o, k
<1> QED
  BY <1>2, <1>4 DEF Orgs!Next

LEMMA CreateAPIKeyIs ==
    ASSUME IInv, NEW r \in Request, NEW k \in KeyId, NEW granting \in ScopeSet,
           NEW ack \in BOOLEAN, CreateAPIKey(r, k, granting, ack)
    PROVE  Orgs!Next
<1> DEFINE o == tx[r].org
<1>1. o \in OrgId
  BY DEF CreateAPIKey, IInv, Stored, Named, KeyOp
<1>2. Orgs!Create(o, k, granting)
  BY DEF CreateAPIKey, End, Orgs!Create, Orgs!Record
<1> HIDE DEF o
<1> QED
  BY <1>1, <1>2 DEF Orgs!Next

\* Concurrent requests do to the organizations only what could be done at once: no request
\* adds a member twice, changes the role of nobody, or revokes a key twice or a foreign
\* one, and each change comes with its row of the log (service.go, its transactions).
THEOREM Refinement == Spec => ImplementsOrganizations
<1>1. Init => Orgs!Init
  BY DEF Init, Orgs!Init
<1>2. ASSUME IInv, Step PROVE Orgs!Next \/ UNCHANGED Orgs!vars
  <2>1. UNCHANGED rows => UNCHANGED Orgs!vars
    BY DEF rows, Orgs!vars
  <2> QED
    BY <1>2, <2>1, RowChanges, CommitMembershipIs, CommitRevokeIs, CreateAPIKeyIs
<1>3. UNCHANGED vars => UNCHANGED Orgs!vars
  BY DEF vars, rows, Orgs!vars
<1>4. IInv /\ [Next]_vars => [Orgs!Next]_(Orgs!vars)
  BY <1>2, <1>3 DEF Next
<1> QED
  BY <1>1, <1>4, AlwaysIInv, PTL DEF Spec, ImplementsOrganizations, Orgs!Spec
==============================================================================
