--------------------------- MODULE AuditLogProofs ---------------------------
(***************************************************************************)
(* Proofs about AuditLog, for any members, roles, requests, row            *)
(* identifiers and limits.                                                 *)
(*                                                                         *)
(* The inductive invariant says that a row, committed or pending, is       *)
(* stamped no earlier than the rows that were there when its transaction   *)
(* began (Stamps), and that a pending row has an identifier of its own     *)
(* (FreshIds).                                                             *)
(***************************************************************************)
EXTENDS AuditLog, FiniteSetTheorems, TLAPS

\* What a row that is stamped at, and began after those rows, may not contradict.
Stamped(at, after) ==
    /\ at <= now
    /\ after \subseteq Rows
    /\ \A i \in after : log[i].at <= at

Stamps ==
    /\ \A j \in Rows : Stamped(log[j].at, log[j].after)
    /\ \A r \in Request : InTx(r) => Stamped(tx[r].at, tx[r].after)

FreshIds == \A r \in Request : Written(r) => tx[r].id \in Id /\ log[tx[r].id] = Nil

LogInv ==
    /\ TypeOK
    /\ Stamps
    /\ FreshIds
    /\ \A q, r \in Request : Written(q) /\ Written(r) /\ tx[q].id = tx[r].id => q = r
    /\ RolesExplained
    /\ LimitUsable
    /\ ListRespectsRealTime

-----------------------------------------------------------------------------
(* The list                                                                *)

LEMMA LimitInRange == ASSUME NEW v \in Limit PROVE ListLimit(v) \in 1..MaxList
<1>1. v \in Int /\ Half \in Nat /\ MaxList \in Nat /\ DefaultList \in 1..MaxList
  BY AuditAssumption
<1>2. Half > 0
  BY AuditAssumption
<1>3. Int32(v) \in Int
  BY <1>1, <1>2 DEF Int32
<1> QED BY <1>1, <1>3 DEF ListLimit

\* The rows above one that is above i are fewer than, or as many as, those above i.
LEMMA FewerAbove ==
    ASSUME TypeOK, NEW i \in Rows, NEW j \in Rows, Above(j, i)
    PROVE  /\ Cardinality({k \in Rows : Above(k, j)}) \in Nat
           /\ Cardinality({k \in Rows : Above(k, i)}) \in Nat
           /\ Cardinality({k \in Rows : Above(k, j)}) <= Cardinality({k \in Rows : Above(k, i)})
<1>1. \A k \in Rows : k \in Int /\ log[k].at \in Nat
  BY AuditAssumption DEF TypeOK, Rows, Row
<1>2. \A k \in Rows : Above(k, j) => Above(k, i)
  BY <1>1 DEF Above
<1>3. IsFiniteSet({k \in Rows : Above(k, i)})
  <2>1. {k \in Rows : Above(k, i)} \subseteq Id
    BY DEF Rows
  <2> QED BY <2>1, AuditAssumption, FS_Subset
<1>4. {k \in Rows : Above(k, j)} \subseteq {k \in Rows : Above(k, i)}
  BY <1>2
<1> QED BY <1>3, <1>4, FS_Subset, FS_CardinalityType

LEMMA ListStep ==
    ASSUME LogInv, NEW v \in Limit, ListAuditLogs(v)
    PROVE  LogInv'
<1>1. UNCHANGED <<role, log, tx, now>> /\ Rows' = Rows
  BY DEF ListAuditLogs, Rows
<1>2. reply' = [limit |-> ListLimit(v),
                rows |-> {i \in Rows : Cardinality({j \in Rows : Above(j, i)}) < ListLimit(v)}]
  BY DEF ListAuditLogs
<1>3. ListLimit(v) \in 1..MaxList /\ MaxList \in Nat
  BY LimitInRange, AuditAssumption
<1>4. TypeOK'
  BY <1>1, <1>2, <1>3 DEF LogInv, TypeOK
<1>5. Stamps' /\ FreshIds' /\ RolesExplained'
      /\ (\A q, r \in Request : Written(q) /\ Written(r) /\ tx[q].id = tx[r].id => q = r)'
  BY <1>1 DEF LogInv, Stamps, Stamped, FreshIds, RolesExplained, Written, InTx
<1>6. LimitUsable'
  BY <1>2, <1>3 DEF LimitUsable
<1>7. ListRespectsRealTime'
  <2> SUFFICES ASSUME NEW i \in reply'.rows, NEW j \in Rows, i \in log[j].after,
                      log[i].at # log[j].at
               PROVE  j \in reply'.rows /\ Above(j, i)
    BY <1>1 DEF ListRespectsRealTime, Above
  <2>1. i \in Rows /\ Cardinality({k \in Rows : Above(k, i)}) < ListLimit(v)
    BY <1>2
  <2>2. log[i].at \in Nat /\ log[j].at \in Nat /\ log[i].at <= log[j].at
    BY <2>1 DEF LogInv, TypeOK, Rows, Row, Stamps, Stamped
  <2>3. Above(j, i)
    BY <2>2 DEF Above
  <2>4. Cardinality({k \in Rows : Above(k, j)}) < ListLimit(v)
    <3>1. /\ Cardinality({k \in Rows : Above(k, j)}) \in Nat
          /\ Cardinality({k \in Rows : Above(k, i)}) \in Nat
          /\ Cardinality({k \in Rows : Above(k, j)}) <= Cardinality({k \in Rows : Above(k, i)})
      BY <2>1, <2>3, FewerAbove DEF LogInv
    <3>2. ListLimit(v) \in Nat
      BY <1>3
    <3> QED BY <2>1, <3>1, <3>2
  <2> QED BY <2>3, <2>4, <1>2
<1> QED BY <1>4, <1>5, <1>6, <1>7 DEF LogInv

-----------------------------------------------------------------------------
(* The changes                                                             *)

LEMMA InvInit == Init => LogInv
<1> SUFFICES ASSUME Init PROVE LogInv
  OBVIOUS
<1>1. Rows = {} /\ (\A r \in Request : ~InTx(r)) /\ reply = Nil
  BY DEF Init, Rows, InTx
<1>2. TypeOK
  BY DEF Init, TypeOK
<1>3. RolesExplained
  BY <1>1 DEF Init, RolesExplained
<1> QED
  BY <1>1, <1>2, <1>3
     DEF LogInv, Stamps, FreshIds, Written, LimitUsable, ListRespectsRealTime

\* A step that changes transactions only, and keeps or drops what each has written.
LEMMA TxStep ==
    ASSUME LogInv, UNCHANGED <<role, log>>, now' \in Nat, now' >= now, reply' = Nil,
           tx' \in [Request -> Tx \cup {Nil}],
           \A r \in Request : InTx(r)' => /\ tx'[r].at <= now'
                                         /\ tx'[r].after \subseteq Rows
                                         /\ \A i \in tx'[r].after : log[i].at <= tx'[r].at,
           \A r \in Request : Written(r)' =>
             tx'[r].id \in NewIds \/ (Written(r) /\ tx'[r].id = tx[r].id),
           \A q, r \in Request : Written(q)' /\ Written(r)' /\ tx'[q].id = tx'[r].id => q = r
    PROVE  LogInv'
<1>1. Rows' = Rows
  BY DEF Rows
<1>2. TypeOK'
  BY DEF LogInv, TypeOK
<1>3. Stamps'
  <2>1. ASSUME NEW j \in Rows PROVE log[j].at <= now'
    BY DEF LogInv, Stamps, Stamped, TypeOK, Rows, Row
  <2> QED BY <1>1, <2>1 DEF LogInv, Stamps, Stamped
<1>4. FreshIds'
  BY DEF LogInv, FreshIds, NewIds
<1>5. RolesExplained'
  BY <1>1 DEF LogInv, RolesExplained
<1>6. LimitUsable' /\ ListRespectsRealTime'
  BY DEF LimitUsable, ListRespectsRealTime
<1>7. (\A q, r \in Request : Written(q) /\ Written(r) /\ tx[q].id = tx[r].id => q = r)'
  OBVIOUS
<1> QED BY <1>2, <1>3, <1>4, <1>5, <1>6, <1>7 DEF LogInv

LEMMA BeginStep ==
    ASSUME LogInv, NEW r \in Request, NEW action \in Action, NEW m \in Member, NEW p \in Role,
           BeginChange(r, action, m, p)
    PROVE  LogInv'
<1> DEFINE new == [action |-> action, member |-> m, role |-> p, at |-> now, after |-> Rows, id |-> Nil]
<1>1. tx' = [tx EXCEPT ![r] = new] /\ UNCHANGED <<role, log, now>> /\ reply' = Nil
  BY DEF BeginChange
<1>2. TypeOK /\ now \in Nat /\ now >= now
  BY DEF LogInv, TypeOK
<1>3. new \in Tx
  <2>1. Rows \subseteq Id
    BY DEF Rows
  <2> QED BY <1>2, <2>1 DEF Tx
<1>4. \A q \in Request : tx'[q] = IF q = r THEN new ELSE tx[q]
  BY <1>1, <1>2 DEF TypeOK
<1>5. \A i \in Rows : log[i].at <= now
  BY DEF LogInv, Stamps, Stamped
<1>6. tx' \in [Request -> Tx \cup {Nil}]
  BY <1>1, <1>2, <1>3 DEF TypeOK
<1>7. ~Written(r)'
  BY <1>4 DEF Written
<1>8. \A q \in Request : Written(q)' => Written(q) /\ tx'[q].id = tx[q].id
  BY <1>4, <1>7 DEF Written, InTx
<1>9. ASSUME NEW q \in Request, InTx(q)'
      PROVE  /\ tx'[q].at <= now' /\ tx'[q].after \subseteq Rows
             /\ \A i \in tx'[q].after : log[i].at <= tx'[q].at
  <2>1. CASE q = r
    BY <2>1, <1>1, <1>2, <1>4, <1>5
  <2>2. CASE q # r
    BY <2>2, <1>9, <1>1, <1>4 DEF LogInv, Stamps, Stamped, InTx
  <2> QED BY <2>1, <2>2
<1> HIDE DEF new
<1>10. \A q, s \in Request : Written(q)' /\ Written(s)' /\ tx'[q].id = tx'[s].id => q = s
  BY <1>8 DEF LogInv
<1> QED BY <1>1, <1>2, <1>6, <1>8, <1>9, <1>10, TxStep

LEMMA ChangeStep ==
    ASSUME LogInv, NEW r \in Request, Change(r)
    PROVE  LogInv'
<1>1. PICK i \in NewIds : tx' = [tx EXCEPT ![r].id = i]
  BY DEF Change
<1>2. InTx(r) /\ ~Written(r) /\ UNCHANGED <<role, log, now>> /\ reply' = Nil
  BY DEF Change
<1>3. TypeOK /\ now \in Nat /\ now >= now /\ tx[r] \in Tx /\ i \in Id /\ Nil \notin Tx
  BY <1>2, NilAssumption DEF LogInv, TypeOK, InTx, NewIds
<1>4. \A q \in Request \ {r} : tx'[q] = tx[q]
  BY <1>1, <1>3 DEF TypeOK
<1>5. tx'[r] = [tx[r] EXCEPT !.id = i]
  BY <1>1, <1>3 DEF TypeOK
<1>6. tx'[r] \in Tx /\ tx'[r].id = i /\ tx'[r].at = tx[r].at /\ tx'[r].after = tx[r].after
  BY <1>5, <1>3 DEF Tx
<1>7. tx' \in [Request -> Tx \cup {Nil}]
  BY <1>1, <1>3, <1>4, <1>6 DEF TypeOK
<1>8. ASSUME NEW q \in Request, Written(q)'
      PROVE  tx'[q].id \in NewIds \/ (Written(q) /\ tx'[q].id = tx[q].id)
  <2>1. CASE q = r
    BY <2>1, <1>6
  <2>2. CASE q # r
    BY <2>2, <1>4, <1>8 DEF Written, InTx
  <2> QED BY <2>1, <2>2
<1>9. ASSUME NEW q \in Request, InTx(q)'
      PROVE  /\ tx'[q].at <= now' /\ tx'[q].after \subseteq Rows
             /\ \A k \in tx'[q].after : log[k].at <= tx'[q].at
  BY <1>2, <1>4, <1>6, <1>9 DEF LogInv, Stamps, Stamped, InTx
<1>10. ASSUME NEW q \in Request, NEW s \in Request, Written(q)', Written(s)',
              tx'[q].id = tx'[s].id
       PROVE  q = s
  <2>1. ASSUME NEW u \in Request \ {r}, Written(u)' PROVE tx'[u].id # i /\ Written(u) /\ tx'[u].id = tx[u].id
    BY <2>1, <1>1, <1>4 DEF Written, InTx, NewIds
  <2> QED BY <2>1, <1>10, <1>6 DEF LogInv
<1> QED BY <1>2, <1>3, <1>7, <1>8, <1>9, <1>10, TxStep

\* Some transactions are gone.
LEMMA EndStep ==
    ASSUME LogInv, UNCHANGED <<role, log, now>>, reply' = Nil,
           tx' \in [Request -> Tx \cup {Nil}], \A r \in Request : tx'[r] \in {tx[r], Nil}
    PROVE  LogInv'
<1>1. now \in Nat /\ now >= now
  BY DEF LogInv, TypeOK
<1>2. \A r \in Request : InTx(r)' => InTx(r) /\ tx'[r] = tx[r]
  BY DEF InTx
<1>3. \A r \in Request : Written(r)' => Written(r) /\ tx'[r] = tx[r]
  BY <1>2 DEF Written
<1> QED BY <1>1, <1>2, <1>3, TxStep DEF LogInv, Stamps, Stamped

LEMMA TickStep == ASSUME LogInv, Tick PROVE LogInv'
<1>1. UNCHANGED <<role, log, tx>> /\ now' = now + 1 /\ reply' = Nil /\ now \in Nat
  BY DEF Tick, LogInv, TypeOK
<1>2. \A r \in Request : InTx(r)' => InTx(r) /\ tx'[r] = tx[r] /\ tx[r].at \in Nat
  BY <1>1 DEF LogInv, TypeOK, InTx, Tx
<1>3. \A r \in Request : Written(r)' => Written(r) /\ tx'[r] = tx[r]
  BY <1>1 DEF Written, InTx
<1>4. tx' \in [Request -> Tx \cup {Nil}]
  BY <1>1 DEF LogInv, TypeOK
<1>5. now' \in Nat /\ now' >= now
  BY <1>1
<1>6. \A r \in Request : InTx(r)' => /\ tx'[r].at <= now' /\ tx'[r].after \subseteq Rows
                                    /\ \A i \in tx'[r].after : log[i].at <= tx'[r].at
  BY <1>1, <1>2 DEF LogInv, Stamps, Stamped
<1> QED BY <1>1, <1>3, <1>4, <1>5, <1>6, TxStep DEF LogInv

LEMMA CommitStep ==
    ASSUME LogInv, NEW r \in Request, Commit(r)
    PROVE  LogInv'
<1> DEFINE i == tx[r].id
           m == tx[r].member
           row == [member |-> m, role |-> tx[r].role, at |-> tx[r].at, after |-> tx[r].after]
<1>1. /\ Written(r) /\ InTx(r)
      /\ role' = [role EXCEPT ![m] = tx[r].role]
      /\ log' = [log EXCEPT ![i] = row]
      /\ tx' = [tx EXCEPT ![r] = Nil]
      /\ now' = now /\ reply' = Nil
  BY DEF Commit, Written
<1>2. TypeOK /\ tx[r] \in Tx /\ i \in Id /\ log[i] = Nil
  BY <1>1 DEF LogInv, TypeOK, InTx, FreshIds
<1>3. row \in Row /\ row # Nil
  BY <1>2, NilAssumption DEF Tx, Row
<1>4. Rows' = Rows \cup {i} /\ i \notin Rows
  BY <1>1, <1>2, <1>3 DEF Rows, TypeOK
<1>5. log'[i] = row /\ \A k \in Rows : log'[k] = log[k]
  BY <1>1, <1>2, <1>4 DEF TypeOK, Rows
<1>6. \A q \in Request : tx'[q] = IF q = r THEN Nil ELSE tx[q]
  BY <1>1, <1>2 DEF TypeOK
<1>7. TypeOK'
  <2>1. role' \in [Member -> Role \cup {NoRole}]
    BY <1>1, <1>2 DEF TypeOK, Tx
  <2>2. log' \in [Id -> Row \cup {Nil}]
    BY <1>1, <1>2, <1>3 DEF TypeOK
  <2>3. tx' \in [Request -> Tx \cup {Nil}]
    BY <1>1, <1>2 DEF TypeOK
  <2> QED BY <1>1, <1>2, <2>1, <2>2, <2>3 DEF TypeOK
<1>8. row.at = tx[r].at /\ row.after = tx[r].after /\ row.member = m /\ row.role = tx[r].role
  OBVIOUS
<1>9. Stamped(tx[r].at, tx[r].after)
  BY <1>1 DEF LogInv, Stamps
<1> HIDE DEF row, i, m
<1>10. Stamps'
  <2>1. ASSUME NEW j \in Rows' PROVE Stamped(log[j].at, log[j].after)'
    <3>1. CASE j = i
      BY <3>1, <1>1, <1>4, <1>5, <1>8, <1>9 DEF Stamped
    <3>2. CASE j # i
      BY <3>2, <1>1, <1>4, <1>5 DEF LogInv, Stamps, Stamped
    <3> QED BY <3>1, <3>2
  <2>2. ASSUME NEW q \in Request, InTx(q)' PROVE Stamped(tx[q].at, tx[q].after)'
    BY <2>2, <1>1, <1>4, <1>5, <1>6 DEF LogInv, Stamps, Stamped, InTx
  <2> QED BY <2>1, <2>2 DEF Stamps
<1>11. ASSUME NEW q \in Request, Written(q)' PROVE Written(q) /\ q # r /\ tx'[q] = tx[q]
  BY <1>11, <1>6 DEF Written, InTx
<1>12. FreshIds'
  BY <1>1, <1>2, <1>4, <1>5, <1>11 DEF LogInv, FreshIds, TypeOK, i
<1>13. (\A p, q \in Request : Written(p) /\ Written(q) /\ tx[p].id = tx[q].id => p = q)'
  BY <1>11 DEF LogInv
<1>14. RolesExplained'
  <2> SUFFICES ASSUME NEW n \in Member
               PROVE  IF role'[n] = NoRole
                      THEN {k \in Rows' : log'[k].member = n} = {}
                      ELSE \E k \in {k \in Rows' : log'[k].member = n} :
                             /\ log'[k].role = role'[n]
                             /\ \A j \in {j \in Rows' : log'[j].member = n} : k \notin log'[j].after
    BY DEF RolesExplained
  <2>1. \A j \in Rows' : i \notin log'[j].after
    BY <1>4, <1>5, <1>8, <1>9 DEF LogInv, Stamps, Stamped
  <2>2. CASE n = m
    <3>1. role'[n] = tx[r].role /\ role'[n] # NoRole
      BY <2>2, <1>1, <1>2, AuditAssumption DEF TypeOK, Tx, m
    <3>2. i \in Rows' /\ log'[i].member = n /\ log'[i].role = role'[n]
      BY <2>2, <3>1, <1>4, <1>5, <1>8
    <3> QED BY <3>1, <3>2, <2>1
  <2>3. CASE n # m
    <3>1. role'[n] = role[n]
      BY <2>3, <1>1, <1>2 DEF TypeOK
    <3>2. {k \in Rows' : log'[k].member = n} = {k \in Rows : log[k].member = n}
      BY <2>3, <1>4, <1>5, <1>8
    <3>3. \A k \in {k \in Rows : log[k].member = n} : log'[k] = log[k]
      BY <1>5
    <3> QED BY <3>1, <3>2, <3>3 DEF LogInv, RolesExplained
  <2> QED BY <2>2, <2>3
<1>15. LimitUsable' /\ ListRespectsRealTime'
  BY <1>1 DEF LimitUsable, ListRespectsRealTime
<1> QED BY <1>7, <1>10, <1>12, <1>13, <1>14, <1>15 DEF LogInv

LEMMA InvStep == LogInv /\ [Next]_vars => LogInv'
<1> SUFFICES ASSUME LogInv, [Next]_vars PROVE LogInv'
  OBVIOUS
<1>0. tx \in [Request -> Tx \cup {Nil}]
  BY DEF LogInv, TypeOK
<1>1. ASSUME NEW r \in Request, Refused(r) \/ Abort(r) PROVE LogInv'
  BY <1>0, <1>1, EndStep DEF Refused, Abort
<1>2. CASE Crash
  BY <1>0, <1>2, EndStep DEF Crash
<1>3. CASE UNCHANGED vars
  <2>1. UNCHANGED <<role, log, tx, now, reply>> /\ Rows' = Rows
    BY <1>3 DEF vars, Rows
  <2>2. TypeOK' /\ LimitUsable'
    BY <2>1 DEF LogInv, TypeOK, LimitUsable
  <2>3. ListRespectsRealTime'
    BY <2>1 DEF LogInv, ListRespectsRealTime, Above
  <2>4. Stamps' /\ FreshIds' /\ RolesExplained'
        /\ (\A q, r \in Request : Written(q) /\ Written(r) /\ tx[q].id = tx[r].id => q = r)'
    BY <2>1 DEF LogInv, Stamps, Stamped, FreshIds, RolesExplained, Written, InTx
  <2> QED BY <2>2, <2>3, <2>4 DEF LogInv
<1> QED
  BY <1>1, <1>2, <1>3, BeginStep, ChangeStep, CommitStep, TickStep, ListStep DEF Next

-----------------------------------------------------------------------------
(* The theorems                                                            *)

\* The inductive invariant of the changes and the lists (service.go, audit_logs.sql.go).
THEOREM InvariantHolds == Spec => []LogInv
<1>1. Init => LogInv
  BY InvInit
<1>2. LogInv /\ [Next]_vars => LogInv'
  BY InvStep
<1> QED BY <1>1, <1>2, PTL DEF Spec

\* Every reachable state has the declared types.
THEOREM TypeCorrect == Spec => []TypeOK
<1>1. LogInv => TypeOK
  BY DEF LogInv
<1> QED BY <1>1, InvariantHolds, PTL

\* A list never shows a change above, or without, one that began after it was over.
THEOREM ListsAreInRealTime == Spec => []ListRespectsRealTime
<1>1. LogInv => ListRespectsRealTime
  BY DEF LogInv
<1> QED BY <1>1, InvariantHolds, PTL

\* Every role is the one of a logged change that no later change of the member follows.
THEOREM RolesAreExplained == Spec => []RolesExplained
<1>1. LogInv => RolesExplained
  BY DEF LogInv
<1> QED BY <1>1, InvariantHolds, PTL

\* PostgreSQL is never asked for a LIMIT it refuses, for any width of the conversion.
THEOREM LimitsAreUsable == Spec => []LimitUsable
<1>1. LogInv => LimitUsable
  BY DEF LogInv
<1> QED BY <1>1, InvariantHolds, PTL
=============================================================================
