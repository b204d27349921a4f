---------------------------- MODULE ServerProofs ----------------------------
(***************************************************************************)
(* Proofs about Server, for any number of requests and connections and any *)
(* table of handlers that is well formed.                                  *)
(*                                                                         *)
(* The inductive invariant says where a request is in its handler when it  *)
(* holds a connection or a row (Holding), what it has done by then         *)
(* (Effects), and what the process has seen to by the time it closes the   *)
(* pool (Life).                                                            *)
(*                                                                         *)
(* The last part shows that every handler of this code is well formed.     *)
(***************************************************************************)
EXTENDS Server, Handlers, TLAPS

AllWellFormed == \A rt \in Route : WellFormed(Program[rt])

Inside(r) == Running(r) /\ InTx(Steps(r), pc[r])
HasLocked(r, row) ==
    \E j \in 1..(pc[r] - 1) : Steps(r)[j].op = "lock" /\ Steps(r)[j].row = row

HoldingOf(r) ==
    /\ \A c \in Conn : /\ conn[c] = <<r, "tx">> => Inside(r)
                       /\ conn[c] = <<r, "query">> => At(r, "query") \/ At(r, "store")
    /\ \A row \in Row : locked[row] = r => Inside(r) /\ HasLocked(r, row)
Holding == \A r \in Request : HoldingOf(r)

EffectsOf(r) ==
    /\ r \in effect => route[r] # Nil
    /\ Running(r) => (r \in effect <=> Done(Steps(r), pc[r]))
    /\ route[r] = Nil => answer[r] = "none" /\ pc[r] = 1
Effects == \A r \in Request : EffectsOf(r)

Life ==
    /\ PoolOpen => \A r \in Request : answer[r] \notin {"cut", "closed"}
    /\ status = 0 => \A r \in Request :
         route[r] # Nil => answer[r] \in {"ok", "refused", "failed"}
    /\ phase = "exited" => \A r \in Request : ~Running(r)

ServerInv == TypeOK /\ Holding /\ Effects /\ Life

-----------------------------------------------------------------------------
(* Positions in a handler.                                                 *)

LEMMA StepsType ==
    ASSUME TypeOK, NEW r \in Request, route[r] # Nil
    PROVE  /\ route[r] \in Route
           /\ Steps(r) \in Seq(Step)
           /\ Len(Steps(r)) \in Nat
           /\ \A i \in 1..Len(Steps(r)) : Steps(r)[i] \in Step
<1>1. route[r] \in Route
  BY DEF TypeOK
<1>2. Steps(r) \in Seq(Step)
  BY <1>1, ServerAssumption DEF Steps
<1> QED BY <1>1, <1>2

\* One step further: the transaction is open if it was and did not commit, or began.
LEMMA InTxNext ==
    ASSUME NEW p, NEW i \in Nat \ {0}
    PROVE  InTx(p, i + 1) <=> p[i].op = "begin" \/ (InTx(p, i) /\ p[i].op # "commit")
<1>1. ASSUME InTx(p, i + 1), p[i].op # "begin" PROVE InTx(p, i) /\ p[i].op # "commit"
  <2>1. PICK b \in 1..i : p[b].op = "begin" /\ \A k \in (b + 1)..i : p[k].op # "commit"
    BY <1>1 DEF InTx
  <2>2. b # i
    BY <2>1, <1>1
  <2>3. b \in 1..(i - 1) /\ i \in (b + 1)..i /\ \A k \in (b + 1)..(i - 1) : k \in (b + 1)..i
    BY <2>1, <2>2
  <2> QED BY <2>1, <2>3 DEF InTx
<1>2. ASSUME p[i].op = "begin" PROVE InTx(p, i + 1)
  <2>1. i \in 1..((i + 1) - 1) /\ (i + 1)..((i + 1) - 1) = {}
    OBVIOUS
  <2> QED BY <1>2, <2>1 DEF InTx
<1>3. ASSUME InTx(p, i), p[i].op # "commit" PROVE InTx(p, i + 1)
  <2>1. PICK b \in 1..(i - 1) : p[b].op = "begin" /\ \A k \in (b + 1)..(i - 1) : p[k].op # "commit"
    BY <1>3 DEF InTx
  <2>2. b \in 1..((i + 1) - 1) /\ \A k \in (b + 1)..((i + 1) - 1) : k = i \/ k \in (b + 1)..(i - 1)
    OBVIOUS
  <2> QED BY <1>3, <2>1, <2>2 DEF InTx
<1> QED BY <1>1, <1>2, <1>3

LEMMA DoneNext ==
    ASSUME NEW p, NEW i \in Nat \ {0}
    PROVE  Done(p, i + 1) <=> Done(p, i) \/ p[i].op \in {"commit", "store"}
<1>1. 1..((i + 1) - 1) = (1..(i - 1)) \cup {i}
  OBVIOUS
<1> QED BY <1>1 DEF Done

\* What a well-formed handler tells of a request by the step it is at.
LEMMA Shape ==
    ASSUME AllWellFormed, TypeOK, NEW r \in Request, route[r] # Nil,
           pc[r] <= Len(Steps(r))
    PROVE  /\ InTx(Steps(r), pc[r]) => Steps(r)[pc[r]].op \in {"check", "lock", "commit"}
           /\ Steps(r)[pc[r]].op \in {"lock", "commit"} => InTx(Steps(r), pc[r])
           /\ Steps(r)[pc[r]].op = "lock" => NextRow(r) \in Row
           /\ \A row \in Row : Steps(r)[pc[r]].op = "lock" /\ HasLocked(r, row)
                => Level[row] < Level[NextRow(r)]
           /\ Done(Steps(r), pc[r]) => Steps(r)[pc[r]].op = "query"
<1>1. pc[r] \in 1..Len(Steps(r)) /\ WellFormed(Steps(r))
  BY StepsType DEF AllWellFormed, Steps, TypeOK
<1> QED BY <1>1 DEF WellFormed, HasLocked, NextRow

-----------------------------------------------------------------------------
(* The initial state                                                       *)

LEMMA InvInit == Init => ServerInv
<1> SUFFICES ASSUME Init PROVE ServerInv
  OBVIOUS
<1>1. TypeOK
  <2>1. status = -1 /\ phase = "serving"
    BY DEF Init
  <2>2. /\ route \in [Request -> Route \cup {Nil}]
        /\ conn \in [Conn -> (Request \X {"tx", "query"}) \cup {Nil}]
        /\ locked \in [Row -> Request \cup {Nil}]
        /\ answer \in [Request -> Answer]
    BY DEF Init, Answer
  <2>3. stop \in BOOLEAN /\ lost \in BOOLEAN /\ effect \subseteq Request
    BY DEF Init
  <2>4. pc \in [Request -> Nat \ {0}]
    BY DEF Init
  <2> QED BY <2>1, <2>2, <2>3, <2>4 DEF TypeOK
<1>2. Holding
  <2>1. ASSUME NEW r \in Request PROVE HoldingOf(r)
    <3>1. \A c \in Conn : conn[c] = Nil
      BY DEF Init
    <3>2. \A row \in Row : locked[row] = Nil
      BY DEF Init
    <3>3. Nil # r /\ Nil # <<r, "tx">> /\ Nil # <<r, "query">>
      BY ServerAssumption
    <3> QED BY <3>1, <3>2, <3>3 DEF HoldingOf
  <2> QED BY <2>1 DEF Holding
<1>3. Effects
  BY DEF Init, Effects, EffectsOf, Running
<1>4. Life
  BY DEF Init, Life, Running
<1> QED BY <1>1, <1>2, <1>3, <1>4 DEF ServerInv

-----------------------------------------------------------------------------
(* Types                                                                   *)

LEMMA ConnType ==
    ASSUME TypeOK, NEW r \in Request, NEW use \in {"tx", "query"}, Take(r, use)
    PROVE  conn' \in [Conn -> (Request \X {"tx", "query"}) \cup {Nil}]
BY DEF TypeOK, Take

LEMMA GiveBackType ==
    ASSUME TypeOK, NEW r \in Request, NEW uses, GiveBack(r, uses)
    PROVE  conn' \in [Conn -> (Request \X {"tx", "query"}) \cup {Nil}]
BY DEF TypeOK, GiveBack

LEMMA UnlockType ==
    ASSUME TypeOK, NEW r \in Request, Unlock(r)
    PROVE  locked' \in [Row -> Request \cup {Nil}]
BY DEF TypeOK, Unlock

LEMMA AdvanceType ==
    ASSUME TypeOK, NEW r \in Request, Advance(r)
    PROVE  pc' \in [Request -> Nat \ {0}]
BY DEF TypeOK, Advance

LEMMA ReturnType ==
    ASSUME TypeOK, NEW r \in Request, NEW a \in Answer, Return(r, a),
           effect' \subseteq Request
    PROVE  TypeOK'
<1>1. answer' \in [Request -> Answer]
  BY DEF TypeOK, Return
<1> QED BY <1>1, GiveBackType, UnlockType DEF TypeOK, Return, process

LEMMA DieType ==
    ASSUME TypeOK, Die, status' \in {0, 1, 2}
    PROVE  TypeOK'
<1>1. answer' \in [Request -> Answer]
  BY DEF TypeOK, Die, Answer
<1>2. conn' \in [Conn -> (Request \X {"tx", "query"}) \cup {Nil}]
  BY DEF Die
<1>3. locked' \in [Row -> Request \cup {Nil}]
  BY DEF Die
<1> QED BY <1>1, <1>2, <1>3 DEF TypeOK, Die

\* One disjunct of Next: a request, or the process, does something.
RequestStep(r) ==
    \/ \E rt \in Route : Arrive(r, rt)
    \/ Pass(r) \/ Acquire(r) \/ BeginTx(r) \/ RunQuery(r) \/ RunStore(r)
    \/ LockRow(r) \/ CommitTx(r) \/ Refuse(r) \/ Fail(r)
    \/ CommitFails(r) \/ PoolClosed(r) \/ Succeed(r)
ProcessStep == Signal \/ ListenerFails \/ SelectDone \/ SelectError \/ Drained \/ GiveUp

LEMMA StepCases ==
    [Next]_vars => \/ \E r \in Request : RequestStep(r)
                   \/ ProcessStep \/ Exit \/ Kill \/ UNCHANGED vars
BY DEF Next, RequestStep, ProcessStep

LEMMA TypeStep == AllWellFormed /\ TypeOK /\ [Next]_vars => TypeOK'
<1> SUFFICES ASSUME AllWellFormed, TypeOK, [Next]_vars PROVE TypeOK'
  OBVIOUS
<1>1. ASSUME NEW r \in Request, RequestStep(r) PROVE TypeOK'
  <2>1. CASE \E rt \in Route : Arrive(r, rt)
    BY <2>1 DEF TypeOK, Arrive, process, pool
  <2>2. CASE Pass(r)
    BY <2>2, AdvanceType DEF TypeOK, Pass, process, pool
  <2>3. CASE Acquire(r)
    <3>1. conn' \in [Conn -> (Request \X {"tx", "query"}) \cup {Nil}]
      BY <2>3, ConnType DEF Acquire
    <3> QED BY <2>3, <3>1 DEF TypeOK, Acquire, process
  <2>4. CASE BeginTx(r)
    <3>1. conn' \in [Conn -> (Request \X {"tx", "query"}) \cup {Nil}]
      BY <2>4, ConnType DEF BeginTx
    <3> QED BY <2>4, <3>1, AdvanceType DEF TypeOK, BeginTx, process
  <2>5. CASE RunQuery(r)
    BY <2>5, GiveBackType, AdvanceType DEF TypeOK, RunQuery, process
  <2>6. CASE RunStore(r)
    BY <2>6, GiveBackType, AdvanceType DEF TypeOK, RunStore, process
  <2>7. CASE LockRow(r)
    <3>1. locked' \in [Row -> Request \cup {Nil}]
      BY <2>7 DEF TypeOK, LockRow
    <3> QED BY <2>7, <3>1, AdvanceType DEF TypeOK, LockRow, process
  <2>8. CASE CommitTx(r)
    BY <2>8, GiveBackType, UnlockType, AdvanceType DEF TypeOK, CommitTx, process
  <2>9. CASE Refuse(r)
    BY <2>9, ReturnType DEF Refuse, Answer, TypeOK
  <2>10. CASE Fail(r)
    BY <2>10, ReturnType DEF Fail, Answer, TypeOK
  <2>11. CASE CommitFails(r)
    BY <2>11, ReturnType DEF CommitFails, Answer, TypeOK
  <2>12. CASE PoolClosed(r)
    BY <2>12, ReturnType DEF PoolClosed, Answer, TypeOK
  <2>13. CASE Succeed(r)
    BY <2>13, ReturnType DEF Succeed, Answer, TypeOK
  <2> QED
    BY <1>1, <2>1, <2>2, <2>3, <2>4, <2>5, <2>6, <2>7, <2>8, <2>9, <2>10, <2>11, <2>12, <2>13
       DEF RequestStep
<1>2. CASE ProcessStep
  <2>1. /\ UNCHANGED requests
        /\ stop' \in BOOLEAN /\ lost' \in BOOLEAN
    BY <1>2 DEF TypeOK, ProcessStep, Signal, ListenerFails, SelectDone, SelectError, Drained,
                GiveUp
  <2>2. /\ phase' \in {"serving", "draining", "closing", "exited"}
        /\ status' \in {-1, 0, 1, 2}
        /\ status' = -1 <=> phase' \in {"serving", "draining"}
    BY <1>2 DEF TypeOK, ProcessStep, Signal, ListenerFails, SelectDone, SelectError, Drained,
                GiveUp
  <2> QED BY <2>1, <2>2 DEF TypeOK, requests, pool
<1>3. CASE Exit
  <2>1. status \in {0, 1, 2}
    BY <1>3 DEF Exit, TypeOK
  <2> QED BY <1>3, <2>1, DieType DEF Exit
<1>4. CASE Kill
  BY <1>4, DieType DEF Kill
<1>5. CASE UNCHANGED vars
  BY <1>5 DEF TypeOK, vars, process, pool
<1> QED BY <1>1, <1>2, <1>3, <1>4, <1>5, StepCases

-----------------------------------------------------------------------------
(* Who holds what                                                          *)

\* A step of r leaves what the others hold, and where they are, alone.
LEMMA HoldingMove ==
    ASSUME Holding, NEW r \in Request, HoldingOf(r)',
           \A q \in Request \ {r} :
             /\ route'[q] = route[q] /\ pc'[q] = pc[q] /\ answer'[q] = answer[q]
             /\ \A c \in Conn : conn'[c] = <<q, "tx">> => conn[c] = <<q, "tx">>
             /\ \A c \in Conn : conn'[c] = <<q, "query">> => conn[c] = <<q, "query">>
             /\ \A row \in Row : locked'[row] = q => locked[row] = q
    PROVE  Holding'
<1>1. ASSUME NEW q \in Request \ {r} PROVE HoldingOf(q)'
  <2>1. HoldingOf(q)
    BY DEF Holding
  <2>2. /\ Running(q)' <=> Running(q)
        /\ Steps(q)' = Steps(q)
        /\ pc'[q] = pc[q]
    BY DEF Running, Steps
  <2>3. /\ Inside(q)' <=> Inside(q)
        /\ At(q, "query")' <=> At(q, "query")
        /\ At(q, "store")' <=> At(q, "store")
        /\ \A row \in Row : HasLocked(q, row)' <=> HasLocked(q, row)
    BY <2>2 DEF Inside, At, HasLocked
  <2> QED BY <2>1, <2>3 DEF HoldingOf
<1> QED BY <1>1 DEF Holding

\* The handler of r has returned, or its last transaction or statement has ended.
LEMMA HoldsNothing ==
    ASSUME TypeOK, NEW r \in Request,
           \A c \in Conn : conn'[c] # <<r, "tx">> /\ conn'[c] # <<r, "query">>,
           \A row \in Row : locked'[row] # r
    PROVE  HoldingOf(r)'
BY DEF HoldingOf

LEMMA GiveBackConn ==
    ASSUME TypeOK, NEW r \in Request, NEW uses \in SUBSET {"tx", "query"}, GiveBack(r, uses)
    PROVE  /\ \A c \in Conn, use \in uses : conn'[c] # <<r, use>>
           /\ \A c \in Conn, q \in Request, use \in {"tx", "query"} :
                conn'[c] = <<q, use>> => conn[c] = <<q, use>>
<1>1. \A q \in Request, use \in {"tx", "query"} : Nil # <<q, use>>
  BY ServerAssumption
<1>2. \A c \in Conn : conn'[c] = IF conn[c] \in {<<r, use>> : use \in uses} THEN Nil ELSE conn[c]
  BY DEF GiveBack
<1> QED BY <1>1, <1>2

LEMMA UnlockRows ==
    ASSUME TypeOK, NEW r \in Request, Unlock(r)
    PROVE  \A row \in Row : /\ locked'[row] # r
                            /\ \A q \in Request : locked'[row] = q => locked[row] = q
BY ServerAssumption DEF Unlock

LEMMA HoldingReturn ==
    ASSUME TypeOK, Holding, NEW r \in Request, NEW a, Return(r, a)
    PROVE  Holding'
<1>1. GiveBack(r, {"tx", "query"}) /\ Unlock(r)
  BY DEF Return
<1>2. HoldingOf(r)'
  <2>1. \A c \in Conn : conn'[c] # <<r, "tx">> /\ conn'[c] # <<r, "query">>
    BY <1>1, GiveBackConn
  <2>2. \A row \in Row : locked'[row] # r
    BY <1>1, UnlockRows
  <2> QED BY <2>1, <2>2 DEF HoldingOf
<1>3. \A q \in Request \ {r} : route'[q] = route[q] /\ pc'[q] = pc[q] /\ answer'[q] = answer[q]
  BY DEF Return, TypeOK
<1> QED BY <1>1, <1>2, <1>3, GiveBackConn, UnlockRows, HoldingMove

LEMMA HoldingRequest ==
    ASSUME AllWellFormed, TypeOK, Holding, Effects, NEW r \in Request, RequestStep(r)
    PROVE  Holding'
<1> DEFINE Others == \A q \in Request \ {r} :
             /\ route'[q] = route[q] /\ pc'[q] = pc[q] /\ answer'[q] = answer[q]
             /\ \A c \in Conn : conn'[c] = <<q, "tx">> => conn[c] = <<q, "tx">>
             /\ \A c \in Conn : conn'[c] = <<q, "query">> => conn[c] = <<q, "query">>
             /\ \A row \in Row : locked'[row] = q => locked[row] = q
<1>a. HoldingOf(r) /\ pc[r] \in Nat \ {0}
  BY DEF Holding, TypeOK
\* One step further in the handler of r, with or without a transaction.
<1>n. ASSUME Advance(r), route[r] # Nil, UNCHANGED <<route, answer>>
      PROVE  /\ pc'[r] = pc[r] + 1
             /\ Steps(r)' = Steps(r) /\ (Running(r)' <=> Running(r))
             /\ InTx(Steps(r), pc[r] + 1) <=> \/ Steps(r)[pc[r]].op = "begin"
                                              \/ InTx(Steps(r), pc[r]) /\ Steps(r)[pc[r]].op # "commit"
             /\ \A row \in Row : HasLocked(r, row) => HasLocked(r, row)'
             /\ \A q \in Request \ {r} : pc'[q] = pc[q]
  <2>1. pc'[r] = pc[r] + 1 /\ \A q \in Request \ {r} : pc'[q] = pc[q]
    BY <1>n DEF Advance, TypeOK
  <2>2. Steps(r)' = Steps(r) /\ (Running(r)' <=> Running(r))
    BY <1>n DEF Steps, Running
  <2>3. \A row \in Row : HasLocked(r, row) => HasLocked(r, row)'
    BY <2>1, <2>2, <1>a DEF HasLocked
  <2> QED BY <2>1, <2>2, <2>3, <1>a, InTxNext
<1>1. CASE \E rt \in Route : Arrive(r, rt)
  <2>1. ~Running(r)
    BY <1>1 DEF Arrive, Running
  <2>2. HoldingOf(r)'
    BY <1>1, <1>a, <2>1 DEF Arrive, HoldingOf, Inside, At, pool
  <2>3. Others
    BY <1>1 DEF Arrive, pool, TypeOK
  <2> QED BY <2>2, <2>3, HoldingMove
<1>2. CASE Pass(r)
  <2>1. Running(r) /\ route[r] # Nil /\ Steps(r)[pc[r]].op \in {"body", "check"}
        /\ UNCHANGED <<route, answer, conn, locked>> /\ Advance(r)
    BY <1>2 DEF Pass, At, Running, pool
  <2>2. HoldingOf(r)'
    BY <2>1, <1>n, <1>a DEF HoldingOf, Inside, At
  <2> QED BY <2>1, <2>2, <1>n, HoldingMove
<1>3. CASE Acquire(r)
  <2>1. PICK c \in Conn : Free(c) /\ conn' = [conn EXCEPT ![c] = <<r, "query">>]
    BY <1>3 DEF Acquire, Take
  <2>2. /\ At(r, "query") \/ At(r, "store")
        /\ UNCHANGED <<route, pc, answer, locked>>
    BY <1>3 DEF Acquire
  <2>3. HoldingOf(r)'
    BY <2>1, <2>2, <1>a DEF HoldingOf, Inside, At, Running, Steps, HasLocked, TypeOK
  <2>4. Others
    BY <2>1, <2>2 DEF TypeOK
  <2> QED BY <2>3, <2>4, HoldingMove
<1>4. CASE BeginTx(r)
  <2>1. PICK c \in Conn : Free(c) /\ conn' = [conn EXCEPT ![c] = <<r, "tx">>]
    BY <1>4 DEF BeginTx, Take
  <2>2. /\ Running(r) /\ route[r] # Nil /\ Steps(r)[pc[r]].op = "begin"
        /\ UNCHANGED <<route, answer, locked>> /\ Advance(r)
    BY <1>4 DEF BeginTx, At, Running
  <2>3. \A d \in Conn : conn[d] # <<r, "query">>
    BY <1>a, <2>2 DEF HoldingOf, At
  <2>4. HoldingOf(r)'
    BY <2>1, <2>2, <2>3, <1>n, <1>a DEF HoldingOf, Inside, TypeOK
  <2>5. Others
    BY <2>1, <2>2, <1>n DEF TypeOK
  <2> QED BY <2>4, <2>5, HoldingMove
\* A statement of the pool runs outside the transaction.
<1>5. ASSUME At(r, "query") \/ At(r, "store"), GiveBack(r, {"query"}), Advance(r),
             UNCHANGED <<route, answer, locked>>
      PROVE  Holding'
  <2>1. Running(r) /\ route[r] # Nil /\ ~InTx(Steps(r), pc[r])
    BY <1>5, Shape DEF At, Running
  <2>2. HoldingOf(r)'
    BY <1>5, <2>1, <1>a, GiveBackConn, HoldsNothing DEF HoldingOf, Inside
  <2> QED BY <1>5, <2>1, <2>2, <1>n, GiveBackConn, HoldingMove
<1>6. CASE RunQuery(r)
  BY <1>5, <1>6 DEF RunQuery
<1>7. CASE RunStore(r)
  BY <1>5, <1>7 DEF RunStore
<1>8. CASE LockRow(r)
  <2>1. /\ Running(r) /\ route[r] # Nil /\ Steps(r)[pc[r]].op = "lock"
        /\ pc[r] <= Len(Steps(r))
        /\ UNCHANGED <<route, answer, conn>> /\ Advance(r)
        /\ locked' = [locked EXCEPT ![NextRow(r)] = r]
    BY <1>8 DEF LockRow, At, Running
  <2>2. InTx(Steps(r), pc[r])
    BY <2>1, Shape
  <2>r. PICK new : new = NextRow(r)
    OBVIOUS
  <2>3. HasLocked(r, new)'
    <3>1. pc[r] \in 1..(pc'[r] - 1) /\ Steps(r)'[pc[r]].op = "lock" /\ Steps(r)'[pc[r]].row = new
      BY <2>1, <2>r, <1>n, <1>a DEF NextRow
    <3> QED BY <3>1 DEF HasLocked
  <2>4. \A d \in Conn : conn[d] # <<r, "query">>
    BY <1>a, <2>1 DEF HoldingOf, At
  <2>5. HoldingOf(r)'
    <3>1. Inside(r)'
      BY <2>1, <2>2, <1>n DEF Inside
    <3>2. ASSUME NEW row \in Row, locked'[row] = r PROVE HasLocked(r, row)'
      <4>1. CASE locked[row] = r
        BY <4>1, <1>a, <2>1, <1>n DEF HoldingOf
      <4>2. CASE locked[row] # r
        <5>1. row = new
          BY <3>2, <4>2, <2>1, <2>r DEF TypeOK
        <5> QED BY <5>1, <2>3
      <4> QED BY <4>1, <4>2
    <3> QED BY <3>1, <3>2, <2>1, <2>4 DEF HoldingOf
  <2>6. Others
    BY <2>1, <1>n DEF TypeOK
  <2> QED BY <2>5, <2>6, HoldingMove
<1>9. CASE CommitTx(r)
  <2>1. /\ Running(r) /\ route[r] # Nil /\ Steps(r)[pc[r]].op = "commit"
        /\ UNCHANGED <<route, answer>> /\ Advance(r) /\ GiveBack(r, {"tx"}) /\ Unlock(r)
    BY <1>9 DEF CommitTx, At, Running
  <2>2. \A d \in Conn : conn[d] # <<r, "query">>
    BY <1>a, <2>1 DEF HoldingOf, At
  <2>3. HoldingOf(r)'
    BY <2>1, <2>2, GiveBackConn, UnlockRows, HoldsNothing
  <2> QED BY <2>1, <2>3, <1>n, GiveBackConn, UnlockRows, HoldingMove
<1>10. CASE \E a : Return(r, a)
  BY <1>10, HoldingReturn
<1> QED
  BY <1>1, <1>2, <1>3, <1>4, <1>6, <1>7, <1>8, <1>9, <1>10
     DEF RequestStep, Refuse, Fail, CommitFails, PoolClosed, Succeed

LEMMA DieHolding == Die => Holding'
BY ServerAssumption DEF Die, Holding, HoldingOf

LEMMA HoldingSame ==
    ASSUME Holding, UNCHANGED <<route, pc, answer, conn, locked>>
    PROVE  Holding'
BY DEF Holding, HoldingOf, Inside, At, HasLocked, Running, Steps

LEMMA HoldingStep == AllWellFormed /\ ServerInv /\ [Next]_vars => Holding'
<1> SUFFICES ASSUME AllWellFormed, ServerInv, [Next]_vars PROVE Holding'
  OBVIOUS
<1>1. ASSUME NEW r \in Request, RequestStep(r) PROVE Holding'
  BY <1>1, HoldingRequest DEF ServerInv
<1>2. CASE ProcessStep
  BY <1>2, HoldingSame DEF ServerInv, ProcessStep, Signal, ListenerFails, SelectDone,
                           SelectError, Drained, GiveUp, requests, pool
<1>3. CASE Exit \/ Kill
  BY <1>3, DieHolding DEF Exit, Kill
<1>4. CASE UNCHANGED vars
  BY <1>4, HoldingSame DEF ServerInv, vars, pool
<1> QED BY <1>1, <1>2, <1>3, <1>4, StepCases

-----------------------------------------------------------------------------
(* What has been done                                                      *)

LEMMA EffectsMove ==
    ASSUME Effects, NEW r \in Request, EffectsOf(r)',
           \A q \in Request \ {r} :
             /\ route'[q] = route[q] /\ pc'[q] = pc[q] /\ answer'[q] = answer[q]
             /\ q \in effect' <=> q \in effect
    PROVE  Effects'
<1>1. ASSUME NEW q \in Request \ {r} PROVE EffectsOf(q)'
  BY DEF Effects, EffectsOf, Running, Steps
<1> QED BY <1>1 DEF Effects

LEMMA EffectsReturn ==
    ASSUME TypeOK, Effects, NEW r \in Request, NEW a \in Answer \ {"none"}, Running(r),
           Return(r, a), effect' \in {effect, effect \cup {r}}
    PROVE  Effects'
<1>1. EffectsOf(r)'
  BY DEF Return, EffectsOf, Running, TypeOK
<1>2. \A q \in Request \ {r} : route'[q] = route[q] /\ pc'[q] = pc[q] /\ answer'[q] = answer[q]
  BY DEF Return, TypeOK
<1> QED BY <1>1, <1>2, EffectsMove

LEMMA EffectsRequest ==
    ASSUME AllWellFormed, TypeOK, Effects, NEW r \in Request, RequestStep(r)
    PROVE  Effects'
<1>a. EffectsOf(r) /\ pc[r] \in Nat \ {0}
  BY DEF Effects, TypeOK
\* One step further: the effect is there iff this step, or an earlier one, takes it.
<1>n. ASSUME NEW op \in Op, At(r, op), Advance(r), UNCHANGED <<route, answer>>,
             effect' = IF op \in {"commit", "store"} THEN effect \cup {r} ELSE effect
      PROVE  Effects'
  <2>1. pc'[r] = pc[r] + 1 /\ \A q \in Request \ {r} : pc'[q] = pc[q]
    BY <1>n DEF Advance, TypeOK
  <2>2. Steps(r)' = Steps(r) /\ Running(r) /\ route[r] # Nil /\ Steps(r)[pc[r]].op = op
    BY <1>n DEF Steps, Running, At
  <2>3. Done(Steps(r), pc[r] + 1) <=> Done(Steps(r), pc[r]) \/ op \in {"commit", "store"}
    BY <2>2, <1>a, DoneNext
  <2>4. EffectsOf(r)'
    BY <2>1, <2>2, <2>3, <1>a, <1>n DEF EffectsOf, Running
  <2> QED BY <2>1, <2>4, <1>n, EffectsMove
<1>1. CASE \E rt \in Route : Arrive(r, rt)
  <2>1. ~Done(Steps(r)', 1)
    BY DEF Done
  <2>2. r \notin effect /\ pc[r] = 1 /\ answer[r] = "none" /\ UNCHANGED <<pc, effect, answer>>
    BY <1>1, <1>a DEF Arrive, EffectsOf
  <2>3. route'[r] \in Route /\ \A q \in Request \ {r} : route'[q] = route[q]
    BY <1>1 DEF Arrive, TypeOK
  <2>4. EffectsOf(r)'
    BY <2>1, <2>2, <2>3, ServerAssumption DEF EffectsOf
  <2> QED BY <2>2, <2>3, <2>4, EffectsMove
<1>2. CASE Pass(r)
  BY <1>2, <1>n DEF Pass, Op
<1>3. CASE Acquire(r)
  BY <1>3, <1>a, EffectsMove DEF Acquire, EffectsOf, Running, Steps
<1>4. CASE BeginTx(r)
  BY <1>4, <1>n DEF BeginTx, Op
<1>5. CASE RunQuery(r)
  BY <1>5, <1>n DEF RunQuery, Op
<1>6. CASE RunStore(r)
  BY <1>6, <1>n DEF RunStore, Op
<1>7. CASE LockRow(r)
  BY <1>7, <1>n DEF LockRow, Op
<1>8. CASE CommitTx(r)
  BY <1>8, <1>n DEF CommitTx, Op
<1>9. CASE Refuse(r) \/ Fail(r) \/ CommitFails(r) \/ PoolClosed(r) \/ Succeed(r)
  <2>1. Running(r) /\ \E a \in Answer \ {"none"} : Return(r, a)
    BY <1>9 DEF Refuse, Fail, CommitFails, PoolClosed, Succeed, Answer, At
  <2>2. effect' \in {effect, effect \cup {r}}
    BY <1>9 DEF Refuse, Fail, CommitFails, PoolClosed, Succeed
  <2> QED BY <2>1, <2>2, EffectsReturn
<1> QED
  BY <1>1, <1>2, <1>3, <1>4, <1>5, <1>6, <1>7, <1>8, <1>9 DEF RequestStep

LEMMA EffectsSame ==
    ASSUME Effects, UNCHANGED <<route, pc, effect, answer>>
    PROVE  Effects'
BY DEF Effects, EffectsOf, Running, Steps

LEMMA EffectsStep == AllWellFormed /\ ServerInv /\ [Next]_vars => Effects'
<1> SUFFICES ASSUME AllWellFormed, ServerInv, [Next]_vars PROVE Effects'
  OBVIOUS
<1>1. ASSUME NEW r \in Request, RequestStep(r) PROVE Effects'
  BY <1>1, EffectsRequest DEF ServerInv
<1>2. CASE ProcessStep
  BY <1>2, EffectsSame DEF ServerInv, ProcessStep, Signal, ListenerFails, SelectDone,
                           SelectError, Drained, GiveUp, requests
<1>3. CASE Exit \/ Kill
  <2>1. Die
    BY <1>3 DEF Exit, Kill
  <2> QED BY <2>1 DEF ServerInv, Die, Effects, EffectsOf, Running, Steps
<1>4. CASE UNCHANGED vars
  BY <1>4, EffectsSame DEF ServerInv, vars
<1> QED BY <1>1, <1>2, <1>3, <1>4, StepCases

-----------------------------------------------------------------------------
(* The life of the process                                                 *)

LEMMA LifeStep == AllWellFormed /\ ServerInv /\ [Next]_vars => Life'
<1> SUFFICES ASSUME AllWellFormed, ServerInv, [Next]_vars PROVE Life'
  OBVIOUS
<1> USE DEF PoolOpen
<1>a. TypeOK /\ Life /\ Effects
  BY DEF ServerInv
<1>1. ASSUME NEW r \in Request, RequestStep(r) PROVE Life'
  <2>1. CASE \E rt \in Route : Arrive(r, rt)
    <3>1. UNCHANGED <<process, answer>> /\ status # 0 /\ phase # "exited"
      BY <1>a, <2>1 DEF Arrive, TypeOK
    <3> QED BY <1>a, <3>1 DEF Life, process
  <2>2. CASE Running(r) /\ UNCHANGED <<process, route, answer>>
    BY <1>a, <2>2 DEF Life, process, Running
  <2>3. CASE Running(r) /\ \E a : Return(r, a) /\ (PoolOpen => a \in {"ok", "refused", "failed"})
    <3>1. PICK a : Return(r, a) /\ (PoolOpen => a \in {"ok", "refused", "failed"})
      BY <2>3
    <3>2. UNCHANGED <<process, route>> /\ answer' = [answer EXCEPT ![r] = a]
      BY <3>1 DEF Return
    <3>3. status # 0 /\ phase # "exited"
      BY <1>a, <2>3 DEF Life, Running
    <3> QED BY <1>a, <3>1, <3>2, <3>3 DEF Life, process, TypeOK
  <2> QED
    BY <1>1, <2>1, <2>2, <2>3
       DEF RequestStep, Pass, Acquire, BeginTx, RunQuery, RunStore, LockRow, CommitTx,
           Refuse, Fail, CommitFails, PoolClosed, Succeed, At
<1>2. CASE Signal \/ ListenerFails \/ SelectDone \/ SelectError \/ GiveUp
  BY <1>a, <1>2 DEF Life, TypeOK, Signal, ListenerFails, SelectDone, SelectError, GiveUp,
                    requests, Running
<1>3. CASE Drained
  <2>1. \A r \in Request : route[r] # Nil => answer[r] \in {"ok", "refused", "failed"}
    BY <1>a, <1>3 DEF Drained, Idle, Running, Life, TypeOK, Answer
  <2> QED BY <1>3, <2>1 DEF Drained, Life, requests
<1>4. CASE Exit \/ Kill
  <2>1. Die /\ status' \in {status, 2}
    BY <1>4 DEF Exit, Kill
  <2>2. phase' = "exited" /\ route' = route
        /\ \A r \in Request : answer'[r] = IF Running(r) THEN "cut" ELSE answer[r]
    BY <2>1 DEF Die
  <2>3. \A r \in Request : ~Running(r)'
    BY <2>2 DEF Running
  <2>4. status' = 0 => \A r \in Request : route'[r] # Nil => answer'[r] \in {"ok", "refused", "failed"}
    BY <1>a, <2>1, <2>2 DEF Life, Running
  <2> QED BY <2>2, <2>3, <2>4 DEF Life
<1>5. CASE UNCHANGED vars
  BY <1>a, <1>5 DEF Life, vars, process, Running
<1> QED BY <1>1, <1>2, <1>3, <1>4, <1>5, StepCases DEF ProcessStep

-----------------------------------------------------------------------------
(* The theorems                                                            *)

LEMMA InvStep == AllWellFormed /\ ServerInv /\ [Next]_vars => ServerInv'
BY TypeStep, HoldingStep, EffectsStep, LifeStep DEF ServerInv

\* The inductive invariant holds whatever the handlers, if they are well formed.
THEOREM InvariantHolds == ASSUME AllWellFormed PROVE Spec => []ServerInv
<1>1. Init => ServerInv
  BY InvInit
<1>2. ServerInv /\ [Next]_vars => ServerInv'
  BY InvStep
<1> QED BY <1>1, <1>2, PTL DEF Spec

\* Types and the shape of the exit status (process and requests of Server).
THEOREM TypeCorrect == ASSUME AllWellFormed PROVE Spec => []TypeOK
<1>1. ServerInv => TypeOK
  BY DEF ServerInv
<1> QED BY <1>1, InvariantHolds, PTL

\* A transaction either goes on or waits for a row that another transaction holds,
\* which then is at its second row or past it, and goes on.
LEMMA HolderGoesOn ==
    ASSUME AllWellFormed, ServerInv, NEW r \in Request, Inside(r)
    PROVE  \E q \in Request : CanStep(q)
<1> USE DEF ServerInv
<1>a. route[r] # Nil /\ Running(r) /\ pc[r] \in Nat
  BY DEF Inside, Running, TypeOK
<1>1. CASE pc[r] > Len(Steps(r))
  BY <1>1, <1>a DEF CanStep
<1>2. CASE ~(pc[r] > Len(Steps(r)))
  <2>1. pc[r] <= Len(Steps(r)) /\ Steps(r)[pc[r]].op \in {"check", "lock", "commit"}
    BY <1>2, <1>a, StepsType, Shape DEF Inside
  <2>2. CASE Steps(r)[pc[r]].op # "lock"
    BY <2>1, <2>2, <1>a DEF CanStep, At
  <2>3. CASE Steps(r)[pc[r]].op = "lock" /\ RowFree(r, NextRow(r))
    BY <2>1, <2>3, <1>a DEF CanStep, At
  <2>4. CASE Steps(r)[pc[r]].op = "lock" /\ ~RowFree(r, NextRow(r))
    <3>1. NextRow(r) \in Row /\ locked[NextRow(r)] \notin {Nil, r}
      BY <2>1, <2>4, <1>a, Shape DEF RowFree
    <3>2. PICK q \in Request : locked[NextRow(r)] = q
      BY <3>1 DEF TypeOK
    <3>3. Inside(q) /\ HasLocked(q, NextRow(r)) /\ route[q] # Nil /\ Running(q) /\ pc[q] \in Nat
      BY <3>1, <3>2 DEF Holding, HoldingOf, Inside, Running, TypeOK
    <3>4. CASE pc[q] > Len(Steps(q))
      BY <3>3, <3>4 DEF CanStep
    <3>5. CASE ~(pc[q] > Len(Steps(q)))
      <4>1. pc[q] <= Len(Steps(q)) /\ Steps(q)[pc[q]].op \in {"check", "lock", "commit"}
        BY <3>5, <3>3, StepsType, Shape DEF Inside
      <4>2. CASE Steps(q)[pc[q]].op # "lock"
        BY <4>1, <4>2, <3>3 DEF CanStep, At
      <4>3. CASE Steps(q)[pc[q]].op = "lock" /\ RowFree(q, NextRow(q))
        BY <4>1, <4>3, <3>3 DEF CanStep, At
      <4>4. CASE Steps(q)[pc[q]].op = "lock" /\ ~RowFree(q, NextRow(q))
        <5>1. NextRow(q) \in Row /\ locked[NextRow(q)] \notin {Nil, q}
          BY <4>1, <4>4, <3>3, Shape DEF RowFree
        <5>2. Level[NextRow(r)] < Level[NextRow(q)]
          BY <3>1, <3>3, <4>1, <4>4, Shape
        <5>3. PICK p \in Request : locked[NextRow(q)] = p
          BY <5>1 DEF TypeOK
        <5>4. Inside(p) /\ HasLocked(p, NextRow(q)) /\ route[p] # Nil /\ Running(p) /\ pc[p] \in Nat
          BY <5>1, <5>3 DEF Holding, HoldingOf, Inside, Running, TypeOK
        <5>5. CASE pc[p] > Len(Steps(p))
          BY <5>4, <5>5 DEF CanStep
        <5>6. CASE ~(pc[p] > Len(Steps(p)))
          <6>1. pc[p] <= Len(Steps(p)) /\ Steps(p)[pc[p]].op \in {"check", "lock", "commit"}
            BY <5>6, <5>4, StepsType, Shape DEF Inside
          <6>2. ASSUME Steps(p)[pc[p]].op = "lock" PROVE FALSE
            <7>1. NextRow(p) \in Row /\ Level[NextRow(q)] < Level[NextRow(p)]
              BY <6>1, <6>2, <5>1, <5>4, Shape
            <7>2. /\ Level[NextRow(r)] \in {1, 2} /\ Level[NextRow(q)] \in {1, 2}
                  /\ Level[NextRow(p)] \in {1, 2}
              BY <3>1, <5>1, <7>1, ServerAssumption
            <7> QED BY <5>2, <7>1, <7>2
          <6> QED BY <6>1, <6>2, <5>4 DEF CanStep, At
        <5> QED BY <5>5, <5>6
      <4> QED BY <4>1, <4>2, <4>3, <4>4
    <3> QED BY <3>4, <3>5
  <2> QED BY <2>2, <2>3, <2>4
<1> QED BY <1>1, <1>2

\* A connection that is taken is in use by somebody who goes on, or waits for such a one.
LEMMA ConnHolderGoesOn ==
    ASSUME AllWellFormed, ServerInv, NEW c \in Conn, ~Free(c)
    PROVE  \E q \in Request : CanStep(q)
<1> USE DEF ServerInv
<1>1. PICK r \in Request : conn[c] \in {<<r, "tx">>, <<r, "query">>}
  <2>1. conn[c] \in Request \X {"tx", "query"}
    BY DEF Free, TypeOK
  <2> QED BY <2>1
<1>2. CASE conn[c] = <<r, "tx">>
  <2>1. Inside(r)
    <3>1. HoldingOf(r)
      BY DEF Holding
    <3> QED BY <3>1, <1>2 DEF HoldingOf
  <2> QED BY <2>1, HolderGoesOn
<1>3. CASE conn[c] = <<r, "query">>
  <2>1. (At(r, "query") \/ At(r, "store")) /\ Holds(r, "query") /\ Running(r)
    BY <1>3 DEF Holding, HoldingOf, Holds, At
  <2>2. CASE At(r, "store") \/ RowFree(r, NextRow(r))
    BY <2>1, <2>2 DEF CanStep
  <2>3. CASE ~RowFree(r, NextRow(r))
    <3>1. PICK q \in Request : NextRow(r) \in Row /\ locked[NextRow(r)] = q
      BY <2>3 DEF RowFree, TypeOK
    <3>2. Inside(q)
      <4>1. HoldingOf(q)
        BY DEF Holding
      <4> QED BY <4>1, <3>1 DEF HoldingOf
    <3> QED BY <3>2, HolderGoesOn
  <2> QED BY <2>2, <2>3
<1> QED BY <1>1, <1>2, <1>3

LEMMA NotWedged == AllWellFormed /\ ServerInv => NeverWedged
<1> SUFFICES ASSUME AllWellFormed, ServerInv, NEW r \in Request, Running(r), ~At(r, "body")
             PROVE  \E q \in Request : CanStep(q)
  BY DEF NeverWedged
<1> USE DEF ServerInv
<1>a. route[r] # Nil /\ pc[r] \in Nat \ {0}
  BY DEF Running, TypeOK
<1>1. CASE pc[r] > Len(Steps(r))
  BY <1>1 DEF CanStep
<1>2. CASE \E c \in Conn : ~Free(c)
  BY <1>2, ConnHolderGoesOn
<1>3. CASE Inside(r)
  BY <1>3, HolderGoesOn
<1>4. CASE ~(pc[r] > Len(Steps(r))) /\ (\A c \in Conn : Free(c)) /\ ~Inside(r)
  <2>1. pc[r] \in 1..Len(Steps(r)) /\ pc[r] <= Len(Steps(r))
    BY <1>4, <1>a, StepsType
  <2>2. Steps(r)[pc[r]].op \in Op
    BY <2>1, <1>a, StepsType DEF Step
  <2>3. Steps(r)[pc[r]].op \notin {"lock", "commit", "body"}
    BY <2>1, <1>4, <1>a, Shape DEF Inside, At
  <2>4. ConnReady(r) /\ ~Holds(r, "query")
    <3>1. PICK c \in Conn : TRUE
      BY ServerAssumption
    <3>2. \A d \in Conn : conn[d] = Nil /\ Nil # <<r, "query">>
      BY <1>4, ServerAssumption DEF Free
    <3> QED BY <3>1, <3>2, <1>4 DEF ConnReady, Holds
  <2> QED BY <2>1, <2>2, <2>3, <2>4 DEF Op, At, CanStep
<1> QED BY <1>1, <1>2, <1>3, <1>4

\* No circle of waiters for connections and rows, for any number of both.
THEOREM PoolNeverWedges == ASSUME AllWellFormed PROVE Spec => []NeverWedged
<1>1. ServerInv => NeverWedged
  BY NotWedged
<1> QED BY <1>1, InvariantHolds, PTL

\* Exit status 0 is never a lie.
THEOREM ExitStatusTrue == ASSUME AllWellFormed PROVE Spec => []ExitTellsTruth
<1>1. ServerInv => ExitTellsTruth
  BY DEF ServerInv, Life, ExitTellsTruth
<1> QED BY <1>1, InvariantHolds, PTL

\* Only a kill cuts an open transaction, and the closed pool turns none away.
THEOREM TransactionsSurvive ==
    ASSUME AllWellFormed PROVE Spec => TransactionsSurviveShutdown
<1>1. ServerInv /\ [Next]_vars =>
        [\A r \in Request : Holds(r, "tx") /\ answer'[r] \in {"cut", "closed"} => status' = 2]_vars
  <2> SUFFICES ASSUME ServerInv, [Next]_vars, NEW r \in Request, Holds(r, "tx"),
                      answer'[r] \in {"cut", "closed"}
               PROVE  status' = 2
    OBVIOUS
  <2> USE DEF ServerInv
  <2>1. Inside(r) /\ Running(r) /\ answer[r] = "none" /\ route[r] # Nil /\ ~\A c \in Conn : Free(c)
    <3>1. PICK c \in Conn : conn[c] = <<r, "tx">>
      BY DEF Holds
    <3>2. HoldingOf(r) /\ Nil # <<r, "tx">>
      BY ServerAssumption DEF Holding
    <3>3. Inside(r)
      BY <3>1, <3>2 DEF HoldingOf
    <3> QED BY <3>1, <3>2, <3>3 DEF Inside, Running, Free
  <2>2. ASSUME NEW q \in Request, RequestStep(q) PROVE status' = 2
    <3>1. ASSUME NEW a, Return(q, a), q # r PROVE FALSE
      BY <2>1, <3>1 DEF Return, TypeOK
    <3>2. ASSUME NEW a, a \in {"ok", "refused", "failed"}, Return(q, a) PROVE FALSE
      BY <2>1, <3>1, <3>2 DEF Return, TypeOK
    <3>3. ASSUME PoolClosed(q) PROVE FALSE
      <4>1. q = r
        BY <3>1, <3>3 DEF PoolClosed
      <4>2. pc[r] <= Len(Steps(r)) /\ Steps(r)[pc[r]].op \in {"begin", "query", "store"}
        BY <3>3, <4>1 DEF PoolClosed, At
      <4> QED BY <2>1, <4>2, Shape DEF Inside
    <3>4. ASSUME UNCHANGED answer PROVE FALSE
      BY <2>1, <3>4
    <3> QED
      BY <2>2, <3>2, <3>3, <3>4
         DEF RequestStep, Arrive, Pass, Acquire, BeginTx, RunQuery, RunStore, LockRow, CommitTx,
             Refuse, Fail, CommitFails, Succeed
  <2>3. CASE ProcessStep \/ UNCHANGED vars
    BY <2>1, <2>3 DEF ProcessStep, Signal, ListenerFails, SelectDone, SelectError, Drained,
                      GiveUp, requests, vars
  <2>4. CASE Exit \/ Kill
    BY <2>1, <2>4 DEF Exit, Kill
  <2> QED BY <2>2, <2>3, <2>4, StepCases
<1> QED BY <1>1, InvariantHolds, PTL DEF Spec, TransactionsSurviveShutdown
-----------------------------------------------------------------------------
(* The refinement of Exchange                                              *)

Told == [r \in Request |-> IF answer[r] = "closed" THEN "failed" ELSE answer[r]]
WritingRoutes == {rt \in Route : \E i \in 1..Len(Program[rt]) :
                    Program[rt][i].op \in {"commit", "store"}}

LEMMA RefineInit == Init => Exch!Init
BY DEF Init, Exch!Init

\* What the mapped answers say of a request that is being served.
LEMMA ServedWhenRunning ==
    ASSUME TypeOK, NEW r \in Request
    PROVE  Exch!Served(r) <=> Running(r)
BY DEF Exch!Served, Running, TypeOK

\* A request at a step that takes effect has not taken it, and asks for one.
LEMMA FirstEffect ==
    ASSUME AllWellFormed, ServerInv, NEW r \in Request, At(r, "commit") \/ At(r, "store")
    PROVE  r \notin effect /\ route[r] \in WritingRoutes
<1> USE DEF ServerInv
<1>1. Running(r) /\ route[r] # Nil /\ pc[r] <= Len(Steps(r))
      /\ Steps(r)[pc[r]].op \in {"commit", "store"}
  BY DEF At, Running
<1>2. ~Done(Steps(r), pc[r])
  BY <1>1, Shape
<1>3. EffectsOf(r)
  BY DEF Effects
<1>4. route[r] \in Route /\ pc[r] \in 1..Len(Program[route[r]])
  BY <1>1, StepsType DEF TypeOK, Steps
<1> QED BY <1>1, <1>2, <1>3, <1>4 DEF EffectsOf, WritingRoutes, Steps

\* A handler that returns tells its client one thing.
LEMMA ReturnTells ==
    ASSUME TypeOK, NEW r \in Request, NEW a \in Answer, Return(r, a)
    PROVE  Told' = [Told EXCEPT ![r] = IF a = "closed" THEN "failed" ELSE a]
BY DEF Return, Told, TypeOK

LEMMA RefineRequest ==
    ASSUME AllWellFormed, ServerInv, NEW r \in Request, RequestStep(r)
    PROVE  Exch!Next \/ UNCHANGED Exch!vars
<1> USE DEF ServerInv
<1>1. CASE \E rt \in Route : Arrive(r, rt)
  <2>1. PICK rt \in Route : Exch!Ask(r, rt)
    BY <1>1 DEF Arrive, Exch!Ask
  <2> QED BY <2>1 DEF Exch!Next
<1>2. CASE Pass(r) \/ Acquire(r) \/ BeginTx(r) \/ RunQuery(r) \/ LockRow(r)
  BY <1>2 DEF Pass, Acquire, BeginTx, RunQuery, LockRow, Exch!vars
<1>3. CASE RunStore(r) \/ CommitTx(r)
  <2>1. At(r, "commit") \/ At(r, "store")
    BY <1>3 DEF RunStore, CommitTx
  <2>2. r \notin effect /\ route[r] \in WritingRoutes /\ Running(r)
    BY <2>1, FirstEffect DEF At
  <2>3. Exch!TakeEffect(r)
    BY <1>3, <2>2, ServedWhenRunning DEF RunStore, CommitTx, Exch!TakeEffect, WritingRoutes
  <2> QED BY <2>3 DEF Exch!Next
<1>4. CASE Refuse(r)
  <2>1. Running(r) /\ route[r] # Nil /\ pc[r] <= Len(Steps(r))
        /\ Steps(r)[pc[r]].op \in {"body", "check", "deny"}
    BY <1>4 DEF Refuse, At, Running
  <2>2. r \notin effect
    <3>1. EffectsOf(r) /\ ~Done(Steps(r), pc[r])
      BY <2>1, Shape DEF Effects
    <3> QED BY <3>1, <2>1 DEF EffectsOf
  <2>3. Told' = [Told EXCEPT ![r] = "refused"] /\ UNCHANGED <<route, effect>>
    BY <1>4, ReturnTells DEF Refuse, Return, Answer
  <2>4. Exch!Refuse(r)
    BY <2>1, <2>2, <2>3, ServedWhenRunning DEF Exch!Refuse, Told
  <2> QED BY <2>4 DEF Exch!Next
<1>5. CASE Fail(r) \/ PoolClosed(r)
  <2>1. Running(r) /\ Told' = [Told EXCEPT ![r] = "failed"] /\ UNCHANGED <<route, effect>>
    BY <1>5, ReturnTells DEF Fail, PoolClosed, Return, Answer, At
  <2>2. Exch!Fail(r)
    BY <2>1, ServedWhenRunning DEF Exch!Fail, Told
  <2> QED BY <2>2 DEF Exch!Next
<1>6. CASE CommitFails(r)
  <2>1. Running(r) /\ route[r] \in WritingRoutes
    BY <1>6, FirstEffect DEF CommitFails, At
  <2>2. Told' = [Told EXCEPT ![r] = "failed"] /\ route' = route /\ effect' = effect \cup {r}
    BY <1>6, ReturnTells DEF CommitFails, Return, Answer
  <2>3. Exch!Fail(r)
    BY <2>1, <2>2, ServedWhenRunning DEF Exch!Fail, Told, WritingRoutes
  <2> QED BY <2>3 DEF Exch!Next
<1>7. CASE Succeed(r)
  <2>1. Running(r) /\ route[r] # Nil /\ pc[r] > Len(Steps(r)) /\ pc[r] \in Nat
    BY <1>7 DEF Succeed, Running, TypeOK
  <2>2. route[r] \in WritingRoutes => r \in effect
    <3>1. route[r] \in WritingRoutes => Done(Steps(r), pc[r])
      <4>1. Len(Steps(r)) \in Nat
        BY <2>1, StepsType
      <4>2. 1..Len(Steps(r)) \subseteq 1..(pc[r] - 1)
        BY <2>1, <4>1
      <4> QED BY <4>2 DEF WritingRoutes, Done, Steps
    <3>2. EffectsOf(r)
      BY DEF Effects
    <3> QED BY <2>1, <3>1, <3>2 DEF EffectsOf
  <2>3. Told' = [Told EXCEPT ![r] = "ok"] /\ UNCHANGED <<route, effect>>
    BY <1>7, ReturnTells DEF Succeed, Return, Answer
  <2>4. Exch!Succeed(r)
    BY <2>1, <2>2, <2>3, ServedWhenRunning DEF Exch!Succeed, Told, WritingRoutes
  <2> QED BY <2>4 DEF Exch!Next
<1> QED BY <1>1, <1>2, <1>3, <1>4, <1>5, <1>6, <1>7 DEF RequestStep

LEMMA RefineDie == ASSUME TypeOK, Die PROVE Exch!Cut
<1>1. \A r \in Request : Exch!Served(r) <=> Running(r)
  BY ServedWhenRunning
<1> QED BY <1>1 DEF Die, Exch!Cut, TypeOK, Running

LEMMA RefineStep ==
    ASSUME AllWellFormed, ServerInv, [Next]_vars
    PROVE  [Exch!Next]_Exch!vars
<1>1. CASE \E r \in Request : RequestStep(r)
  BY <1>1, RefineRequest
<1>2. CASE ProcessStep \/ UNCHANGED vars
  BY <1>2 DEF ProcessStep, Signal, ListenerFails, SelectDone, SelectError, Drained, GiveUp,
              requests, vars, Exch!vars
<1>3. CASE Exit \/ Kill
  BY <1>3, RefineDie DEF ServerInv, Exit, Kill, Exch!Next
<1> QED BY <1>1, <1>2, <1>3, StepCases

\* Over pool, locks, shutdown and kills the API does what Exchange promises a client:
\* no success without its effect, no 4xx with one, and no effect twice.
THEOREM Refinement == ASSUME AllWellFormed PROVE Spec => ImplementsExchange
<1>1. Init => Exch!Init
  BY RefineInit
<1>2. AllWellFormed /\ ServerInv /\ [Next]_vars => [Exch!Next]_Exch!vars
  BY RefineStep
<1> QED BY <1>1, <1>2, InvariantHolds, PTL DEF Spec, ImplementsExchange, Exch!Spec

-----------------------------------------------------------------------------
(* The process of Startup while it serves                                  *)

\* How the process comes to its exit status, whatever the handlers do.
EndInv ==
    /\ phase \in {"serving", "draining", "closing", "exited"}
    /\ status \in {-1, 0, 1, 2}
    /\ phase \in {"serving", "draining"} <=> status = -1
    /\ phase = "closing" => status \in {0, 1}
    /\ phase = "draining" \/ status = 0 => stop

LEMMA RequestsLeaveProcess ==
    ASSUME NEW r \in Request, RequestStep(r) PROVE UNCHANGED process
BY DEF RequestStep, Arrive, Pass, Acquire, BeginTx, RunQuery, RunStore, LockRow, CommitTx,
       Refuse, Fail, CommitFails, PoolClosed, Succeed, Return

LEMMA EndStep == EndInv /\ [Next]_vars => EndInv'
<1> SUFFICES ASSUME EndInv, [Next]_vars PROVE EndInv'
  OBVIOUS
<1>1. CASE UNCHANGED process
  BY <1>1 DEF EndInv, process
<1>2. CASE Signal \/ ListenerFails \/ SelectDone \/ SelectError \/ Drained \/ GiveUp
  BY <1>2 DEF EndInv, Signal, ListenerFails, SelectDone, SelectError, Drained, GiveUp
<1>3. CASE Exit
  BY <1>3 DEF EndInv, Exit, Die
<1>4. CASE Kill
  BY <1>4 DEF EndInv, Kill, Die
<1>5. UNCHANGED vars => UNCHANGED process
  BY DEF vars
<1> QED
  BY <1>1, <1>2, <1>3, <1>4, <1>5, StepCases, RequestsLeaveProcess DEF ProcessStep

\* What Startup sees of a step.
LEMMA SeenByStartup == EndInv /\ [Next]_vars => [Proc!ProcessNext]_(Proc!processVars)
<1> SUFFICES ASSUME EndInv, [Next]_vars PROVE Proc!ProcessNext \/ UNCHANGED Proc!processVars
  OBVIOUS
<1>1. CASE UNCHANGED <<phase, stop, status>>
  BY <1>1 DEF Proc!processVars, Ended, Own
<1>2. CASE Signal
  <2>1. stop = FALSE /\ stop' = TRUE /\ ~Ended /\ ~Ended'
    BY <1>2 DEF EndInv, Signal, Ended
  <2> QED
    BY <2>1 DEF Proc!ProcessNext, Proc!Signal, Own
<1>3. CASE SelectDone \/ SelectError \/ Drained \/ GiveUp \/ Kill
  <2>1. ~Ended /\ ~Ended' /\ UNCHANGED stop
    BY <1>3 DEF EndInv, Ended, SelectDone, SelectError, Drained, GiveUp, Kill, Die
  <2> QED
    BY <2>1 DEF Proc!processVars, Own
<1>4. CASE Exit
  <2>1. ~Ended /\ Ended' /\ UNCHANGED <<stop, status>> /\ status \in {0, 1}
    BY <1>4 DEF EndInv, Ended, Exit, Die
  <2>2. status = 0 => stop
    BY DEF EndInv
  <2>3. Proc!Return(status)
    BY <2>1 DEF Proc!Return
  <2>4. CASE status = 0
    BY <2>1, <2>2, <2>3, <2>4 DEF Proc!ProcessNext, Proc!Step, Proc!ServeStops, Own
  <2>5. CASE status = 1
    BY <2>1, <2>3, <2>5 DEF Proc!ProcessNext, Proc!ListenerFails, Own
  <2> QED
    BY <2>1, <2>4, <2>5
<1>5. CASE ListenerFails
  BY <1>1, <1>5 DEF ListenerFails
<1>6. UNCHANGED vars \/ UNCHANGED process => UNCHANGED <<phase, stop, status>>
  BY DEF vars, process
<1> QED
  BY <1>1, <1>2, <1>3, <1>4, <1>5, <1>6, StepCases, RequestsLeaveProcess DEF ProcessStep

\* Server is the serving of Startup: with requests, pool and shutdown in it, the process
\* still ends only as Startup says (Serve, then the deferred Close of runAPI).
THEOREM ServesAsStartup == Spec => EndsAsStartup
<1>1. Init => EndInv
  BY DEF Init, EndInv
<1> QED BY <1>1, EndStep, SeenByStartup, PTL DEF Spec, EndsAsStartup

-----------------------------------------------------------------------------
(* The handlers of the code                                                *)

\* The constants of Server are the table of Handlers.
ThisCode ==
    /\ Row = DOMAIN LockLevel /\ Level = LockLevel
    /\ Route \subseteq AllRoutes
    /\ Program = [rt \in Route |-> Handler(rt[1], rt[2])]

Asking == {"body", "check", "deny", "query"}

\* Three forms of a handler: no transaction and no effect; one statement on the pool that
\* takes effect, at the end; one transaction.
Plain(p) == \A i \in 1..Len(p) : p[i].op \in Asking
OneStore(p) == \E s \in 1..Len(p) :
    /\ s = Len(p) /\ p[s].op = "store"
    /\ \A i \in 1..(s - 1) : p[i].op \in Asking
TxBody(p, b, e) == \A i \in (b + 1)..(e - 1) :
    /\ p[i].op \in {"check", "lock"}
    /\ p[i].op = "lock" => p[i].row \in Row
    /\ \A j \in (b + 1)..(i - 1) :
         p[i].op = "lock" /\ p[j].op = "lock" => Level[p[j].row] < Level[p[i].row]
OneTx(p, b, e) ==
    /\ b < e /\ p[b].op = "begin" /\ p[e].op = "commit"
    /\ \A i \in 1..(b - 1) : p[i].op \in Asking
    /\ TxBody(p, b, e)
    /\ \A i \in (e + 1)..Len(p) : p[i].op = "query"
Form(p) == Plain(p) \/ OneStore(p) \/ \E b, e \in 1..Len(p) : OneTx(p, b, e)

LEMMA PlainIsWellFormed == ASSUME NEW p, Len(p) \in Nat, Plain(p) PROVE WellFormed(p)
<1>1. ASSUME NEW i \in 1..Len(p) PROVE ~InTx(p, i) /\ ~Done(p, i)
  BY DEF Plain, Asking, InTx, Done
<1> QED BY <1>1 DEF WellFormed, Plain, Asking

LEMMA OneStoreIsWellFormed == ASSUME NEW p, Len(p) \in Nat, OneStore(p) PROVE WellFormed(p)
<1>1. PICK s \in 1..Len(p) : /\ s = Len(p) /\ p[s].op = "store"
                             /\ \A i \in 1..(s - 1) : p[i].op \in Asking
  BY DEF OneStore
<1>2. ASSUME NEW i \in 1..Len(p)
      PROVE  ~InTx(p, i) /\ ~Done(p, i) /\ p[i].op \notin {"lock", "commit"}
  <2>1. \A k \in 1..(i - 1) : k \in 1..(s - 1)
    BY <1>1
  <2>2. i = s \/ i \in 1..(s - 1)
    BY <1>1
  <2> QED BY <1>1, <2>1, <2>2 DEF Asking, InTx, Done
<1> QED BY <1>2 DEF WellFormed

LEMMA OneTxIsWellFormed ==
    ASSUME NEW p, Len(p) \in Nat, NEW b \in 1..Len(p), NEW e \in 1..Len(p), OneTx(p, b, e)
    PROVE  WellFormed(p)
<1>1. ASSUME NEW i \in 1..Len(p)
      PROVE  /\ i <= b => p[i].op \notin {"lock", "commit", "store"} /\ (i < b => p[i].op # "begin")
             /\ b < i /\ i < e => p[i].op \in {"check", "lock"} /\ (p[i].op = "lock" => p[i].row \in Row)
             /\ i > e => p[i].op = "query"
  <2>1. i < b => i \in 1..(b - 1)
    OBVIOUS
  <2>2. b < i /\ i < e => i \in (b + 1)..(e - 1)
    OBVIOUS
  <2>3. i > e => i \in (e + 1)..Len(p)
    OBVIOUS
  <2> QED BY <2>1, <2>2, <2>3 DEF OneTx, TxBody, Asking
<1>2. ASSUME NEW i \in 1..Len(p) PROVE InTx(p, i) <=> b < i /\ i <= e
  <2>1. ASSUME InTx(p, i) PROVE b < i /\ i <= e
    <3>1. PICK c \in 1..(i - 1) : p[c].op = "begin" /\ \A k \in (c + 1)..(i - 1) : p[k].op # "commit"
      BY <2>1 DEF InTx
    <3>2. c \in 1..Len(p)
      OBVIOUS
    <3>3. c = b
      BY <3>1, <3>2, <1>1 DEF OneTx
    <3>4. ~(e \in (c + 1)..(i - 1))
      BY <3>1 DEF OneTx
    <3> QED BY <3>3, <3>4 DEF OneTx
  <2>2. ASSUME b < i, i <= e PROVE InTx(p, i)
    <3>1. b \in 1..(i - 1) /\ p[b].op = "begin"
      BY <2>2 DEF OneTx
    <3>2. ASSUME NEW k \in (b + 1)..(i - 1) PROVE p[k].op # "commit"
      <4>1. k \in 1..Len(p) /\ b < k /\ k < e
        BY <2>2
      <4> QED BY <4>1, <1>1
    <3> QED BY <3>1, <3>2 DEF InTx
  <2> QED BY <2>1, <2>2
<1>3. ASSUME NEW i \in 1..Len(p), Done(p, i) PROVE i > e
  <2>1. PICK k \in 1..(i - 1) : p[k].op \in {"commit", "store"}
    BY <1>3 DEF Done
  <2>2. k \in 1..Len(p) /\ k < i
    OBVIOUS
  <2> QED BY <2>1, <2>2, <1>1
<1>4. ASSUME NEW i \in 1..Len(p), NEW j \in 1..(i - 1), p[i].op = "lock", p[j].op = "lock"
      PROVE  Level[p[j].row] < Level[p[i].row]
  <2>1. j \in 1..Len(p)
    OBVIOUS
  <2>2. b < i /\ i < e /\ b < j /\ j < e
    BY <1>1, <1>4, <2>1 DEF OneTx
  <2>3. i \in (b + 1)..(e - 1) /\ j \in (b + 1)..(i - 1)
    BY <2>2
  <2> QED BY <1>4, <2>3 DEF OneTx, TxBody
<1>5. ASSUME NEW i \in 1..Len(p)
      PROVE  /\ InTx(p, i) => p[i].op \in {"check", "lock", "commit"}
             /\ p[i].op \in {"lock", "commit"} => InTx(p, i)
             /\ p[i].op = "lock" => p[i].row \in Row
  <2>1. CASE i <= b
    BY <2>1, <1>1, <1>2
  <2>2. CASE b < i /\ i < e
    BY <2>2, <1>1, <1>2
  <2>3. CASE i = e
    BY <2>3, <1>2 DEF OneTx
  <2>4. CASE i > e
    BY <2>4, <1>1, <1>2
  <2> QED BY <2>1, <2>2, <2>3, <2>4
<1>6. ASSUME NEW i \in 1..Len(p), Done(p, i) PROVE p[i].op = "query"
  BY <1>6, <1>1, <1>3
<1> QED BY <1>4, <1>5, <1>6 DEF WellFormed

LEMMA FormIsWellFormed == ASSUME NEW p, Len(p) \in Nat, Form(p) PROVE WellFormed(p)
BY PlainIsWellFormed, OneStoreIsWellFormed, OneTxIsWellFormed DEF Form

LEMMA PlainThenPlain ==
    ASSUME NEW p \in Seq(Step), NEW q \in Seq(Step), Plain(p), Plain(q)
    PROVE  p \o q \in Seq(Step) /\ Plain(p \o q)
BY DEF Plain

\* Authentication and the body of the client come before the service.
LEMMA PlainThenForm ==
    ASSUME NEW p \in Seq(Step), NEW q \in Seq(Step), Plain(p), Form(q)
    PROVE  p \o q \in Seq(Step) /\ Form(p \o q)
<1> DEFINE n == Len(p)
           s == p \o q
<1>1. /\ s \in Seq(Step) /\ n \in Nat /\ Len(s) = n + Len(q) /\ Len(q) \in Nat
      /\ \A i \in 1..n : s[i] = p[i]
      /\ \A i \in 1..Len(q) : s[n + i] = q[i]
  OBVIOUS
<1> SUFFICES Form(s)
  BY <1>1
<1> HIDE DEF s, n
<1>2. \A i \in 1..n : s[i].op \in Asking
  BY <1>1 DEF Plain, n
<1>3. \A i \in (n + 1)..Len(s) : i - n \in 1..Len(q) /\ s[i] = q[i - n]
  <2> TAKE i \in (n + 1)..Len(s)
  <2>1. i - n \in 1..Len(q) /\ n + (i - n) = i
    BY <1>1
  <2> QED BY <1>1, <2>1
<1>4. CASE Plain(q)
  <2>1. ASSUME NEW i \in 1..Len(s) PROVE s[i].op \in Asking
    <3>1. CASE i <= n
      BY <3>1, <1>1, <1>2
    <3>2. CASE i > n
      <4>1. i \in (n + 1)..Len(s)
        BY <3>2, <1>1
      <4> QED BY <4>1, <1>3, <1>4 DEF Plain
    <3> QED BY <3>1, <3>2, <1>1
  <2> QED BY <1>1, <2>1 DEF Form, Plain
<1>5. CASE OneStore(q)
  <2>1. PICK t \in 1..Len(q) : /\ t = Len(q) /\ q[t].op = "store"
                               /\ \A i \in 1..(t - 1) : q[i].op \in Asking
    BY <1>5 DEF OneStore
  <2>2. n + t \in 1..Len(s) /\ n + t = Len(s) /\ s[n + t].op = "store"
    BY <1>1, <2>1
  <2>3. ASSUME NEW i \in 1..((n + t) - 1) PROVE s[i].op \in Asking
    <3>1. CASE i <= n
      BY <3>1, <1>1, <1>2
    <3>2. CASE i > n
      <4>1. i \in (n + 1)..Len(s) /\ i - n \in 1..(t - 1)
        BY <3>2, <1>1, <2>1
      <4> QED BY <4>1, <1>3, <2>1
    <3> QED BY <3>1, <3>2, <1>1
  <2> QED BY <1>1, <2>2, <2>3 DEF Form, OneStore
<1>6. CASE \E b, e \in 1..Len(q) : OneTx(q, b, e)
  <2>1. PICK b \in 1..Len(q), e \in 1..Len(q) : OneTx(q, b, e)
    BY <1>6
  <2>2. n + b \in 1..Len(s) /\ n + e \in 1..Len(s) /\ n + b < n + e
    BY <1>1, <2>1 DEF OneTx
  <2>3. s[n + b].op = "begin" /\ s[n + e].op = "commit"
    BY <1>1, <2>1 DEF OneTx
  <2>4. ASSUME NEW i \in 1..((n + b) - 1) PROVE s[i].op \in Asking
    <3>1. CASE i <= n
      BY <3>1, <1>1, <1>2
    <3>2. CASE i > n
      <4>1. i \in (n + 1)..Len(s) /\ i - n \in 1..(b - 1)
        BY <3>2, <1>1
      <4> QED BY <4>1, <1>3, <2>1 DEF OneTx
    <3> QED BY <3>1, <3>2, <1>1
  <2>5. TxBody(s, n + b, n + e)
    <3>1. ASSUME NEW i \in (n + b + 1)..((n + e) - 1)
          PROVE  i - n \in (b + 1)..(e - 1) /\ s[i] = q[i - n]
      <4>1. i \in (n + 1)..Len(s) /\ i - n \in (b + 1)..(e - 1)
        BY <1>1, <2>2
      <4> QED BY <4>1, <1>3
    <3>2. ASSUME NEW i \in (n + b + 1)..((n + e) - 1), NEW j \in (n + b + 1)..(i - 1),
                 s[i].op = "lock", s[j].op = "lock"
          PROVE  Level[s[j].row] < Level[s[i].row]
      <4>1. j \in (n + b + 1)..((n + e) - 1) /\ j - n \in (b + 1)..((i - n) - 1)
        BY <1>1
      <4>2. s[i] = q[i - n] /\ s[j] = q[j - n] /\ i - n \in (b + 1)..(e - 1)
        BY <4>1, <3>1
      <4> QED BY <3>2, <4>1, <4>2, <2>1 DEF OneTx, TxBody
    <3>3. ASSUME NEW i \in (n + b + 1)..((n + e) - 1)
          PROVE  s[i].op \in {"check", "lock"} /\ (s[i].op = "lock" => s[i].row \in Row)
      BY <3>1, <2>1 DEF OneTx, TxBody
    <3>4. ASSUME NEW i \in (n + b + 1)..((n + e) - 1)
          PROVE  /\ s[i].op \in {"check", "lock"} /\ (s[i].op = "lock" => s[i].row \in Row)
                 /\ \A j \in (n + b + 1)..(i - 1) :
                      s[i].op = "lock" /\ s[j].op = "lock" => Level[s[j].row] < Level[s[i].row]
      BY <3>2, <3>3
    <3> QED BY <3>4 DEF TxBody
  <2>6. ASSUME NEW i \in (n + e + 1)..Len(s) PROVE s[i].op = "query"
    <3>1. i \in (n + 1)..Len(s) /\ i - n \in (e + 1)..Len(q)
      BY <1>1
    <3> QED BY <3>1, <1>3, <2>1 DEF OneTx
  <2>7. OneTx(s, n + b, n + e)
    BY <2>2, <2>3, <2>4, <2>5, <2>6 DEF OneTx
  <2> QED BY <1>1, <2>2, <2>7 DEF Form
<1> QED BY <1>4, <1>5, <1>6 DEF Form

LEMMA StepsOfCode ==
    ASSUME ThisCode
    PROVE  /\ Body \in Step /\ Check \in Step /\ Deny \in Step /\ Query \in Step /\ Store \in Step
           /\ Begin \in Step /\ Commit \in Step
           /\ \A row \in Row : Touch(row) \in Step /\ Lock(row) \in Step
BY DEF Body, Check, Deny, Query, Store, Begin, Commit, Touch, Lock, None, Step, Op

LEMMA RowsOfCode ==
    ASSUME ThisCode
    PROVE  /\ {"email", "slug", "refresh_token", "totp", "user", "membership", "api_key",
               "credential_id", "registration", "credential", "login"} \subseteq Row
           /\ Level["email"] < Level["slug"]
           /\ Level["credential_id"] < Level["registration"]
           /\ Level["credential"] < Level["login"]
BY DEF ThisCode, LockLevel

LEMMA OpsOfCode ==
    /\ Body.op = "body" /\ Check.op = "check" /\ Deny.op = "deny" /\ Query.op = "query"
    /\ Store.op = "store" /\ Begin.op = "begin" /\ Commit.op = "commit"
    /\ \A row : Touch(row).op = "query" /\ Lock(row).op = "lock" /\ Lock(row).row = row
BY DEF Body, Check, Deny, Query, Store, Begin, Commit, Touch, Lock

LEMMA RegisterForm == ASSUME ThisCode PROVE Register \in Seq(Step) /\ Form(Register)
<1>1. Register \in Seq(Step)
  BY StepsOfCode, RowsOfCode DEF Register
<1>2. OneTx(Register, 2, 7)
  BY OpsOfCode, RowsOfCode DEF Register, OneTx, TxBody, Asking
<1>3. 2 \in 1..Len(Register) /\ 7 \in 1..Len(Register)
  BY DEF Register
<1> QED BY <1>1, <1>2, <1>3 DEF Form

LEMMA LoginForm == ASSUME ThisCode PROVE Login \in Seq(Step) /\ Form(Login)
<1>1. Login \in Seq(Step)
  BY StepsOfCode, RowsOfCode DEF Login
<1>2. OneTx(Login, 7, 8)
  BY OpsOfCode, RowsOfCode DEF Login, OneTx, TxBody, Asking
<1>3. 7 \in 1..Len(Login) /\ 8 \in 1..Len(Login)
  BY DEF Login
<1> QED BY <1>1, <1>2, <1>3 DEF Form

LEMMA RefreshForm == ASSUME ThisCode PROVE Refresh \in Seq(Step) /\ Form(Refresh)
<1>1. Refresh \in Seq(Step)
  BY StepsOfCode, RowsOfCode DEF Refresh
<1>2. OneTx(Refresh, 2, 6)
  BY OpsOfCode, RowsOfCode DEF Refresh, OneTx, TxBody, Asking
<1>3. 2 \in 1..Len(Refresh) /\ 6 \in 1..Len(Refresh)
  BY DEF Refresh
<1> QED BY <1>1, <1>2, <1>3 DEF Form

LEMMA SetupTOTPForm == ASSUME ThisCode PROVE SetupTOTP \in Seq(Step) /\ Form(SetupTOTP)
<1>1. SetupTOTP \in Seq(Step)
  BY StepsOfCode, RowsOfCode DEF SetupTOTP
<1>2. OneTx(SetupTOTP, 1, 3)
  BY OpsOfCode, RowsOfCode DEF SetupTOTP, OneTx, TxBody, Asking
<1>3. 1 \in 1..Len(SetupTOTP) /\ 3 \in 1..Len(SetupTOTP)
  BY DEF SetupTOTP
<1> QED BY <1>1, <1>2, <1>3 DEF Form

LEMMA EnableTOTPForm == ASSUME ThisCode PROVE EnableTOTP \in Seq(Step) /\ Form(EnableTOTP)
<1>1. EnableTOTP \in Seq(Step)
  BY StepsOfCode, RowsOfCode DEF EnableTOTP
<1>2. OneTx(EnableTOTP, 3, 5)
  BY OpsOfCode, RowsOfCode DEF EnableTOTP, OneTx, TxBody, Asking
<1>3. 3 \in 1..Len(EnableTOTP) /\ 5 \in 1..Len(EnableTOTP)
  BY DEF EnableTOTP
<1> QED BY <1>1, <1>2, <1>3 DEF Form

LEMMA DisableTOTPForm == ASSUME ThisCode PROVE DisableTOTP \in Seq(Step) /\ Form(DisableTOTP)
<1>1. DisableTOTP \in Seq(Step)
  BY StepsOfCode, RowsOfCode DEF DisableTOTP
<1>2. OneTx(DisableTOTP, 3, 5)
  BY OpsOfCode, RowsOfCode DEF DisableTOTP, OneTx, TxBody, Asking
<1>3. 3 \in 1..Len(DisableTOTP) /\ 5 \in 1..Len(DisableTOTP)
  BY DEF DisableTOTP
<1> QED BY <1>1, <1>2, <1>3 DEF Form

LEMMA AddMembershipForm == ASSUME ThisCode PROVE AddMembership \in Seq(Step) /\ Form(AddMembership)
<1>1. AddMembership \in Seq(Step)
  BY StepsOfCode, RowsOfCode DEF AddMembership
<1>2. OneTx(AddMembership, 5, 8)
  BY OpsOfCode, RowsOfCode DEF AddMembership, OneTx, TxBody, Asking
<1>3. 5 \in 1..Len(AddMembership) /\ 8 \in 1..Len(AddMembership)
  BY DEF AddMembership
<1> QED BY <1>1, <1>2, <1>3 DEF Form

LEMMA UpdateMembershipForm == ASSUME ThisCode PROVE UpdateMembership \in Seq(Step) /\ Form(UpdateMembership)
<1>1. UpdateMembership \in Seq(Step)
  BY StepsOfCode, RowsOfCode DEF UpdateMembership
<1>2. OneTx(UpdateMembership, 3, 6)
  BY OpsOfCode, RowsOfCode DEF UpdateMembership, OneTx, TxBody, Asking
<1>3. 3 \in 1..Len(UpdateMembership) /\ 6 \in 1..Len(UpdateMembership)
  BY DEF UpdateMembership
<1> QED BY <1>1, <1>2, <1>3 DEF Form

LEMMA CreateAPIKeyForm == ASSUME ThisCode PROVE CreateAPIKey \in Seq(Step) /\ Form(CreateAPIKey)
<1>1. CreateAPIKey \in Seq(Step)
  BY StepsOfCode, RowsOfCode DEF CreateAPIKey
<1>2. OneTx(CreateAPIKey, 3, 4)
  BY OpsOfCode, RowsOfCode DEF CreateAPIKey, OneTx, TxBody, Asking
<1>3. 3 \in 1..Len(CreateAPIKey) /\ 4 \in 1..Len(CreateAPIKey)
  BY DEF CreateAPIKey
<1> QED BY <1>1, <1>2, <1>3 DEF Form

LEMMA RevokeAPIKeyForm == ASSUME ThisCode PROVE RevokeAPIKey \in Seq(Step) /\ Form(RevokeAPIKey)
<1>1. RevokeAPIKey \in Seq(Step)
  BY StepsOfCode, RowsOfCode DEF RevokeAPIKey
<1>2. OneTx(RevokeAPIKey, 3, 6)
  BY OpsOfCode, RowsOfCode DEF RevokeAPIKey, OneTx, TxBody, Asking
<1>3. 3 \in 1..Len(RevokeAPIKey) /\ 6 \in 1..Len(RevokeAPIKey)
  BY DEF RevokeAPIKey
<1> QED BY <1>1, <1>2, <1>3 DEF Form

LEMMA BeginWebAuthnRegistrationForm == ASSUME ThisCode PROVE BeginWebAuthnRegistration \in Seq(Step) /\ Form(BeginWebAuthnRegistration)
<1>1. BeginWebAuthnRegistration \in Seq(Step)
  BY StepsOfCode, RowsOfCode DEF BeginWebAuthnRegistration
<1>2. OneTx(BeginWebAuthnRegistration, 1, 4)
  BY OpsOfCode, RowsOfCode DEF BeginWebAuthnRegistration, OneTx, TxBody, Asking
<1>3. 1 \in 1..Len(BeginWebAuthnRegistration) /\ 4 \in 1..Len(BeginWebAuthnRegistration)
  BY DEF BeginWebAuthnRegistration
<1> QED BY <1>1, <1>2, <1>3 DEF Form

LEMMA FinishWebAuthnRegistrationForm == ASSUME ThisCode PROVE FinishWebAuthnRegistration \in Seq(Step) /\ Form(FinishWebAuthnRegistration)
<1>1. FinishWebAuthnRegistration \in Seq(Step)
  BY StepsOfCode, RowsOfCode DEF FinishWebAuthnRegistration
<1>2. OneTx(FinishWebAuthnRegistration, 2, 7)
  BY OpsOfCode, RowsOfCode DEF FinishWebAuthnRegistration, OneTx, TxBody, Asking
<1>3. 2 \in 1..Len(FinishWebAuthnRegistration) /\ 7 \in 1..Len(FinishWebAuthnRegistration)
  BY DEF FinishWebAuthnRegistration
<1> QED BY <1>1, <1>2, <1>3 DEF Form

LEMMA FinishWebAuthnLoginForm == ASSUME ThisCode PROVE FinishWebAuthnLogin \in Seq(Step) /\ Form(FinishWebAuthnLogin)
<1>1. FinishWebAuthnLogin \in Seq(Step)
  BY StepsOfCode, RowsOfCode DEF FinishWebAuthnLogin
<1>2. OneTx(FinishWebAuthnLogin, 2, 6)
  BY OpsOfCode, RowsOfCode DEF FinishWebAuthnLogin, OneTx, TxBody, Asking
<1>3. 2 \in 1..Len(FinishWebAuthnLogin) /\ 6 \in 1..Len(FinishWebAuthnLogin)
  BY DEF FinishWebAuthnLogin
<1> QED BY <1>1, <1>2, <1>3 DEF Form

LEMMA PlainMethods ==
    ASSUME ThisCode
    PROVE  \A p \in {AuthenticateAccessToken, AuthenticateAPIKey, ListOrganizations,
                     GetOrganization, ListAPIKeys, ListAuditLogs, <<Body>>, <<Query>>, <<Check>>,
                     <<Deny>>} :
             p \in Seq(Step) /\ Plain(p)
<1>1. AuthenticateAccessToken \in Seq(Step) /\ Plain(AuthenticateAccessToken)
  BY StepsOfCode, RowsOfCode, OpsOfCode DEF AuthenticateAccessToken, Plain, Asking
<1>2. AuthenticateAPIKey \in Seq(Step) /\ Plain(AuthenticateAPIKey)
  BY StepsOfCode, RowsOfCode, OpsOfCode DEF AuthenticateAPIKey, Plain, Asking
<1>3. ListOrganizations \in Seq(Step) /\ Plain(ListOrganizations)
  BY StepsOfCode, RowsOfCode, OpsOfCode DEF ListOrganizations, Plain, Asking
<1>4. GetOrganization \in Seq(Step) /\ Plain(GetOrganization)
  BY StepsOfCode, RowsOfCode, OpsOfCode DEF GetOrganization, Plain, Asking
<1>5. ListAPIKeys \in Seq(Step) /\ Plain(ListAPIKeys)
  BY StepsOfCode, RowsOfCode, OpsOfCode DEF ListAPIKeys, Plain, Asking
<1>6. ListAuditLogs \in Seq(Step) /\ Plain(ListAuditLogs)
  BY StepsOfCode, RowsOfCode, OpsOfCode DEF ListAuditLogs, Plain, Asking
<1>7. \A x \in {Body, Query, Check, Deny} : <<x>> \in Seq(Step) /\ Plain(<<x>>)
  BY StepsOfCode, OpsOfCode DEF Plain, Asking
<1> QED BY <1>1, <1>2, <1>3, <1>4, <1>5, <1>6, <1>7

\* However many members the organization has.
LEMMA ListMembershipsPlain ==
    ASSUME ThisCode PROVE ListMemberships \in Seq(Step) /\ Plain(ListMemberships)
<1> DEFINE head == <<Query, Check, Query>>
           each == [i \in 1..Members |-> Query]
<1>1. head \in Seq(Step) /\ Plain(head)
  BY StepsOfCode, OpsOfCode DEF Plain, Asking
<1>2. each \in Seq(Step) /\ Len(each) = Members
  BY StepsOfCode, HandlersAssumption
<1>3. Plain(each)
  BY <1>2, OpsOfCode DEF Plain, Asking
<1> HIDE DEF head, each
<1>4. head \o each \in Seq(Step) /\ Plain(head \o each)
  BY <1>1, <1>2, <1>3, PlainThenPlain
<1> QED BY <1>4 DEF ListMemberships, head, each

LEMMA BeginWebAuthnLoginForm ==
    ASSUME ThisCode PROVE BeginWebAuthnLogin \in Seq(Step) /\ Form(BeginWebAuthnLogin)
<1>1. BeginWebAuthnLogin \in Seq(Step)
  BY StepsOfCode, RowsOfCode DEF BeginWebAuthnLogin
<1>2. 7 \in 1..Len(BeginWebAuthnLogin) /\ 7 = Len(BeginWebAuthnLogin)
  BY DEF BeginWebAuthnLogin
<1>3. OneStore(BeginWebAuthnLogin)
  BY <1>2, OpsOfCode DEF BeginWebAuthnLogin, OneStore, Asking
<1> QED BY <1>1, <1>3 DEF Form

LEMMA AuthenticatePlain ==
    ASSUME ThisCode, NEW cred
    PROVE  \A p \in {authenticatePrincipal(cred), authenticateUser(cred)} :
             p \in Seq(Step) /\ Plain(p)
<1>1. AuthenticateAPIKey \o <<Deny>> \in Seq(Step) /\ Plain(AuthenticateAPIKey \o <<Deny>>)
  BY PlainMethods, PlainThenPlain
<1> QED BY <1>1, PlainMethods DEF authenticatePrincipal, authenticateUser

\* A service method behind the body of the client, a credential, or both.
LEMMA Behind ==
    ASSUME ThisCode, NEW cred, NEW q \in Seq(Step), Form(q)
    PROVE  \A p \in {q, <<Body>> \o q, <<Check>> \o q, authenticateUser(cred) \o q,
                     authenticateUser(cred) \o <<Body>> \o q, authenticatePrincipal(cred) \o q,
                     authenticatePrincipal(cred) \o <<Body>> \o q} :
             p \in Seq(Step) /\ Form(p)
<1> DEFINE user == authenticateUser(cred)
           principal == authenticatePrincipal(cred)
<1>1. /\ user \in Seq(Step) /\ Plain(user) /\ principal \in Seq(Step) /\ Plain(principal)
      /\ <<Body>> \in Seq(Step) /\ Plain(<<Body>>) /\ <<Check>> \in Seq(Step) /\ Plain(<<Check>>)
  BY AuthenticatePlain, PlainMethods
<1> HIDE DEF user, principal
<1>2. /\ <<Body>> \o q \in Seq(Step) /\ Form(<<Body>> \o q)
      /\ <<Check>> \o q \in Seq(Step) /\ Form(<<Check>> \o q)
      /\ user \o q \in Seq(Step) /\ Form(user \o q)
      /\ principal \o q \in Seq(Step) /\ Form(principal \o q)
  BY <1>1, PlainThenForm
<1>3. /\ user \o <<Body>> \in Seq(Step) /\ Plain(user \o <<Body>>)
      /\ principal \o <<Body>> \in Seq(Step) /\ Plain(principal \o <<Body>>)
  BY <1>1, PlainThenPlain
<1>4. /\ user \o <<Body>> \o q \in Seq(Step) /\ Form(user \o <<Body>> \o q)
      /\ principal \o <<Body>> \o q \in Seq(Step) /\ Form(principal \o <<Body>> \o q)
  BY <1>3, PlainThenForm
<1> QED BY <1>2, <1>4 DEF user, principal

LEMMA PlainIsForm == ASSUME NEW p, Plain(p) PROVE Form(p)
BY DEF Form

\* Every entry of the table.
LEMMA OpenForms ==
    ASSUME ThisCode, NEW name \in OpenRoutes, NEW cred
    PROVE  Handler(name, cred) \in Seq(Step) /\ Form(Handler(name, cred))
<1>1. CASE name = "register"
  BY <1>1, RegisterForm, Behind DEF Handler, handleRegister
<1>2. CASE name = "login"
  BY <1>2, LoginForm, Behind DEF Handler, handleLogin
<1>3. CASE name = "refresh"
  BY <1>3, RefreshForm, Behind DEF Handler, handleRefresh
<1>4. CASE name = "me"
  BY <1>4, PlainMethods, PlainThenPlain, PlainIsForm DEF Handler, handleMe, Me
<1>5. CASE name = "passkey.begin"
  BY <1>5, BeginWebAuthnLoginForm, Behind DEF Handler, handleWebAuthnLoginBegin
<1>6. CASE name = "passkey.finish"
  BY <1>6, FinishWebAuthnLoginForm, Behind DEF Handler, handleWebAuthnLoginFinish
<1> QED BY <1>1, <1>2, <1>3, <1>4, <1>5, <1>6 DEF OpenRoutes

LEMMA UserForms ==
    ASSUME ThisCode, NEW name \in UserRoutes, NEW cred
    PROVE  Handler(name, cred) \in Seq(Step) /\ Form(Handler(name, cred))
<1>1. CASE name = "totp.setup"
  BY <1>1, SetupTOTPForm, Behind DEF Handler, handleTOTPSetup
<1>2. CASE name = "totp.enable"
  BY <1>2, EnableTOTPForm, Behind DEF Handler, handleTOTPEnable
<1>3. CASE name = "totp.disable"
  BY <1>3, DisableTOTPForm, Behind DEF Handler, handleTOTPDisable
<1>4. CASE name = "passkey.register.begin"
  BY <1>4, BeginWebAuthnRegistrationForm, Behind DEF Handler, handleWebAuthnRegisterBegin
<1>5. CASE name = "passkey.register.finish"
  BY <1>5, FinishWebAuthnRegistrationForm, Behind DEF Handler, handleWebAuthnRegisterFinish
<1> QED BY <1>1, <1>2, <1>3, <1>4, <1>5 DEF UserRoutes

LEMMA PrincipalForms ==
    ASSUME ThisCode, NEW name \in PrincipalRoutes, NEW cred
    PROVE  Handler(name, cred) \in Seq(Step) /\ Form(Handler(name, cred))
<1>1. CASE name = "organizations"
  BY <1>1, PlainMethods, PlainIsForm, Behind DEF Handler, handleOrganizations
<1>2. CASE name = "organization"
  BY <1>2, PlainMethods, PlainIsForm, Behind DEF Handler, handleOrganization
<1>3. CASE name = "members"
  BY <1>3, ListMembershipsPlain, PlainIsForm, Behind DEF Handler, handleListMemberships
<1>4. CASE name = "members.add"
  BY <1>4, AddMembershipForm, Behind DEF Handler, handleCreateMembership
<1>5. CASE name = "members.update"
  BY <1>5, UpdateMembershipForm, Behind DEF Handler, handleUpdateMembership
<1>6. CASE name = "keys"
  BY <1>6, PlainMethods, PlainIsForm, Behind DEF Handler, handleListAPIKeys
<1>7. CASE name = "keys.create"
  BY <1>7, CreateAPIKeyForm, Behind DEF Handler, handleCreateAPIKey
<1>8. CASE name = "keys.revoke"
  BY <1>8, RevokeAPIKeyForm, Behind DEF Handler, handleRevokeAPIKey
<1>9. CASE name = "audit"
  <2>1. <<Check>> \in Seq(Step) /\ Plain(<<Check>>) /\ authenticatePrincipal(cred) \in Seq(Step)
        /\ Plain(authenticatePrincipal(cred)) /\ ListAuditLogs \in Seq(Step) /\ Plain(ListAuditLogs)
    BY PlainMethods, AuthenticatePlain
  <2>2. /\ authenticatePrincipal(cred) \o <<Check>> \in Seq(Step)
        /\ Plain(authenticatePrincipal(cred) \o <<Check>>)
    BY <2>1, PlainThenPlain
  <2>3. /\ authenticatePrincipal(cred) \o <<Check>> \o ListAuditLogs \in Seq(Step)
        /\ Plain(authenticatePrincipal(cred) \o <<Check>> \o ListAuditLogs)
    BY <2>1, <2>2, PlainThenPlain
  <2> QED BY <1>9, <2>3, PlainIsForm DEF Handler, handleListAuditLogs
<1> QED BY <1>1, <1>2, <1>3, <1>4, <1>5, <1>6, <1>7, <1>8, <1>9 DEF PrincipalRoutes

\* Every handler of this code, behind either credential and however many members an
\* organization has, keeps its transaction to itself: nothing is asked of the pool or of the
\* client inside it, rows are locked in one order, nothing is refused behind the effect
\* (NewHandler and the methods of service.go and webauthn.go).
THEOREM HandlersAreWellFormed == ThisCode => AllWellFormed /\ Program \in [Route -> Seq(Step)]
<1> SUFFICES ASSUME ThisCode, NEW rt \in Route
             PROVE  Program[rt] \in Seq(Step) /\ WellFormed(Program[rt])
  BY DEF AllWellFormed, ThisCode
<1>1. Program[rt] = Handler(rt[1], rt[2])
      /\ rt[1] \in OpenRoutes \cup UserRoutes \cup PrincipalRoutes
  BY DEF ThisCode, AllRoutes
<1>2. Program[rt] \in Seq(Step) /\ Form(Program[rt])
  BY <1>1, OpenForms, UserForms, PrincipalForms
<1>3. Len(Program[rt]) \in Nat
  BY <1>2
<1> QED BY <1>2, <1>3, FormIsWellFormed

\* The server of this code, with any number of requests and connections: it never wedges, its
\* exit status is true, only a kill cuts a transaction, and answers tell the truth.
THEOREM ThisServerIsSound ==
    ThisCode => /\ Spec => []NeverWedged
                /\ Spec => []ExitTellsTruth
                /\ Spec => TransactionsSurviveShutdown
                /\ Spec => ImplementsExchange
BY HandlersAreWellFormed, PoolNeverWedges, ExitStatusTrue, TransactionsSurvive, Refinement

==============================================================================
