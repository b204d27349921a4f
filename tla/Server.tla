------------------------------- MODULE Server -------------------------------
(***************************************************************************)
(* The process that serves the HTTP API: requests that run the programs of *)
(* their handlers over a pool of database connections, and the life of the *)
(* process around them: Serve in internal/httpapi/server.go, runAPI in     *)
(* internal/app/app.go, Begin, Commit and Rollback in                      *)
(* internal/auth/repository.go.                                            *)
(*                                                                         *)
(* The programs are a constant: what is shown holds for every table of     *)
(* handlers that is WellFormed, and Handlers.tla gives the one of the code.*)
(***************************************************************************)
EXTENDS Integers, Sequences

CONSTANTS
    Request,    \* requests; each is asked at most once
    Route,      \* the routes of the API
    Program,    \* Program[route]: the steps of its handler
    Row,        \* what a transaction can lock
    Level,      \* Level[row]: the order in which one transaction locks
    Conn,       \* the connections of the pool
    Nil

Op == {"body", "check", "deny", "query", "store", "begin", "lock", "commit"}
Step == [op : Op, row : Row \cup {"-"}]

ASSUME ServerAssumption ==
    /\ Nil \notin Request \cup Route \cup (Request \X {"tx", "query"})
    /\ Conn # {}
    /\ "-" \notin Row
    /\ Level \in [Row -> {1, 2}]
    /\ Program \in [Route -> Seq(Step)]

VARIABLES
    phase,      \* of the process
    stop,       \* the signal has come: ctx.Done() is ready
    lost,       \* the listener has failed: errCh is ready
    status,     \* the exit status, -1 before there is one
    route,      \* route[r]: what request r asks for, Nil before it arrives
    pc,         \* pc[r]: the step of its handler that is next
    conn,       \* conn[c]: the request that holds connection c, and what for
    locked,     \* locked[row]: the request whose transaction holds it
    effect,     \* the requests whose effect is in the database
    answer      \* answer[r]: how request r ended

process == <<phase, stop, lost, status>>
pool == <<conn, locked>>
vars == <<process, route, pc, pool, effect, answer>>

Answer == {"none", "ok", "refused", "failed", "closed", "cut"}

Init ==
    /\ phase = "serving"
    /\ stop = FALSE
    /\ lost = FALSE
    /\ status = -1
    /\ route = [r \in Request |-> Nil]
    /\ pc = [r \in Request |-> 1]
    /\ conn = [c \in Conn |-> Nil]
    /\ locked = [row \in Row |-> Nil]
    /\ effect = {}
    /\ answer = [r \in Request |-> "none"]

Running(r) == route[r] # Nil /\ answer[r] = "none"
Steps(r) == Program[route[r]]
At(r, op) == Running(r) /\ pc[r] <= Len(Steps(r)) /\ Steps(r)[pc[r]].op = op
NextRow(r) == Steps(r)[pc[r]].row

PoolOpen == phase \in {"serving", "draining"}
Free(c) == conn[c] = Nil
Holds(r, use) == \E c \in Conn : conn[c] = <<r, use>>
RowFree(r, row) == \A x \in Row \cap {row} : locked[x] \in {Nil, r}

Advance(r) == pc' = [pc EXCEPT ![r] = @ + 1]

Take(r, use) ==
    /\ PoolOpen
    /\ \E c \in Conn : Free(c) /\ conn' = [conn EXCEPT ![c] = <<r, use>>]

GiveBack(r, uses) ==
    conn' = [c \in Conn |-> IF conn[c] \in {<<r, use>> : use \in uses} THEN Nil ELSE conn[c]]

Unlock(r) == locked' = [row \in Row |-> IF locked[row] = r THEN Nil ELSE locked[row]]

-----------------------------------------------------------------------------
(* The requests                                                            *)

\* New requests come as long as the server keeps connections of clients open.
Arrive(r, rt) ==
    /\ phase \in {"serving", "draining"} \/ (phase = "closing" /\ status = 1)
    /\ route[r] = Nil
    /\ route' = [route EXCEPT ![r] = rt]
    /\ UNCHANGED <<process, pc, pool, effect, answer>>

\* The client has sent the body, or what the handler tests is as it should be.
Pass(r) ==
    /\ At(r, "body") \/ At(r, "check")
    /\ Advance(r)
    /\ UNCHANGED <<process, route, pool, effect, answer>>

\* A statement on the pool, or the transaction, waits for a connection.
Acquire(r) ==
    /\ At(r, "query") \/ At(r, "store")
    /\ ~Holds(r, "query")
    /\ Take(r, "query")
    /\ UNCHANGED <<process, route, pc, locked, effect, answer>>

BeginTx(r) ==
    /\ At(r, "begin")
    /\ Take(r, "tx")
    /\ Advance(r)
    /\ UNCHANGED <<process, route, locked, effect, answer>>

\* A statement that runs alone holds a row only while it runs.
RunQuery(r) ==
    /\ At(r, "query")
    /\ Holds(r, "query")
    /\ RowFree(r, NextRow(r))
    /\ GiveBack(r, {"query"})
    /\ Advance(r)
    /\ UNCHANGED <<process, route, locked, effect, answer>>

RunStore(r) ==
    /\ At(r, "store")
    /\ Holds(r, "query")
    /\ GiveBack(r, {"query"})
    /\ Advance(r)
    /\ effect' = effect \cup {r}
    /\ UNCHANGED <<process, route, locked, answer>>

LockRow(r) ==
    /\ At(r, "lock")
    /\ RowFree(r, NextRow(r))
    /\ locked' = [locked EXCEPT ![NextRow(r)] = r]
    /\ Advance(r)
    /\ UNCHANGED <<process, route, conn, effect, answer>>

CommitTx(r) ==
    /\ At(r, "commit")
    /\ GiveBack(r, {"tx"})
    /\ Unlock(r)
    /\ Advance(r)
    /\ effect' = effect \cup {r}
    /\ UNCHANGED <<process, route, answer>>

\* Mutant: the rollback is not deferred.
ReturnLeaks(r, a) ==
    /\ answer' = [answer EXCEPT ![r] = a]
    /\ GiveBack(r, {"query"})
    /\ UNCHANGED locked
    /\ UNCHANGED <<process, route, pc>>

\* The handler returns: the deferred rollback ends its transaction.
Return(r, a) ==
    /\ answer' = [answer EXCEPT ![r] = a]
    /\ GiveBack(r, {"tx", "query"})
    /\ Unlock(r)
    /\ UNCHANGED <<process, route, pc>>

\* writeServiceError: an error of a check becomes a 4xx.
Refuse(r) ==
    /\ At(r, "body") \/ At(r, "check") \/ At(r, "deny")
    /\ Return(r, "refused")
    /\ UNCHANGED effect

\* Any other error, also a client that goes away, is a 500.
Fail(r) ==
    /\ Running(r)
    /\ Return(r, "failed")
    /\ UNCHANGED effect

\* Mutant: an error of the commit is answered like a conflict.
CommitFailsAsConflict(r) ==
    /\ At(r, "commit") \/ (At(r, "store") /\ Holds(r, "query"))
    /\ Return(r, "refused")
    /\ effect' = effect \cup {r}

\* The connection breaks while the commit is under way: it may have happened.
CommitFails(r) ==
    /\ At(r, "commit") \/ (At(r, "store") /\ Holds(r, "query"))
    /\ Return(r, "failed")
    /\ effect' = effect \cup {r}

\* The pool is closed: the statement is refused a connection, a 500.
PoolClosed(r) ==
    /\ ~PoolOpen
    /\ At(r, "begin") \/ ((At(r, "query") \/ At(r, "store")) /\ ~Holds(r, "query"))
    /\ Return(r, "closed")
    /\ UNCHANGED effect

Succeed(r) ==
    /\ Running(r) /\ pc[r] > Len(Steps(r))
    /\ Return(r, "ok")
    /\ UNCHANGED effect

-----------------------------------------------------------------------------
(* The process                                                             *)

requests == <<route, pc, pool, effect, answer>>

\* signal.NotifyContext: SIGINT or SIGTERM.
Signal ==
    /\ phase # "exited" /\ ~stop
    /\ stop' = TRUE
    /\ UNCHANGED <<phase, lost, status, requests>>

\* ListenAndServe returns an error that is not ErrServerClosed.
ListenerFails ==
    /\ phase = "serving" /\ ~lost
    /\ lost' = TRUE
    /\ UNCHANGED <<phase, stop, status, requests>>

\* The select of Serve; if both are ready it takes either.
SelectDone ==
    /\ phase = "serving" /\ stop
    /\ phase' = "draining"
    /\ UNCHANGED <<stop, lost, status, requests>>

SelectError ==
    /\ phase = "serving" /\ lost
    /\ phase' = "closing"
    /\ status' = 1
    /\ UNCHANGED <<stop, lost, requests>>

Idle == \A r \in Request : ~Running(r)

\* Mutant: the server is closed without waiting for its requests.
ClosedAtOnce ==
    /\ phase = "draining"
    /\ phase' = "closing"
    /\ status' = 0
    /\ UNCHANGED <<stop, lost, requests>>

\* Shutdown returns nil once no connection of a client is busy.
Drained ==
    /\ phase = "draining" /\ Idle
    /\ phase' = "closing"
    /\ status' = 0
    /\ UNCHANGED <<stop, lost, requests>>

\* Mutant: Shutdown gets a context without a deadline.
NeverGivesUp ==
    /\ phase = "draining" /\ Idle
    /\ phase' = "closing"
    /\ status' = 1
    /\ UNCHANGED <<stop, lost, requests>>

\* ... or its error after 10 seconds.
GiveUp ==
    /\ phase = "draining"
    /\ phase' = "closing"
    /\ status' = 1
    /\ UNCHANGED <<stop, lost, requests>>

Die ==
    /\ phase' = "exited"
    /\ answer' = [r \in Request |-> IF Running(r) THEN "cut" ELSE answer[r]]
    /\ conn' = [c \in Conn |-> Nil]
    /\ locked' = [row \in Row |-> Nil]
    /\ UNCHANGED <<stop, lost, route, pc, effect>>

\* Mutant: the store is not closed when runAPI returns.
ExitNow ==
    /\ phase = "closing"
    /\ Die
    /\ UNCHANGED status

\* The deferred store.Close has waited for every connection; main returns.
Exit ==
    /\ phase = "closing"
    /\ \A c \in Conn : Free(c)
    /\ Die
    /\ UNCHANGED status

\* SIGKILL, a panic, a power cut.
Kill ==
    /\ phase # "exited"
    /\ Die
    /\ status' = 2

-----------------------------------------------------------------------------
Waiting(r) == Acquire(r) \/ BeginTx(r) \/ RunQuery(r) \/ LockRow(r)

Unhindered(r) ==
    \/ At(r, "check") /\ Pass(r)
    \/ At(r, "deny") /\ Refuse(r)
    \/ RunStore(r)
    \/ CommitTx(r)
    \/ PoolClosed(r)
    \/ Succeed(r)

Serve == SelectDone \/ SelectError \/ Drained \/ GiveUp \/ Exit

Next ==
    \/ \E r \in Request : \/ \E rt \in Route : Arrive(r, rt)
                          \/ Pass(r) \/ Acquire(r) \/ BeginTx(r) \/ RunQuery(r) \/ RunStore(r)
                          \/ LockRow(r) \/ CommitTx(r) \/ Refuse(r) \/ Fail(r)
                          \/ CommitFails(r) \/ PoolClosed(r) \/ Succeed(r)
    \/ Signal \/ ListenerFails
    \/ SelectDone \/ SelectError \/ Drained \/ GiveUp
    \/ Exit \/ Kill

Spec == Init /\ [][Next]_vars

\* Handlers are goroutines; the waiters of the pool and of a row are served in turn;
\* timers fire.  Nothing is assumed of clients: a body may never come.
Fairness ==
    /\ \A r \in Request : WF_vars(Unhindered(r)) /\ SF_vars(Waiting(r))
    /\ WF_vars(Serve)
FairSpec == Spec /\ Fairness

-----------------------------------------------------------------------------
(* Properties                                                              *)

TypeOK ==
    /\ phase \in {"serving", "draining", "closing", "exited"}
    /\ stop \in BOOLEAN /\ lost \in BOOLEAN
    /\ status \in {-1, 0, 1, 2}
    /\ status = -1 <=> phase \in {"serving", "draining"}
    /\ route \in [Request -> Route \cup {Nil}]
    /\ pc \in [Request -> Nat \ {0}]
    /\ conn \in [Conn -> (Request \X {"tx", "query"}) \cup {Nil}]
    /\ locked \in [Row -> Request \cup {Nil}]
    /\ effect \subseteq Request
    /\ answer \in [Request -> Answer]

\* Between begin and commit; behind the step that takes effect.
InTx(p, i) ==
    \E b \in 1..(i - 1) :
        p[b].op = "begin" /\ \A k \in (b + 1)..(i - 1) : p[k].op # "commit"
Done(p, i) == \E k \in 1..(i - 1) : p[k].op \in {"commit", "store"}

\* What the handlers of service.go and webauthn.go keep to, without which the rest
\* fails: inside a transaction nothing is asked of the pool and nothing of the client;
\* rows are locked in one order; behind the step that takes effect nothing is refused.
WellFormed(p) ==
    \A i \in 1..Len(p) :
        /\ InTx(p, i) => p[i].op \in {"check", "lock", "commit"}
        /\ p[i].op \in {"lock", "commit"} => InTx(p, i)
        /\ p[i].op = "lock" => p[i].row \in Row
        /\ \A j \in 1..(i - 1) :
             p[i].op = "lock" /\ p[j].op = "lock" => Level[p[j].row] < Level[p[i].row]
        /\ Done(p, i) => p[i].op = "query"

\* The next step of q waits for nobody.
ConnReady(q) == ~PoolOpen \/ \E c \in Conn : Free(c)
CanStep(q) ==
    /\ Running(q)
    /\ \/ pc[q] > Len(Steps(q))
       \/ At(q, "check") \/ At(q, "deny") \/ At(q, "commit")
       \/ At(q, "begin") /\ ConnReady(q)
       \/ (At(q, "query") \/ At(q, "store")) /\ ~Holds(q, "query") /\ ConnReady(q)
       \/ At(q, "query") /\ Holds(q, "query") /\ RowFree(q, NextRow(q))
       \/ At(q, "store") /\ Holds(q, "query")
       \/ At(q, "lock") /\ RowFree(q, NextRow(q))

\* Pool and rows never wedge: however many handlers compete for however few
\* connections, if one is under way (and not waiting for its client) then one can go on;
\* no circle of waiters for connections and rows closes (repository.go Begin, s.repo).
NeverWedged ==
    (\E r \in Request : Running(r) /\ ~At(r, "body")) => \E q \in Request : CanStep(q)

\* A transaction that is open when the process stops is let to its end: the closed pool
\* turns away no request that has one, and only a kill cuts it (defer store.Close).
TransactionsSurviveShutdown ==
    [][\A r \in Request :
         Holds(r, "tx") /\ answer'[r] \in {"cut", "closed"} => status' = 2]_vars

\* Exit status 0 says that every request that came was answered, and none was turned
\* away because the pool was closed under it (Serve, Shutdown, store.Close in order).
ExitTellsTruth ==
    phase = "exited" /\ status = 0 =>
        \A r \in Request : route[r] # Nil => answer[r] \in {"ok", "refused", "failed"}

\* Answers tell the truth: 2xx means the effect is there, 4xx that it is not and will not
\* be, and no request takes effect twice or after its answer (handlers, writeServiceError).
Exch == INSTANCE Exchange WITH
    Writes <- {rt \in Route : \E i \in 1..Len(Program[rt]) :
                 Program[rt][i].op \in {"commit", "store"}},
    asked <- route,
    answer <- [r \in Request |-> IF answer[r] = "closed" THEN "failed" ELSE answer[r]]
ImplementsExchange == Exch!Spec

\* The process of Startup while it serves: seen from there, everything that goes on in it
\* is one stage, which a signal, the listener or Shutdown ends (a killed process ends
\* nothing any more).  In an environment that Load does not refuse.
Ended == phase = "exited" /\ status # 2
Own == [secret |-> [s \in {"JWT_ACCESS_SECRET", "JWT_REFRESH_SECRET", "SECRETS_MASTER_KEY"} |-> "own"],
        panel |-> "own", dsn |-> "own"]
Proc == INSTANCE Startup WITH
    cmd <- "api",
    env <- [app |-> "production", duration |-> [d \in {"ACCESS_TOKEN_TTL", "REFRESH_TOKEN_TTL"} |-> "own"],
            secret |-> Own.secret, panel |-> Own.panel, dsn |-> Own.dsn],
    stage <- IF Ended THEN "exited" ELSE "serving",
    cfg <- Own,
    pool <- IF Ended THEN "closed" ELSE "open",
    routes <- IF Ended THEN "none" ELSE "auth",
    status <- IF Ended THEN status ELSE -1

\* Draining, closing and dying with requests under way, the process goes from serving to
\* its exit status as Startup has it (Serve, runAPI and Run between them).
EndsAsStartup == [][Proc!ProcessNext]_(Proc!processVars)

\* A request ends once its client has sent what the handler reads.
RequestsEnd == \A r \in Request : Running(r) ~> ~Running(r) \/ At(r, "body")

\* The process stops after a signal, whatever clients do: also one that never sends
\* its body cannot hold it (the 10 seconds of Serve; nobody waits for it with a connection).
SignalStops == stop ~> phase = "exited"
=============================================================================
