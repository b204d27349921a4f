------------------------------ MODULE Exchange ------------------------------
(***************************************************************************)
(* What the HTTP API promises a client about one request, with no program, *)
(* database or process in it.                                              *)
(*                                                                         *)
(* A request is asked once.  While it is being served it may take effect,  *)
(* at most once.  A success answers a request that took the effect it asks *)
(* for; a client error (4xx) answers a request that took none and never    *)
(* will.  A server error (500), or a connection that is cut, tells nothing *)
(* of the effect, and nothing happens after it.  Server.tla shows that the *)
(* handlers, their pool and the shutdown of the process do nothing else.   *)
(***************************************************************************)

CONSTANTS Request, Route,
          Writes,   \* the routes that ask for an effect
          Nil

VARIABLES asked,    \* asked[r]: the route of request r, Nil before it arrives
          effect,   \* the requests that took effect
          answer    \* answer[r]: what the client of r was told

vars == <<asked, effect, answer>>

Init ==
    /\ asked = [r \in Request |-> Nil]
    /\ effect = {}
    /\ answer = [r \in Request |-> "none"]

Served(r) == asked[r] # Nil /\ answer[r] = "none"

Ask(r, route) ==
    /\ asked[r] = Nil
    /\ asked' = [asked EXCEPT ![r] = route]
    /\ UNCHANGED <<effect, answer>>

TakeEffect(r) ==
    /\ Served(r)
    /\ asked[r] \in Writes
    /\ r \notin effect
    /\ effect' = effect \cup {r}
    /\ UNCHANGED <<asked, answer>>

Succeed(r) ==
    /\ Served(r)
    /\ asked[r] \in Writes => r \in effect
    /\ answer' = [answer EXCEPT ![r] = "ok"]
    /\ UNCHANGED <<asked, effect>>

Refuse(r) ==
    /\ Served(r)
    /\ r \notin effect
    /\ answer' = [answer EXCEPT ![r] = "refused"]
    /\ UNCHANGED <<asked, effect>>

\* The last statement may take effect and its answer be lost.
Fail(r) ==
    /\ Served(r)
    /\ answer' = [answer EXCEPT ![r] = "failed"]
    /\ effect' \in {effect, IF asked[r] \in Writes THEN effect \cup {r} ELSE effect}
    /\ UNCHANGED asked

\* The process goes away: every request that is being served is cut.
Cut ==
    /\ answer' = [r \in Request |-> IF Served(r) THEN "cut" ELSE answer[r]]
    /\ UNCHANGED <<asked, effect>>

Next ==
    \/ \E r \in Request, route \in Route : Ask(r, route)
    \/ \E r \in Request : TakeEffect(r) \/ Succeed(r) \/ Refuse(r) \/ Fail(r)
    \/ Cut

Spec == Init /\ [][Next]_vars
=============================================================================
