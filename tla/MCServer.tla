------------------------------ MODULE MCServer ------------------------------
(* Server with the handlers of Handlers, a small instance for TLC.         *)
EXTENDS Server, Handlers

MCProgram == [rt \in Route |-> Handler(rt[1], rt[2])]
MCRow == DOMAIN LockLevel

\* A transaction with two locks; a handler that runs statements on the pool alone.
Contended == {<<"register", "token">>, <<"passkey.begin", "token">>}

\* Every handler of the code, with either credential, is one the theorems about Server
\* hold for (the service methods of service.go and webauthn.go behind NewHandler).
ASSUME CodeIsWellFormed == \A rt \in AllRoutes : WellFormed(Handler(rt[1], rt[2]))
=============================================================================
