----------------------------- MODULE TokenChain -----------------------------
(***************************************************************************)
(* What the refresh-token store promises, with no transactions in it.      *)
(*                                                                         *)
(* A session is a chain of tokens.  Opening a session creates the first    *)
(* token of a chain; a refresh replaces the last token of a chain by a     *)
(* token that never existed before and that belongs to the same user; a    *)
(* token may be revoked.  A token is replaced at most once, and never once *)
(* it is revoked.  Sessions.tla shows that the concurrent handlers, their  *)
(* crashes and their lost responses included, do nothing else.             *)
(***************************************************************************)

CONSTANTS Token,    \* refresh tokens
          UserId,   \* rows of users
          Nil       \* SQL NULL / no row

VARIABLES owner,    \* owner[t]: the user token t was issued to, Nil if it never was
          next,     \* next[t]: the token that replaced t, Nil while nothing did
          revoked   \* the revoked tokens

vars == <<owner, next, revoked>>

Init ==
    /\ owner = [t \in Token |-> Nil]
    /\ next = [t \in Token |-> Nil]
    /\ revoked = {}

\* A session starts: a token nobody ever had is given to user u.
Open(u, t) ==
    /\ owner[t] = Nil
    /\ owner' = [owner EXCEPT ![t] = u]
    /\ UNCHANGED <<next, revoked>>

\* One refresh: the live token t is replaced by a token nobody ever had.
Rotate(t, s) ==
    /\ owner[t] # Nil
    /\ next[t] = Nil
    /\ t \notin revoked
    /\ owner[s] = Nil
    /\ owner' = [owner EXCEPT ![s] = owner[t]]
    /\ next' = [next EXCEPT ![t] = s]
    /\ UNCHANGED revoked

Revoke(t) ==
    /\ owner[t] # Nil
    /\ revoked' = revoked \cup {t}
    /\ UNCHANGED <<owner, next>>

Next ==
    \/ \E u \in UserId, t \in Token : Open(u, t)
    \/ \E t, s \in Token : Rotate(t, s)
    \/ \E t \in Token : Revoke(t)

Spec == Init /\ [][Next]_vars
=============================================================================
