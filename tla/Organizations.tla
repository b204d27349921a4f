--------------------------- MODULE Organizations ----------------------------
(***************************************************************************)
(* What the API promises about organizations, their members and keys, with *)
(* no requests, transactions or locks in it.                               *)
(*                                                                         *)
(* Each change happens at once and together with the one row of the log    *)
(* that tells of it.  Only who is no member is added, only a member gets   *)
(* another role, only a key that is not there yet is created, and only a   *)
(* live key of the organization that asks is revoked.  Nobody is removed,  *)
(* and no key is given away, widened or brought back.  Tenancy.tla shows   *)
(* that concurrent requests, their crashes and races do nothing else.      *)
(***************************************************************************)
EXTENDS Integers

CONSTANTS UserId, OrgId, KeyId, Role, ScopeSet, Founder, Event, Nil

VARIABLES
    role,       \* role[o][u]: the role of u in o, Nil if u is no member
    key_org,    \* key_org[k]: the organization of key k, Nil before it is created
    scopes,     \* scopes[k]: what k permits
    revoked,    \* the keys that were revoked
    audit       \* audit[e]: how many rows of the log tell of e

vars == <<role, key_org, scopes, revoked, audit>>

Init ==
    /\ role = [o \in OrgId |-> [u \in UserId |-> IF u = Founder[o] THEN "owner" ELSE Nil]]
    /\ key_org = [k \in KeyId |-> Nil]
    /\ scopes = [k \in KeyId |-> {}]
    /\ revoked = {}
    /\ audit = [e \in Event |-> 0]

Record(event) == audit' = [audit EXCEPT ![event] = @ + 1]

Give(o, u, new) ==
    /\ role' = [role EXCEPT ![o][u] = new]
    /\ UNCHANGED <<key_org, scopes, revoked>>

Add(o, u, new) ==
    /\ role[o][u] = Nil
    /\ Give(o, u, new)
    /\ Record(<<"membership.create", o, u, new>>)

SetRole(o, u, new) ==
    /\ role[o][u] # Nil
    /\ Give(o, u, new)
    /\ Record(<<"membership.update_role", o, u, new>>)

Create(o, k, granting) ==
    /\ key_org[k] = Nil
    /\ key_org' = [key_org EXCEPT ![k] = o]
    /\ scopes' = [scopes EXCEPT ![k] = granting]
    /\ Record(<<"api_key.create", k>>)
    /\ UNCHANGED <<role, revoked>>

Revoke(o, k) ==
    /\ key_org[k] = o
    /\ k \notin revoked
    /\ revoked' = revoked \cup {k}
    /\ Record(<<"api_key.revoke", k>>)
    /\ UNCHANGED <<role, key_org, scopes>>

Next == \E o \in OrgId :
    \/ \E u \in UserId, new \in Role : Add(o, u, new) \/ SetRole(o, u, new)
    \/ \E k \in KeyId : Revoke(o, k) \/ \E granting \in ScopeSet : Create(o, k, granting)

Spec == Init /\ [][Next]_vars
=============================================================================
