----------------------------- MODULE MCTenancy ------------------------------
(* Small instances of Tenancy for TLC.                                     *)
EXTENDS Tenancy, TLC

CONSTANTS u1, u2, o1, o2, r1, r2, k1, k2

TwoTenants == o1 :> u1 @@ o2 :> u2
OneTenant == o1 :> u1

WriteKeys == {{"api_key:write"}}
MemberKeys == {{"api_key:write", "membership:write"}}

Symmetry == Permutations({k1, k2}) \cup Permutations({r1, r2})
=============================================================================
