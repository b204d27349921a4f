----------------------------- MODULE MCAuditLog -----------------------------
(* AuditLog for TLC. *)
EXTENDS AuditLog, TLC

CONSTANTS r1, r2, m1, owner, viewer

Requests == {r1, r2}
Roles == {owner, viewer}
Members == {m1}

\* Int32 is -8..7 here: zero, in range, above it, the last int32, one that wraps to a
\* negative number and one that wraps to 1.
Limits == {0, 1, 2, 3, 7, 8, 17}

Symmetry == Permutations(Requests) \cup Permutations(Roles)
=============================================================================
