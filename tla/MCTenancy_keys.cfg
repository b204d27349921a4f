\* Two tenants, their keys, and requests that cross the border.
SPECIFICATION Spec
CONSTANTS
    u1 = u1 u2 = u2 o1 = o1 o2 = o2 r1 = r1 r2 = r2 k1 = k1 k2 = k2
    UserId = {u1, u2}
    OrgId = {o1, o2}
    KeyId = {k1, k2}
    Role = {"owner"}
    ScopeSet <- WriteKeys
    Founder <- TwoTenants
    Request = {r1, r2}
    MaxAudit = 0
    Nil = Nil
SYMMETRY Symmetry
INVARIANTS KeysAuditedOnce
PROPERTIES AuthorizedWhileRunning
