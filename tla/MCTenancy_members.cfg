\* The members of one organization: additions, promotions, demotions.
SPECIFICATION FairSpec
CONSTANTS
    u1 = u1 u2 = u2 o1 = o1 o2 = o2 r1 = r1 r2 = r2 k1 = k1 k2 = k2
    UserId = {u1, u2}
    OrgId = {o1}
    KeyId = {k1}
    Role = {"owner", "viewer"}
    ScopeSet <- MemberKeys
    Founder <- OneTenant
    Request = {r1, r2}
    MaxAudit = 1
    Nil = Nil
INVARIANTS MembersAuditedOnce
PROPERTIES AuthorizedWhileRunning ImplementsOrganizations EveryRequestEnds
