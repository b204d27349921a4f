SPECIFICATION Spec
CONSTANTS
    r1 = r1
    r2 = r2
    m1 = m1
    owner = owner
    viewer = viewer
    Request <- Requests
    Role <- Roles
    Member <- Members
    NoRole = NoRole
    Id = {1, 2, 3}
    Limit <- Limits
    Half = 8
    MaxList = 2
    DefaultList = 1
    MaxTime = 2
    Nil = Nil
SYMMETRY Symmetry
INVARIANTS
    ListRespectsRealTime
    RolesExplained
    LimitUsable
CHECK_DEADLOCK FALSE
