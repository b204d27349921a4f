SPECIFICATION Spec
CONSTANTS
    Second = 4
    TTL <- Lifetimes
    MaxTime = 16
    Nil = Nil
INVARIANTS
    HonouredInTime
    UsableUntilLastSecond
    RefreshOutlivesAccess
CHECK_DEADLOCK FALSE
