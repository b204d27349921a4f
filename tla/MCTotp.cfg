\* Two secrets, two requests at once, lost responses and crashes.
SPECIFICATION FairSpec
CONSTANTS
    Secret = {s1, s2}
    Request = {r1, r2}
    Period = 2
    MaxTime = 4
    MaxAudit <- Budgets
    Nil = Nil
INVARIANTS EnabledIsConfirmed WindowHolds
PROPERTIES RowTellsAudit EveryRequestEnds
\* Secrets and audit rows run out: the bounded system stops.
CHECK_DEADLOCK FALSE
