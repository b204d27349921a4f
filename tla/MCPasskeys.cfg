\* Ceremonies of two users with one authenticator, in turn or at once, repeated finish
\* requests, deadlines that pass, crashes.  A ceremony that is born expired can do no more
\* than one whose deadline passes at the next tick.
SPECIFICATION FairSpec
CONSTANTS
    UserId = {u1, u2}
    Handle = {h1, h2}
    Credential = {c1}
    Session = {s1, s2, s3}
    Request = {r1, r2}
    Enforced = {TRUE}
    CeremonyTTL = 0
    MaxTime = 1
    MaxCounter = 1
    Nil = Nil
INVARIANTS PasskeyRegisteredOnce LoginIsOwners
PROPERTIES SettledHandlePinned EveryRequestEnds
\* Rows and counters run out: the bounded system stops.
CHECK_DEADLOCK FALSE
