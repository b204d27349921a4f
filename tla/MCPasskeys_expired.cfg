\* The deadlines this code stores.
SPECIFICATION Spec
CONSTANTS
    UserId = {u1}
    Handle = {h1, h2}
    Credential = {c1}
    Session = {s1, s2}
    Request = {r1, r2}
    Enforced = {FALSE}
    CeremonyTTL = 1
    MaxTime = 0
    MaxCounter = 1
    Nil = Nil
PROPERTIES CeremonyCanFinish
\* Rows and handles run out: the bounded system stops.
CHECK_DEADLOCK FALSE
