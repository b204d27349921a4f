\* Two requests compete for two connections and for rows, with the process around them.
SPECIFICATION FairSpec
CONSTANTS
    Request = {r1, r2}
    Conn = {c1, c2}
    Route <- Contended
    Program <- MCProgram
    Row <- MCRow
    Level <- LockLevel
    Members = 2
    Nil = Nil
INVARIANTS
    NeverWedged
    ExitTellsTruth
PROPERTIES
    TransactionsSurviveShutdown
    ImplementsExchange
    RequestsEnd
    SignalStops
\* Requests are asked once: the system stops.
CHECK_DEADLOCK FALSE
