\* Three runs at once, one of an older binary, and two Downs.
SPECIFICATION FairSpec
CONSTANTS
    p1 = p1
    p2 = p2
    p3 = p3
    Migrator <- Runs
    Embedded <- Binaries
    MaxDowns = 2
    Nil = Nil
INVARIANTS
    VersionsTellSchema
PROPERTIES
    SuccessIsComplete
    RunsEnd
