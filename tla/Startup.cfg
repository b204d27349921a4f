\* Every command in every environment.
SPECIFICATION FairProcessSpec
INVARIANTS
    EndsInOrder
    ServesOnOwnSecrets
PROPERTIES
    SignalStops
\* A process ends.
CHECK_DEADLOCK FALSE
