SPECIFICATION FairSpec
CONSTANTS
    nil = nil
    Nil <- nil
    Zero = 0
    Values = {0, 1, 2}
    SQLFields <- MCSQLFields
    Specs <- MCSpecs
    States <- MCStates
    MaxDisturbances = 2
INVARIANTS NoOrphan PasswordKept
PROPERTIES ToldOnce Converges EndpointPrefersPrivate
CHECK_DEADLOCK FALSE
