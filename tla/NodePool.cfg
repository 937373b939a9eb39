CONSTANTS
    a = a
    b = b
    zero = zero
    nil = nil
    Zero <- zero
    Nil <- nil
    AutoUpgrade <- a
    Values <- MCValues
    PoolFields <- MCPoolFields
    Specs <- MCSpecs
    States <- MCStates
    MaxDisturbances = 2
SPECIFICATION FairSpec
INVARIANTS NoOrphan OneUpdateUnlessLateInitialized
PROPERTIES VersionOnlyAlong SettlesUnlessStuck
CHECK_DEADLOCK FALSE
