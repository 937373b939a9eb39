SPECIFICATION FairSpec
CONSTANTS
    Specs = {0, 1, 2, 3, 4, 5, 6}
    States = {""}
    MaxKeys = 6
    MaxDisturbances = 5
INVARIANTS NoOrphanKey AvailableHasPrivateKey
PROPERTIES ToldOnce Settles
CHECK_DEADLOCK FALSE
