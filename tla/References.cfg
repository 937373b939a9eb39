SPECIFICATION CRFairSpec
CONSTANTS
    Objects <- MCObjects
    Worlds <- MCWorlds
    MaxMishaps = 1
INVARIANTS FinalizerMeansResolved CreatedAfterReferents NoOrphan
PROPERTIES CreatedInAnyOrder DeletedInAnyOrder
CHECK_DEADLOCK FALSE
