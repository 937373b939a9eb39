SPECIFICATION ConfigFairSpec
CONSTANTS
    x = x
    y = y
    ManagedCRs <- MCCRs
    Legacy <- MCLegacy
    MaxConfigs = 2
    MaxCrashes = 1
INVARIANT ConfigKept
PROPERTIES CountedIsKept TeardownCompletes
CHECK_DEADLOCK FALSE
