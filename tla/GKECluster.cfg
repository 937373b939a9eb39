SPECIFICATION FairSpec
CONSTANTS
    Specs <- MCSpecs
    States <- MCStates
    Nil = Nil
    Zero = Zero
    A = A
    Fields = {"ResourceLabels", "RecurringWindow"}
    Values = {Zero, A}
    MaxDisturbances = 2
INVARIANTS NoOrphan OneUpdateUnlessLateInitialized
PROPERTIES UpToDateReflectsSpec SettlesUnlessStuck
CHECK_DEADLOCK FALSE
