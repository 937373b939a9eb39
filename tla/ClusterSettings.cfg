SPECIFICATION SettingsFairSpec
CONSTANTS
    Nil = Nil
    Zero = Zero
    A = A
    Values = {Zero, A}
    MaxLeaves = 2
    MaxChanges = 1
INVARIANT UpToDateAgrees
PROPERTIES IntentKept UpdateKeepsTheRest Settles
