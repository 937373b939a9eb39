CONSTANTS
    a = a
    zero = zero
    nil = nil
    default = default
    dated = dated
    short = short
    full = full
    wrong = wrong
    partial = partial
    whole = whole
    elsewhere = elsewhere
    here = here
    there = there
    Zero <- zero
    Nil <- nil
    Default <- default
    Dated <- dated
    Short <- short
    Full <- full
    Wrong <- wrong
    Partial <- partial
    Whole <- whole
    Elsewhere <- elsewhere
    Yes <- a
    Home <- here
    Values <- MCTwoValues
    Places <- MCPlaces
    Instances <- MCInstances
    Specs <- MCSpecs
    States = {""}
    MaxDisturbances = 2
SPECIFICATION FairSpec
INVARIANTS TypeOK NoOrphan SettledAgrees
PROPERTIES IntentKept UpdateKeepsTheRest PanicsOnlyOn Converges
CHECK_DEADLOCK FALSE
