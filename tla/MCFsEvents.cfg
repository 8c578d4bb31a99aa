SPECIFICATION FairSpec
CONSTANTS
    Names = {"a", "b", "x"}
    Items <- MCItems
    Ignored <- MCIgnored
    MaxOps = 2
INVARIANTS TypeOK RenamesPair IndexFollows
PROPERTY Settles
CHECK_DEADLOCK FALSE
