SPECIFICATION FairSpec
CONSTANTS
    Names = {"r", "d", "s", "a"}
    Items <- MCItems
    MaxAdds = 3
    MaxResets = 1
INVARIANTS NoDoubleClose NoDeleteLost
PROPERTIES DeletesReported HeldSpec
CHECK_DEADLOCK FALSE
