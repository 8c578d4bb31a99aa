SPECIFICATION Spec
CONSTANTS
    Names = {"a", "b", "x"}
    Items <- MCItems
    Ignored <- MCIgnored
    MaxOps = 2
INVARIANT RenamesAreMoves
CHECK_DEADLOCK FALSE
