SPECIFICATION Spec
CONSTANTS
    Names = {"r", "o", "d", "e", "s", "a", "part"}
    Folders <- MCFolders
    Files <- MCFiles
    Top <- MCTop
    Roots <- MCRoots
    IgnoredNames <- MCIgnored
    Trees <- MCTrees
    Ops <- AllOps
    FreeOps <- MCFree
    EarlyOps = TRUE
    UnlinkOpen = FALSE
    Overwrite = FALSE
    MaxOps = 4
INVARIANTS IndexExact WatchesExact NoGhost NoDeafWatch
CHECK_DEADLOCK FALSE
