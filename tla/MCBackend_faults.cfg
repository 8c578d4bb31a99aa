SPECIFICATION Spec
CONSTANTS
    Names = {"r", "d", "e", "s", "a", "b"}
    PathLess <- MCPathLess
    Folders <- TreeFolders
    Videos <- TreeVideos
    Roots <- TwoRoots
    Limit = 1
    Broken = {}
    FsOps = {"Move"}
    SameDate = FALSE
    FaultyCalls <- ForgivenCalls
    MaxWrites = 1
    MaxEvents = 1
    MaxStarts = 1
INVARIANTS DirtyNeverForgotten PublicHasInfo ParentsAgree
CHECK_DEADLOCK FALSE
