SPECIFICATION FairSpec
CONSTANTS
    Names = {"r", "d", "e", "s", "a", "b"}
    PathLess <- MCPathLess
    Folders <- MCFolders
    Videos <- MCVideos
    Roots <- MCRoots
    Limit = 1
    Broken = {2}
    FsOps = {"Delete"}
    SameDate = FALSE
    FaultyCalls = {}
    MaxWrites = 2
    MaxEvents = 1
    MaxStarts = 2
INVARIANTS DirtyNeverForgotten InfoCacheSound ParentsAgree
PROPERTIES WalkIsExact PassEnds IndexSettles
CHECK_DEADLOCK FALSE
