SPECIFICATION Spec
CONSTANTS
    Names = {"r", "d", "s"}
    Folders <- ChainFolders
    Files = {}
    Top <- MCRoots
    Roots <- MCRoots
    IgnoredNames = {}
    Trees = {{}}
    Ops = {"mkdir"}
    FreeOps = {"mkdir"}
    EarlyOps = FALSE
    UnlinkOpen = FALSE
    Overwrite = FALSE
    MaxOps = 2
INVARIANT MkdirPFound
CHECK_DEADLOCK FALSE
