SPECIFICATION Spec
CONSTANTS
    Handlers = {h1, h2}
    Positions <- MCPositions
    Duration = 100
    CompleteLeeway = 5
    FaultyCalls <- Calls
    Prompt = TRUE
    MaxRequests = 4
    MaxEvents = 3
    MaxRows = 2
SYMMETRY HandlerSymmetry
INVARIANTS TypeOK PositionKept CopiesAgree ThumbnailTells
CHECK_DEADLOCK FALSE
