SPECIFICATION ProcFairSpec
CONSTANTS
    Targets = {root}
    ReadErrors = TRUE
    MaxDelayed = 1
INVARIANTS NoPanicOnceUp  WatcherStops
PROPERTIES SignalEnds SilentOnceStopped KeepsAnnouncing
CHECK_DEADLOCK FALSE
