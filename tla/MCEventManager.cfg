SPECIFICATION FairSpec
CONSTANTS
    Sids = {s1}
    Requests = {r1, r2}
    Durations = {1, 3}
    Delay = 2
    CleanAfterVisits = 2
    Wrap = 4
    MaxTime = 4
    NoSid = NoSid
INVARIANTS TypeOK LiveKept GoneStaysGone CleanupDue
PROPERTY ExpiredGo
CHECK_DEADLOCK FALSE
