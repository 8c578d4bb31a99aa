SPECIFICATION FairSpec
CONSTANT Cookies = {c1, c2}
INVARIANTS OldNameGone NewNameIndexed NoStaleEntry
PROPERTY MoveDealtWith
CHECK_DEADLOCK FALSE
