SPECIFICATION Spec
CONSTANTS
    Targets = {root, cds}
    ReadErrors = FALSE
    MaxDelayed = 1
PROPERTY NoAliveAfterByeBye
CHECK_DEADLOCK FALSE
