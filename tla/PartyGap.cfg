SPECIFICATION Spec
CONSTANTS
    MaxRev = 6
    MaxConn = 2
    MaxFail = 0
INVARIANT GapIsFilled
CHECK_DEADLOCK FALSE
