SPECIFICATION Spec
CONSTANTS
    MaxRev = 6
    MaxConn = 3
    MaxFail = 1
INVARIANTS
    TypeOK
    RejoinIsPursued
    HearsUnlessDeaf
    CurrentUnlessMissed
PROPERTY NothingRollsBack
CHECK_DEADLOCK FALSE
