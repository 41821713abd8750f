SPECIFICATION Spec
CONSTANTS
    host = host
    guest = guest
    tab1 = tab1
    tab2 = tab2
    User <- MCUser
    Device <- MCDevice
    Seat <- TwoSeats
    Item = {i1, i2}
    NoItem = NoItem
    Pos = {0, 2}
    StartDelay = {1}
    WaitTimeout = 2
    AwayGrace = 2
    EmptyTTL = 2
    ReadyTolerance = 1
    VoiceMax = 1
    MaxNow = 3
    MaxRev = 7
INVARIANTS
    VoiceCap
CHECK_DEADLOCK FALSE
