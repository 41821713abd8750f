SPECIFICATION Spec
CONSTANTS
    Tab = {t1, t2}
    None = None
    MaxToken = 4
    MaxSession = 2
    MaxRequest = 4
    MaxFaults = 1
SYMMETRY Symmetry
INVARIANTS
    TypeOK
    ReuseMeansLostPair
    LostAnswerIsForgiven
    OneUsableToken
    LateTokenIsLast
    OnlyDeadIsDropped
    SignInKept
CHECK_DEADLOCK FALSE
