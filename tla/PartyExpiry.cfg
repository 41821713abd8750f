CONSTANTS
    User = {owner, ann}
    Owner = owner
    NoUser = NoUser
    Request = {r1}
    Task = task
    Gate = {g1, g2}
    NoGate = NoGate
    NoRoom = NoRoom
    MayFail = FALSE
    GoesOn = TRUE
SPECIFICATION FairSpec
PROPERTIES CallsAreAnswered EmptyPartyEnds
CHECK_DEADLOCK FALSE
