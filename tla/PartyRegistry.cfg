CONSTANTS
    User = {owner, ann}
    Owner = owner
    NoUser = NoUser
    Request = {r1, r2}
    Task = task
    Gate = {g1, g2, g3}
    NoGate = NoGate
    NoRoom = NoRoom
    MayFail = TRUE
    GoesOn = FALSE
SYMMETRY Symmetry
SPECIFICATION Spec
INVARIANTS
    TypeOK
    GateExcludes
    EndedIsClosedUnlessCut
    StartedIsLiveUnlessCut
    HostIsStoredUnlessCut
    ExpiryFindsNobody
    StartsOnce
CHECK_DEADLOCK FALSE
