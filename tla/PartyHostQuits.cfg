CONSTANTS
    User = {owner, ann}
    Owner = owner
    NoUser = NoUser
    Request = {r1, r2}
    Task = task
    Gate = {g1, g2, g3}
    NoGate = NoGate
    NoRoom = NoRoom
    MayFail = FALSE
    GoesOn = TRUE
SYMMETRY Symmetry
SPECIFICATION Spec
INVARIANT HostIsAdmitted
CHECK_DEADLOCK FALSE
