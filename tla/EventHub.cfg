SPECIFICATION Spec
CONSTANTS
    ann = ann
    bob = bob
    tv = tv
    phone = phone
    s1 = s1
    User = {ann, bob}
    Target = {tv, phone}
    None = None
    Household <- MCHousehold
    Session = {s1}
    Asked <- MCAsked
    Device <- MCDevice
    ConnQueueMax = 1
    PolledQueueMax = 1
    MaxStreams = 3
    MaxOpening = 1
INVARIANTS
    TypeOK
    EveryChangeIsTold
    NewestIsRegistered
    RevokedIsClosed
    ShutdownIsFinal
    UnheardIsClosed
CHECK_DEADLOCK FALSE
