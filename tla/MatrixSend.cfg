\* Two sends at once, a replaced room, and a run of ingest.
CONSTANTS
    Sends = {s, t}
    old = old
    new = new
    other = other
    m1 = m1
    m2 = m2
    None = None
    Old = old
    Rooms <- MCRooms
    Targets <- MCTargets
    Bridge <- MCBridge
    Messages <- MCMessages
    RoomOf <- MCRoomOf

SPECIFICATION Spec

INVARIANTS
    TypeOK
    SentToTheChat
    TwiceOnlyIfLost
    RemapHidesNothing

PROPERTIES
    RemapSettles

SYMMETRY Symmetry

CHECK_DEADLOCK FALSE
