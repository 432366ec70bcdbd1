\* An iteration of the loop that imports a new export.
CONSTANTS
    r1 = r1
    r2 = r2
    r3 = r3
    e1 = e1
    e2 = e2
    e3 = e3
    Rooms <- MCRooms
    Events <- MCEvents
    RoomOf <- MCRoomOf
    Unreachable <- MCUnreachable
    Exports <- MCExports
    Arriving <- MCArriving
    Limit = 2
    Cooldown = 2
    MaxFailures = 0

SPECIFICATION Spec

PROPERTY LoopReprocesses
