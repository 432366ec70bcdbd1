\* Three rooms of which two are reprocessed at a time and one cannot be
\* fetched, an export with two of the three keys, one failure.
CONSTANTS
    r1 = r1
    r2 = r2
    r3 = r3
    e1 = e1
    e2 = e2
    e3 = e3
    Rooms <- MCRooms
    Events <- MCEvents
    RoomOf <- MCRoomOf
    Unreachable <- MCUnreachable
    Limit = 2
    Cooldown = 2
    Exports <- MCExports
    Arriving <- MCArriving
    MaxFailures = 1

SPECIFICATION Spec

INVARIANTS
    TypeOK

PROPERTIES
    TextKept
    ImportReprocesses
    HealedEventually
