\* One room of up to two events, and two runs that may overlap.
CONSTANTS
    Runs = {a, b}
    Silent = {}
    MaxSent = 2
    MaxTime = 4
    Tick = 2
    PageSize = 1
    SyncLimit = 1

SPECIFICATION Spec

INVARIANTS
    TypeOK
    WalkExact
    SkipsExplained

SYMMETRY Symmetry
