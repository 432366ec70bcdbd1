\* One run at a time: what a recovery finds after a failed ingest.
CONSTANTS
    Runs = {a}
    Silent = {}
    MaxSent = 2
    MaxTime = 4
    Tick = 2
    PageSize = 1
    SyncLimit = 1

SPECIFICATION Spec

PROPERTY
    RecoveryRecovers
