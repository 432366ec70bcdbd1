\* One attempt; up to two decisions, the sync task may fill stderr.
CONSTANTS
    MaxDecisions = 2
    StderrSize = 1

SPECIFICATION Spec

INVARIANTS
    TypeOK
    RefusalHolds

PROPERTIES
    VerdictSpec
    AttemptEnds
    CancelEnds
