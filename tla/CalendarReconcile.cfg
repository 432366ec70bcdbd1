\* Two actions, of which the first cannot be published any more once it has
\* been changed; two failures or deletions.
CONSTANTS
    Count = 2
    Refused <- MCRefused
    MaxEdits = 1
    MaxIncidents = 2

SPECIFICATION CRSpec

INVARIANTS
    CRTypeOK
    EventsAccounted

PROPERTIES
    RunSettles
    SettledEventually
