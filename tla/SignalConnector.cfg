\* One login attempt, polled by two requests at a time, races the startup recovery,
\* a logout, reconnects and restarts; the stream refuses one of the two accounts.
CONSTANTS
    Accounts = {a1, a2}
    Refused = {a2}
    Streams = {s1, s2}
    Logins = {l1}
    Polls = {p1, p2}
    MaxReads = 2
    None = None
SPECIFICATION FairSpec
INVARIANTS
    TypeOK
    OneStream
    StreamPaired
PROPERTIES
    Reconnects
    SupervisorSpec
