\* One login races the startup recovery, a logout, reconnects and restarts.
\* Three socket objects: one in use, one still closing, one being built.
CONSTANTS
    Sockets = {s1, s2, s3}
    Timers = {t1, t2}
    Logins = {l1}
    None = None
SPECIFICATION FairSpec
INVARIANTS
    TypeOK
    SingleFlight
    OnlyOperatorForks
PROPERTIES
    LossAnswered
    KeepsTrying
    SupervisorSpec
