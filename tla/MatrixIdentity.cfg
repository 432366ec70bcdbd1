\* Two processes beside the API: a second login, a refresh, two exports.
CONSTANTS
    Processes = {p, q}
    None = None
    MaxLogins = 1
    MaxRefreshes = 1
    MaxResets = 2
    MaxExports = 2

SPECIFICATION Spec

INVARIANTS
    TypeOK
    MarkerHonest
    SessionCurrent

CONSTRAINT NotYetExcused

SYMMETRY Symmetry

\* Without a session nothing runs until a login.
CHECK_DEADLOCK FALSE
