\* One backfill of one dialog, with a limit that no dialog reaches.
CONSTANTS
    Dialogs = {d1}
    Startup = r1
    Runs = {r1}
    MaxId = 3
    PageSize = 1
    Limit = 4
    Service = {}
    None = None
SPECIFICATION Spec
INVARIANT
    NothingSkipped
