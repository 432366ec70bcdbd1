\* Two backfills, one of them start()'s, over one dialog of up to four messages,
\* in pages of two, up to a limit of three; the second message is a service message.
CONSTANTS
    Dialogs = {d1}
    Startup = r1
    Runs = {r1, r2}
    MaxId = 4
    PageSize = 2
    Limit = 3
    Service = {2}
    None = None
SPECIFICATION Spec
INVARIANTS
    TypeOK
    ScanContiguous
    GapsAreCuts
    LiveCursorStored
PROPERTY
    DurableIngestSpec
