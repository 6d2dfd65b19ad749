SPECIFICATION Spec
CONSTANTS
    None = None
    Previous = {"x", "p"}
    Beginnings = {{"attachments"}, {"icons"}}
    Backup = {"x", "y"}
    Retained = {"x"}
    Uploads = {"u"}
    MaxRestores = 2
    Deletable = {"x"}
    Sweepable = {"icons"}
    MaxDeletes = 1
    MaxFaults = 2
INVARIANTS
    TypeOK
    NothingIsLost
    SettledWorkspace
    HelpOnlyAfterMishaps
PROPERTIES
    ReplacesOnlySeen
    LibraryKept
    RecoveryEnds
CHECK_DEADLOCK FALSE
