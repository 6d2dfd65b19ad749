SPECIFICATION Spec
CONSTANTS
    None = None
    Previous = {"x", "p"}
    Beginnings = {{"attachments"}, {"icons"}}
    Backup = {"x", "y"}
    Retained = {"x"}
    Uploads = {}
    MaxRestores = 1
    Deletable = {"x"}
    Sweepable = {}
    MaxDeletes = 0
    MaxFaults = 2
INVARIANTS
    RecoveryCompletes
CHECK_DEADLOCK FALSE
