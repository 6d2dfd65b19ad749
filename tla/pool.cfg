SPECIFICATION Spec
CONSTANTS
    None = None
    Requests = {"u", "v", "w", "x", "y", "h", "k"}
    Principal <- MCPrincipal
    Bytes <- MCBytes
    Validations = {"u", "v", "w", "x", "y"}
    Expensive = {"x", "y"}
    WorkerCounts = {1, 2}
    MaxTasks = 5
    MaxBytes = 8
    ValidationBytes = 2
    HistoryBytes = 2
INVARIANTS
    TypeOK
    AccountsMatch
    HeldOnce
    OneOfAKind
PROPERTIES
    ValidationsServed
    HistoriesServed
CHECK_DEADLOCK FALSE
