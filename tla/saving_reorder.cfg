SPECIFICATION Spec
CONSTANTS
    None = none
    MaxEdits = 2
    MaxLoads = 2
    MaxSaves = 2
    MaxFailures = 1
    OrderLists = {"other"}
    RebuildsInFlight = FALSE
    MaxInterruptions = 1
INVARIANTS
    NoBlindOverwrite
CHECK_DEADLOCK FALSE
