SPECIFICATION Spec
CONSTANTS
    None = none
    MaxEdits = 2
    MaxLoads = 2
    MaxSaves = 2
    MaxFailures = 1
    OrderLists = {"own"}
    RebuildsInFlight = FALSE
    MaxInterruptions = 1
INVARIANTS
    TypeOK
    NoBlindOverwrite
    EditsKept
    NewestWins
PROPERTIES
    SavesEnd
    ConflictsAreReal
CHECK_DEADLOCK FALSE
