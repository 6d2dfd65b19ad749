SPECIFICATION Spec
CONSTANTS
    Clients = {c1, c2}
    Editorships = {{c1}, {c1, c2}}
    Typists = {c1}
    Conns = {k1, k2, k3}
    NoConn = none
    MaxFailures = 1
    MaxTimeouts = 1
INVARIANTS
    TypeOK
    WaitersAreServed
    OneHistoryUndisturbed
PROPERTIES
    DocumentInitialized
    EditsReachLog
    SessionsConverge
    EditorsBecomeReady
CHECK_DEADLOCK FALSE
