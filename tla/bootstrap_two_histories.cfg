SPECIFICATION Spec
CONSTANTS
    Clients = {c1, c2}
    Editorships = {{c1, c2}}
    Typists = {}
    Conns = {k1, k2, k3}
    NoConn = none
    MaxFailures = 1
    MaxTimeouts = 1
INVARIANTS
    OneInitialHistory
CHECK_DEADLOCK FALSE
