SPECIFICATION Spec
CONSTANTS
    Clients = {c, r}
    Editorships = {{c}}
    Typists = {}
    Conns = {k1, k2}
    NoConn = none
    MaxFailures = 0
    MaxTimeouts = 0
INVARIANTS
    ReadersKeepOneHistory
CHECK_DEADLOCK FALSE
