SPECIFICATION Spec
CONSTANTS
    e1 = e1
    e2 = e2
    Users = {u1}
    Owner = owner
    Clients = {u1, owner}
    Servers = {s1, s2}
    WriteIds = {w1}
    Edits = {e1}
    RetainedEntries = 2
    MinSnapshotEntries = 1
    LegacyUpdates <- OneRow
    MaxUpdateId = 3
    MaxEpoch = 1
    MaxGeneration = 1
SYMMETRY Symmetric
CONSTRAINT RoomsAndWritesOnly
INVARIANTS
    RoomsFollowLog
    AckedEditsDurable
PROPERTIES
    ImplementsSharedDocument
