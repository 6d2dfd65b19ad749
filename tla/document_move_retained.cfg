SPECIFICATION Spec
CONSTANTS
    e1 = e1
    e2 = e2
    Users = {u1}
    Owner = owner
    Clients = {u1}
    Servers = {s1}
    WriteIds = {w1}
    Edits = {e1}
    RetainedEntries = 2
    MinSnapshotEntries = 1
    LegacyUpdates <- NoLegacy
    MaxUpdateId = 1
    MaxEpoch = 2
    MaxGeneration = 2
PROPERTY
    RetiredHistoryIsKept
