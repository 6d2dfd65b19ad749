SPECIFICATION Spec
CONSTANTS
    e1 = e1
    e2 = e2
    Users = {u1, u2}
    Owner = owner
    Clients = {u1}
    Servers = {s1}
    WriteIds = {w1}
    Edits = {e1}
    RetainedEntries = 2
    MinSnapshotEntries = 2
    LegacyUpdates <- OversizedRows
    MaxUpdateId = 5
    MaxEpoch = 2
    MaxGeneration = 2
INVARIANTS
    TypeOK
    CheckpointHonest
    LineageMatchesSharing
    LeaseProtectsLineage
PROPERTIES
    ShareChangesKeepHistory
    MaterializationKeepsBlocks
