SPECIFICATION Spec
CONSTANTS
    None = None
    Tabs = {"a", "b"}
    Pages = {"p"}
    Workspaces = {"w"}
    Workspace <- MCWorkspace
    BeforeWorkspace = {"p"}
    MaxLosses = 1
INVARIANTS
    TypeOK
    ActsAlone
    TypedBehindLocks
    LeaseStands
PROPERTIES
    EditorsReturn
