CONSTANTS
    RowIds <- MCRowIds
    HeadOf <- MCHeadOf
    MaxDeploys = 2
    MaxReboots = 1
SPECIFICATION Spec
INVARIANTS
    SchemaOfRevision
    ServerMatchesSchema
    RollbackKeepsRows
PROPERTY SwitchEnds
CHECK_DEADLOCK FALSE
