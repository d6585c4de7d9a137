CONSTANTS
    Columns <- MCColumns
    RefTable <- MCRefTable
    ParentDb <- MCParentDb
    EntityType = "Entity"
    Tags <- MCTags
    InitialDBs <- MCInitialDBs
    MaxDeploys = 2
    MaxCrashes = 1
INIT Init
NEXT Next
INVARIANTS TypeOK SyncedFKsMatchDeclared
