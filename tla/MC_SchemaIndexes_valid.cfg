CONSTANTS
    Fields <- MCFields
    PrefixOf = {}
    MysqlPools = {"default", "other"}
    LocalPools = {"default"}
    RedisPools = {"default"}
    Decls <- MCDecls
INIT Init
NEXT Next
INVARIANTS TypeOK SchemaAcceptedIffValid 
CHECK_DEADLOCK FALSE
