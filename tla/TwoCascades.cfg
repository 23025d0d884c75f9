CONSTANTS
    o1 = o1
    a1 = a1
    a2 = a2
    t1 = t1
    ownerId = ownerId
    accountId = accountId
    toId = toId
    Null = Null
    Id <- MCId
    TableOf <- MCTableOf
    Columns <- MCColumns
    OwnerOf <- MCOwner
    TargetOf <- MCTarget
    Cascading <- TwoCascades
    Value = {1}
    MaxBlocks = 2
    MaxLog = 3
SPECIFICATION Spec
INVARIANTS
    RollbackRestores
CHECK_DEADLOCK FALSE
