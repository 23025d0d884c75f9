SPECIFICATION StoreSpec
CONSTANTS
    a1 = a1  a2 = a2  a3 = a3  a4 = a4  b2 = b2  b3 = b3  b4 = b4
    Origin = Origin
    Block <- Blocks4
    Path <- Path4
    Relevant <- Sparse
    Segment <- Sparse4
    Registering <- Sparse
    GroupDivisor = 3
    MaxNonce = 6
    MaxGroupNonce = 5
    owner = owner  account = account  transfer = transfer
    ownerId = ownerId  accountId = accountId  toId = toId
    Null = Null
    Value = {1}
    MaxBlocks = 2
    MaxLog = 4
INVARIANTS Addressable IndInv GroupsKeepOneChain RollbackRestores
PROPERTIES ImplementsIndexedChain
CHECK_DEADLOCK FALSE
