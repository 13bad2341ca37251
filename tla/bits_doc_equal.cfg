SPECIFICATION TablesSpec
CONSTANTS
    ByteBits = 2
    MaxLen = 2
    Ids <- MCIds
    Usages <- EqualPoints
    NumDims = 0
    DimNames = {}
    DefaultNames <- NoNames
    Garbage = {"none"}
    Covs = {}
    Values = {0, 1}
    MaxMoves = 0
    Objects = {}
    Quarks = {}
    MaxRegistered = 0
    RegisterAgain = FALSE
PROPERTY DocumentedEqual
