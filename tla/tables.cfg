SPECIFICATION TablesSpec
CONSTANTS
    NumDims = 3
    DimNames = {"a", "b", "c"}
    DefaultNames <- MCDefaultNames
    Garbage = {"none"}
    Covs = {"u", "v", "w"}
    Values = {0, 1}
    MaxMoves = 2
    ByteBits = 2
    Objects = {a, b}
    Quarks = {p, q, r}
    MaxRegistered = 3
    RegisterAgain = FALSE
    Ids <- MCIds
    MaxLen = 5
    Usages <- LibraryUsages
CONSTRAINT OneAtATime
INVARIANTS
    NumSetExact
    NamesAgree
    ReadBack
    HasWhatWasSet
PROPERTIES
    RefinesBitSet
    IterationComplete
