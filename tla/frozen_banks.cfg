SPECIFICATION Spec
CONSTANTS
  i1 = i1
  i2 = i2
  t1 = t1
  t2 = t2
  m1 = m1
  m2 = m2
  Items <- MCItems
  NumBanks = 3
  Tests <- MCTests
  Names = {"default", "alt"}
  DefaultName = "default"
  Models = {m1}
  MaxCopies = 1
SYMMETRY Symmetry
INVARIANT FreezeExact
INVARIANT DefaultCached
PROPERTY NothingChangesInTest
