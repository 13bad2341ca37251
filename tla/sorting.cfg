SPECIFICATION SortingSpec
CONSTANTS
  NumItems = 5
  MaxParts = 3
  FValues = {0, 1}
  BlockValues = {0, 1}
  ChoiceItems = 4
  Dists = {1, 2, 3}
  Nums = {1, 2, 3}
INVARIANT StrataPartition
INVARIANT StratifiedWithinBlocks
INVARIANT AmongClosest
INVARIANT EarlierOfEqual
