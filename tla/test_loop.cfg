SPECIFICATION FairSpec
CONSTANTS
  NumItems = 3
  ItermaxSelect = 2
  ItermaxItems = 3
  Approving = {TRUE, FALSE}
INVARIANT TypeOK
INVARIANT NoItemTwice
INVARIANT ItemsCounted
INVARIANT TriesCounted
PROPERTY RefinesAdministration
PROPERTY EveryTestEnds
