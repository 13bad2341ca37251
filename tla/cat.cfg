SPECIFICATION Spec
CONSTANTS
  NumItems = 5
  ItermaxSelect = 2
  ItermaxItems = 4
  Approving = {TRUE, FALSE}
  Settings <- MCSettings
  Discr <- MCDiscr
  Diff <- MCDiff
  FixedLen = 3
  Recording = {TRUE, FALSE}
  RestratifyAt = {"idle"}
  MaxExaminees = 2
INVARIANT ItemsFromTheirStratum
INVARIANT QuotasInStep
INVARIANT RateAtMostOne
INVARIANT FixedLengthHeld
INVARIANT StratumSuffices
PROPERTY RefinesTest
