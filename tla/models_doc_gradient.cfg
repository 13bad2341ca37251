SPECIFICATION IrtSpec
CONSTANTS
    Prime = 251
    Root = 6
    Space <- MCSpace
    Requests <- MCRequests
    CovariateLists <- MCCovariateLists
    Ncats = {2}
    Situations <- MCSituations
    Seeds = {1}
    Junk = {1}
    MaxCalls = 1
CHECK_DEADLOCK FALSE
INVARIANT DocumentedDparam
