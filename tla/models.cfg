SPECIFICATION IrtSpec
CONSTANTS
    Prime = 251
    Root = 6
    Space <- MCSpace
    Requests <- MCRequests
    CovariateLists <- MCCovariateLists
    Ncats = {2}
    Situations <- MCSituations
    Seeds = {1}
    Junk = {1}
    MaxCalls = 2
CHECK_DEADLOCK FALSE
INVARIANTS
    EveryParameterNamed
    ProbabilitiesSumToOne
    ThetaDerivativesExact
    ParamDerivativesExact
    InformationIsVarianceOfScore
    DistanceIsLogOdds
