SPECIFICATION Spec
CONSTANTS
    Spaces <- MCSpaces
    Selectors = {"fisher", "kl", "diff"}
    Likelihoods = {0, 1, 2}
    Nposteriors = {1}
    MaxItems = 2
    MaxTests = 2
INVARIANTS
    EstimateIsLikeliest
    InformationExact
    EveryPatternSummedOnce
