SPECIFICATION Spec
CONSTANTS
    Null = Null
    Generated = Generated
    Unset = Unset
    b1 = b1
    b2 = b2
    d1 = d1
    d2 = d2
    sp1 = sp1
    cv1 = cv1
    cv2 = cv2
    pt1 = pt1
    pt2 = pt2
    it1 = it1
    it2 = it2
    md1 = md1
    md2 = md2
    Things <- MCThings
    TestBank = b1
    Banks = {b1, b2}
    Vectors = {d1, d2}
    Spaces = {sp1}
    NumCont = 2
    Matrices <- TwoSizes
    Quotas <- MCQuotas
    Counts <- MCCounts
    Keys <- MCKeys
    Reals = {"2"}
    Ids = {"id"}
    DimLists <- MCDimLists
    Maxima <- MCMaxima
    Covariates = {cv1}
    NewCovariates = cv2
    FirstDim = "c1"
    Points = {pt1, pt2}
    Items = {it1, it2}
    Models = {md1, md2}
    Subjects <- AllSubjects
    MaxGiven = 3
    MaxListed = 2
CHECK_DEADLOCK FALSE
INVARIANTS
    ReadsAsSet
    Counted
    QuotasFitStrata
