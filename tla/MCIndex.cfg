CONSTANTS
    a = a
    b = b
    c = c
    d = d
    Root = Root
    Block = {a, b, c, d}
    FullPage = {a, b, d}
    Parent <- MCParent
    Chain <- MCChain
    Rank <- MCRank
    Tokens <- MCTokens
    Capacity = 3
    Pod = {0, 1, 2}
    Request = {1, 2, 3, 4}
    Transfer = {1, 2, 3, 4}
    LoadWindow = 3
    PureQueries = TRUE
    Theta = 2
    HistoryWindow = 3
    ShortlistK = 2
    RoutingPolicy = "R_AFF"
    ProactivePolicy = "PERSISTENCE"
    PageTime = 2
    MaxGap = 2
    Skew = 0
SPECIFICATION Stage2Spec
INVARIANTS IndexAgrees NoDoubleCoverage
PROPERTIES DecidesAsScan
