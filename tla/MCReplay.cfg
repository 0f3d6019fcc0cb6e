CONSTANTS
    a = a
    b = b
    c = c
    d = d
    Root = Root
    Block = {a, b, c, d}
    FullPage = {a, b, d}
    Parent <- MCTail
    Chain <- MCTailChain
    Rank <- MCRank
    Tokens <- MCTokens
    Capacity = 2
    Pod = {0, 1}
    Request = {1, 2, 3, 4}
    Transfer = {1, 2, 3, 4}
    LoadWindow = 3
    PureQueries = FALSE
    Theta = 2
    HistoryWindow = 2
    FutureWindow = 2
    Visibility = 4
    ShortlistK = 2
    RoutingPolicy = "R_AFF"
    ProactivePolicy = "NONE"
    PageTime = 1
    MaxGap = 1
    Skew = 0
    Line = {1, 2, 3, 6, 7}
    OracleGap = {1}
    Decay <- MCDecay
    BucketBounds <- MCBounds
    WeightTenths <- MCWeights
    PageCost = 1
    CostUnit = 1
    EvalStart = 1
    EvalEnd = 3
    GiniWindow = 1
SPECIFICATION FairReplaySpec
INVARIANTS ReplayAccepted WasteExact ForesightComesTrue
PROPERTIES AllServed
